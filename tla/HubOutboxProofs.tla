--------------------------- MODULE HubOutboxProofs ---------------------------
(***************************************************************************)
(* The safety properties of HubOutbox, proved for any entities, revisions, *)
(* status changes and bounds.  All of them are parts of one inductive      *)
(* invariant, Inv: what the Hub holds depends on what a process carries    *)
(* from one transaction of a publication to the next, and that in turn on  *)
(* the lock that keeps the tree it fetched current.                        *)
(***************************************************************************)
EXTENDS HubOutbox, LocalAuthority, FiniteSetTheorems, TLAPS

Transacting == {"mutate", "push", "verify"}

Publishing == {"stage"} \cup Transacting

IsVersioned(r) == r # Retirement /\ Kind[r[1]] \in Versioned

(* The row stands for something the Shared store has committed.            *)
Real(r) ==
  \/ r = Retirement /\ retired
  \/ r # Retirement /\ r[2] <= shared[r[1]]

RevisionIn(r, h) == <<r[1], Rev[r[1]][r[2]]>> \in h.revs

Covered(r, S) ==
  \A n \in StatusChanges[r[1]] \cap (1 .. r[2]) : <<r[1], n>> \in S

(* What the stages before the present one have left on the Hub.            *)
EvidenceOK(l, h) ==
  /\ ~IsVersioned(l.cur) => l.stage = "file"
  /\ IsVersioned(l.cur) /\ l.stage # "revision" => RevisionIn(l.cur, h)
  /\ IsVersioned(l.cur) /\ l.stage = "events" => Covered(l.cur, l.evs)
  /\ IsVersioned(l.cur) /\ l.stage = "file" => Covered(l.cur, h.events)

(* What the mutator found out and the lock preserves until the push.       *)
StillFresh(l, h) ==
  /\ IsConfiguration(l.cur) => ~h.marker
  /\ l.cur # Retirement /\ l.stage = "file" /\ Kind[l.cur[1]] # "rule" =>
       h.file[l.cur[1]] < l.cur[2]

(* What the transaction of a stage was to achieve.                         *)
Landed(r, stage, evs, h) ==
  /\ r = Retirement => RetirementApplied(h)
  /\ r # Retirement /\ stage = "revision" => RevisionIn(r, h)
  /\ r # Retirement /\ stage = "events" => evs \subseteq h.events
  /\ r # Retirement /\ stage = "file" => h.file[r[1]] = r[2]

OnHub(r) ==
  \/ r = Retirement /\ hub.marker
  \/ r # Retirement /\ Kind[r[1]] = "rule"
  \/ r # Retirement /\ hub.file[r[1]] >= r[2]
  \/ IsConfiguration(r) /\ retired

LocalOK(p, l) ==
  /\ \A r \in l.rest : Real(r)
  /\ p = "sync" => l.cur = Retirement
  /\ l.pc # "idle" => Real(l.cur)
  /\ l.pc \in Publishing => EvidenceOK(l, hub)
  /\ l.pc = "mutate" => l.tree = hub
  /\ l.pc = "push" =>
       l.tree = Written(l.cur, l.stage, l.evs, hub) /\ StillFresh(l, hub)
  /\ l.pc = "verify" => Landed(l.cur, l.stage, l.evs, hub)
  /\ l.pc = "mark" /\ l.out = "published" => OnHub(l.cur)

(* How a stage of the publication of r may change the current files.       *)
FileStep(r, stage, g, h) ==
  \A e \in Entities :
    \/ h.file[e] = g.file[e]
    \/ r = Retirement /\ Kind[e] = "configuration" /\ h.file[e] = 0
    \/ r # Retirement /\ stage = "file" /\ e = r[1] /\ h.file[e] = r[2]

LockOK == \A p \in Procs : proc[p].pc \in Transacting => lock = p

StoreOK ==
  /\ IsFiniteSet(DOMAIN row)
  /\ \A r \in DOMAIN row : Real(r)
  /\ hub.marker => retired
  /\ \A e \in Entities : hub.file[e] <= shared[e]

Inv ==
  /\ TypeOK
  /\ StoreOK
  /\ EvidenceFirst
  /\ PublishedIsOnHub
  /\ RetiredStaysGone
  /\ LockOK
  /\ \A p \in Procs : LocalOK(p, proc[p])

----------------------------------------------------------------------------
(* Rows, and what a stage makes of a tree.                                 *)

(* A row other than the retirement names an entity and one of its commits. *)
LEMMA RowParts ==
  ASSUME NEW r \in RowIds, r # Retirement
  PROVE  r[1] \in Entities /\ r[2] \in Nat \ {0} /\ r = <<r[1], r[2]>>
  BY DEF RowIds

(* The commit of a real row has a revision.                                *)
LEMMA RealRevision ==
  ASSUME TypeOK, NEW r \in RowIds, r # Retirement, Real(r)
  PROVE  /\ r[2] \in DOMAIN Rev[r[1]]
         /\ Rev[r[1]][r[2]] \in Nat \ {0}
<1>1. r[1] \in Entities /\ r[2] \in Nat \ {0}  BY RowParts
<1>2. r[2] <= shared[r[1]]  BY DEF Real
<1>3. /\ shared[r[1]] \in Nat /\ shared[r[1]] <= Len(Rev[r[1]])
      /\ Rev[r[1]] \in Seq(Nat \ {0})
  BY <1>1, EntityAssumption DEF TypeOK
<1>4. Len(Rev[r[1]]) \in Nat /\ DOMAIN Rev[r[1]] = 1 .. Len(Rev[r[1]])
  BY <1>3
<1> QED  BY <1>1, <1>2, <1>3, <1>4

(* Revisions do not decrease, so a smaller revision is an earlier commit.  *)
LEMMA SmallerIsEarlier ==
  ASSUME NEW e \in Entities, NEW n \in DOMAIN Rev[e], NEW k \in DOMAIN Rev[e],
         Rev[e][n] < Rev[e][k]
  PROVE  n < k
<1>1. Rev[e] \in Seq(Nat \ {0})  BY EntityAssumption
<1>2. DOMAIN Rev[e] = 1 .. Len(Rev[e]) /\ Len(Rev[e]) \in Nat  BY <1>1
<1>3. Rev[e][n] \in Nat /\ Rev[e][k] \in Nat  BY <1>1, <1>2
<1>4. CASE k <= n
  <2>1. k \in 1 .. n  BY <1>2, <1>4
  <2>2. Rev[e][k] <= Rev[e][n]  BY <2>1, EntityAssumption
  <2> QED  BY <2>2, <1>3
<1> QED  BY <1>2, <1>4

(* A stage turns a tree into a tree.                                       *)
LEMMA WrittenType ==
  ASSUME NEW r \in RowIds, NEW stage \in Stages,
         NEW evs \in SUBSET (Entities \X Nat), NEW h \in Hubs,
         r # Retirement => Rev[r[1]][r[2]] \in Nat
  PROVE  Written(r, stage, evs, h) \in Hubs
<1>1. CASE r = Retirement
  BY <1>1 DEF Written, Hubs
<1>2. CASE r # Retirement
  <2>1. r[1] \in Entities /\ r[2] \in Nat  BY <1>2, RowParts
  <2>2. <<r[1], Rev[r[1]][r[2]]>> \in Entities \X Nat  BY <1>2, <2>1
  <2>3. CASE stage = "revision"
    BY <1>2, <2>2, <2>3 DEF Written, Hubs
  <2>4. CASE stage = "events"
    BY <1>2, <2>4 DEF Written, Hubs
  <2>5. CASE stage = "file"
    BY <1>2, <2>1, <2>5 DEF Written, Hubs
  <2> QED  BY <2>3, <2>4, <2>5 DEF Stages
<1> QED  BY <1>1, <1>2

(* A stage that is written has landed.                                     *)
LEMMA WrittenLands ==
  ASSUME NEW r \in RowIds, NEW stage \in Stages,
         NEW evs \in SUBSET (Entities \X Nat), NEW h \in Hubs
  PROVE  Landed(r, stage, evs, Written(r, stage, evs, h))
<1>1. CASE r = Retirement
  BY <1>1 DEF Written, Hubs, Landed, RetirementApplied, Configurations
<1>2. CASE r # Retirement
  <2>1. r[1] \in Entities /\ r[2] \in Nat  BY <1>2, RowParts
  <2>3. CASE stage = "revision"
    BY <1>2, <2>1, <2>3 DEF Written, Hubs, Landed, RevisionIn
  <2>4. CASE stage = "events"
    BY <1>2, <2>4 DEF Written, Hubs, Landed
  <2>5. CASE stage = "file"
    BY <1>2, <2>1, <2>5 DEF Written, Hubs, Landed
  <2> QED  BY <2>3, <2>4, <2>5 DEF Stages
<1> QED  BY <1>1, <1>2

(* What a stage leaves alone.  Evidence is only added.                     *)
LEMMA WrittenFrame ==
  ASSUME NEW r \in RowIds, NEW stage \in Stages,
         NEW evs \in SUBSET (Entities \X Nat), NEW h \in Hubs,
         NEW w, w = Written(r, stage, evs, h)
  PROVE  /\ h.revs \subseteq w.revs
         /\ h.events \subseteq w.events
         /\ h.marker => w.marker
         /\ r # Retirement /\ w.marker => h.marker
         /\ FileStep(r, stage, h, w)
<1>1. CASE r = Retirement
  BY <1>1 DEF Written, FileStep, Hubs, Configurations
<1>2. CASE r # Retirement
  <2>1. r[1] \in Entities /\ r[2] \in Nat  BY <1>2, RowParts
  <2>3. CASE stage = "revision"
    BY <1>2, <2>1, <2>3 DEF Written, FileStep, Hubs
  <2>4. CASE stage = "events"
    BY <1>2, <2>4 DEF Written, FileStep, Hubs
  <2>5. CASE stage = "file"
    BY <1>2, <2>1, <2>5 DEF Written, FileStep, Hubs
  <2> QED  BY <2>3, <2>4, <2>5 DEF Stages
<1> QED  BY <1>1, <1>2

----------------------------------------------------------------------------
(* The records a process goes through.                                     *)

(* An idle process.                                                        *)
LEMMA RestingOK ==
  Resting \in Local /\ \A p \in Procs : LocalOK(p, Resting)
<1>1. EmptyHub \in Hubs  BY DEF EmptyHub, Hubs
<1>2. Retirement \in RowIds  BY DEF RowIds
<1>3. Resting \in Local  BY <1>1, <1>2 DEF Resting, Local, Stages, Outcomes
<1>4. \A p \in Procs : LocalOK(p, Resting)
  BY DEF Resting, LocalOK, Publishing, Transacting
<1> QED  BY <1>3, <1>4

EndedWith(l, out) ==
  [Resting EXCEPT !.pc = "mark", !.out = out, !.cur = l.cur, !.rest = l.rest]

(* A process at the end of a publication.                                  *)
LEMMA EndedOK ==
  ASSUME NEW p \in Procs, NEW l \in Local, NEW out \in Outcomes,
         LocalOK(p, l), l.pc # "idle",
         out = "published" => OnHub(l.cur)
  PROVE  EndedWith(l, out) \in Local /\ LocalOK(p, EndedWith(l, out))
<1>1. Resting \in Local  BY RestingOK
<1>2. /\ EndedWith(l, out) \in Local
      /\ EndedWith(l, out).pc = "mark" /\ EndedWith(l, out).out = out
      /\ EndedWith(l, out).cur = l.cur /\ EndedWith(l, out).rest = l.rest
  BY <1>1 DEF EndedWith, Local
<1>3. LocalOK(p, EndedWith(l, out))
  BY <1>2 DEF LocalOK, Publishing, Transacting
<1> QED  BY <1>2, <1>3

(* The process at the start of a publication, or back to rest.             *)
LEMMA DeliverOK ==
  ASSUME TypeOK, NEW p \in Procs, NEW batch \in SUBSET RowIds,
         \A r \in batch : Real(r),
         p = "sync" => batch = {Retirement},
         Deliver(p, batch)
  PROVE  \E l \in Local : /\ proc' = [proc EXCEPT ![p] = l]
                          /\ LocalOK(p, l)
                          /\ l.pc \notin Transacting
<1>1. CASE batch = {} /\ proc' = [proc EXCEPT ![p] = Resting]
  <2>1. Resting.pc \notin Transacting  BY DEF Resting, Transacting
  <2> QED  BY <1>1, <2>1, RestingOK
<1>2. CASE ~(batch = {} /\ proc' = [proc EXCEPT ![p] = Resting])
  <2>1. PICK r \in batch :
          proc' = [proc EXCEPT ![p] =
            [Resting EXCEPT
               !.cur = r, !.rest = batch \ {r}, !.stage = FirstStage(r),
               !.pc = IF IsConfiguration(r) /\ retired THEN "mark"
                      ELSE "stage",
               !.out = IF IsConfiguration(r) /\ retired THEN "cancelled"
                       ELSE "retry"]]
    BY <1>2 DEF Deliver
  <2> DEFINE l == [Resting EXCEPT
               !.cur = r, !.rest = batch \ {r}, !.stage = FirstStage(r),
               !.pc = IF IsConfiguration(r) /\ retired THEN "mark"
                      ELSE "stage",
               !.out = IF IsConfiguration(r) /\ retired THEN "cancelled"
                       ELSE "retry"]
  <2>2. FirstStage(r) \in {"revision", "file"}  BY DEF FirstStage
  <2>3. /\ l \in Local
        /\ l.cur = r /\ l.rest = batch \ {r} /\ l.stage = FirstStage(r)
        /\ l.pc \in {"mark", "stage"} /\ l.out \in {"cancelled", "retry"}
    <3>1. Resting \in Local  BY RestingOK
    <3> QED  BY <3>1, <2>2 DEF Local, Stages, Outcomes
  <2> HIDE DEF l
  <2>4. EvidenceOK(l, hub)
    BY <2>2, <2>3 DEF EvidenceOK, FirstStage, IsVersioned
  <2>5. LocalOK(p, l)
    BY <2>3, <2>4 DEF LocalOK, Publishing, Transacting
  <2>6. proc' = [proc EXCEPT ![p] = l]  BY <2>1 DEF l
  <2>7. l.pc \notin Transacting  BY <2>3 DEF Transacting
  <2> QED  BY <2>3, <2>5, <2>6, <2>7
<1> QED  BY <1>1, <1>2

(* What the Hub has for a row whose last stage has landed.                 *)
LEMMA LandedIsOnHub ==
  ASSUME TypeOK, NEW r \in RowIds, NEW evs, Landed(r, "file", evs, hub)
  PROVE  OnHub(r)
<1>1. CASE r = Retirement
  BY <1>1 DEF Landed, OnHub, RetirementApplied
<1>2. CASE r # Retirement
  <2>1. r[1] \in Entities /\ r[2] \in Nat  BY <1>2, RowParts
  <2> QED  BY <1>2, <2>1 DEF Landed, OnHub
<1> QED  BY <1>1, <1>2

(* The next stage of a publication whose present stage has landed.         *)
LEMMA NextStageOK ==
  ASSUME TypeOK, NEW p \in Procs, LocalOK(p, proc[p]),
         proc[p].pc \in Publishing, proc[p].stage # "file",
         Landed(proc[p].cur, proc[p].stage, proc[p].evs, hub)
  PROVE  LET l == [Resting EXCEPT !.pc = "stage", !.stage = NextStage(p),
                             !.cur = proc[p].cur, !.rest = proc[p].rest,
                             !.evs = EventsOf(Entry(p)[1])]
         IN l \in Local /\ LocalOK(p, l)
<1> DEFINE r == proc[p].cur
           l == [Resting EXCEPT !.pc = "stage", !.stage = NextStage(p),
                             !.cur = proc[p].cur, !.rest = proc[p].rest,
                             !.evs = EventsOf(Entry(p)[1])]
<1>1. proc[p] \in Local  BY DEF TypeOK
<1>2. r \in RowIds /\ proc[p].rest \in SUBSET RowIds /\ proc[p].stage \in Stages
      /\ proc[p].evs \in SUBSET (Entities \X Nat)
  BY <1>1 DEF Local
<1>3. EvidenceOK(proc[p], hub) /\ Real(r)
  BY DEF LocalOK, Publishing, Transacting
<1>4. IsVersioned(r)  BY <1>3 DEF EvidenceOK
<1>5. r # Retirement /\ r[1] \in Entities /\ r[2] \in Nat \ {0}
  BY <1>2, <1>4, RowParts DEF IsVersioned
<1>6. r[2] <= shared[r[1]] /\ shared[r[1]] \in Nat
  BY <1>3, <1>5 DEF Real, TypeOK
<1>7. EventsOf(r[1]) \in SUBSET (Entities \X Nat)  BY <1>5 DEF EventsOf
<1>8. Covered(r, EventsOf(r[1]))
  BY <1>5, <1>6 DEF Covered, EventsOf
<1>9. RevisionIn(r, hub)
  <2>1. CASE proc[p].stage = "revision"
    BY <2>1, <1>5 DEF Landed
  <2>2. CASE proc[p].stage # "revision"
    BY <2>2, <1>3, <1>4 DEF EvidenceOK
  <2> QED  BY <2>1, <2>2
<1>10. NextStage(p) = "file" => Covered(r, hub.events)
  <2>1. CASE proc[p].stage = "revision"
    <3>1. NextStage(p) = "file" => EventsOf(r[1]) = {}
      BY <2>1 DEF NextStage, Entry
    <3> QED  BY <3>1, <1>8 DEF Covered
  <2>2. CASE proc[p].stage = "events"
    <3>1. Covered(r, proc[p].evs)  BY <2>2, <1>3, <1>4 DEF EvidenceOK
    <3>2. proc[p].evs \subseteq hub.events  BY <2>2, <1>5 DEF Landed
    <3> QED  BY <3>1, <3>2 DEF Covered
  <2> QED  BY <2>1, <2>2, <1>2 DEF Stages
<1>11. NextStage(p) \in {"events", "file"}  BY DEF NextStage
<1>12. /\ l \in Local /\ l.pc = "stage" /\ l.stage = NextStage(p)
       /\ l.cur = r /\ l.rest = proc[p].rest /\ l.evs = EventsOf(r[1])
  <2>1. Resting \in Local  BY RestingOK
  <2>2. Entry(p) = r  BY DEF Entry
  <2> QED  BY <2>1, <2>2, <1>2, <1>7, <1>11 DEF Local, Stages
<1> HIDE DEF l
<1>13. EvidenceOK(l, hub)
  BY <1>4, <1>8, <1>9, <1>10, <1>11, <1>12 DEF EvidenceOK
<1>14. LocalOK(p, l)
  BY <1>3, <1>12, <1>13 DEF LocalOK, Publishing, Transacting
<1> QED  BY <1>12, <1>14 DEF l

----------------------------------------------------------------------------
(* The initial states.                                                     *)

LEMMA InitInv == Init => Inv
<1> SUFFICES ASSUME Init PROVE Inv  OBVIOUS
<1>1. TypeOK
  <2>1. EmptyHub \in Hubs  BY DEF EmptyHub, Hubs
  <2>2. \A e \in Entities : Len(Rev[e]) \in Nat  BY EntityAssumption
  <2>3. Resting \in Local  BY RestingOK
  <2>4. DOMAIN row = {} /\ DOMAIN created = {}  BY DEF Init
  <2>5. /\ shared \in [Entities -> Nat]
        /\ \A e \in Entities : shared[e] <= Len(Rev[e])
    BY <2>2 DEF Init
  <2>6. proc \in [Procs -> Local] /\ hub \in Hubs
    BY <2>1, <2>3 DEF Init
  <2>7. DOMAIN row \subseteq RowIds /\ due \subseteq DOMAIN row
    BY <2>4 DEF Init
  <2>8. active \in Workloads /\ retired \in BOOLEAN /\ head \in Nat
        /\ lock \in Procs \cup {"free"} /\ syncs \in Nat /\ faults \in Nat
        /\ foreign \in Nat
    BY DEF Init
  <2> QED  BY <2>4, <2>5, <2>6, <2>7, <2>8 DEF TypeOK
<1>2. StoreOK
  BY FS_EmptySet DEF Init, StoreOK, EmptyHub
<1>3. EvidenceFirst /\ PublishedIsOnHub /\ RetiredStaysGone
  BY DEF Init, EvidenceFirst, PublishedIsOnHub, RetiredStaysGone, EmptyHub
<1>4. LockOK  BY DEF Init, LockOK, Resting, Transacting
<1>5. \A p \in Procs : LocalOK(p, proc[p])  BY RestingOK DEF Init
<1> QED  BY <1>1, <1>2, <1>3, <1>4, <1>5 DEF Inv

----------------------------------------------------------------------------
(* Steps of one process that leave the store and the Hub alone.            *)

(* Such a step preserves the invariant when the record it leaves is right, *)
(* it holds the lock if it has to and did not take it from the other one.  *)
LEMMA LocalStep ==
  ASSUME Inv, NEW p \in Procs, NEW l \in Local,
         proc' = [proc EXCEPT ![p] = l], LocalOK(p, l),
         l.pc \in Transacting => lock' = p,
         lock' \in Procs \cup {"free"},
         \A q \in Procs \ {p} : lock = q => lock' = q,
         UNCHANGED <<active, store, remote>>,
         syncs' \in Nat /\ faults' \in Nat /\ foreign' \in Nat
  PROVE  Inv'
<1> USE DEF store, remote
<1>1. proc \in [Procs -> Local]  BY DEF Inv, TypeOK
<1>2. /\ proc' \in [Procs -> Local]
      /\ proc'[p] = l
      /\ \A q \in Procs \ {p} : proc'[q] = proc[q]
  BY <1>1
<1>3. TypeOK'  BY <1>2 DEF Inv, TypeOK
<1>4. StoreOK'  BY DEF Inv, StoreOK, Real
<1>5. EvidenceFirst' /\ RetiredStaysGone'
  BY DEF Inv, EvidenceFirst, RetiredStaysGone, RetirementApplied
<1>6. PublishedIsOnHub'  BY DEF Inv, PublishedIsOnHub
<1>7. LockOK'  BY <1>2 DEF Inv, LockOK
<1>8. ASSUME NEW q \in Procs, NEW k, LocalOK(q, k)
      PROVE  LocalOK(q, k)'
  BY <1>8 DEF LocalOK, Real, OnHub
<1>9. ASSUME NEW q \in Procs PROVE LocalOK(q, proc[q])'
  <2>1. CASE q = p
    <3>1. LocalOK(q, l)'  BY <1>8, <2>1
    <3> QED  BY <3>1, <1>2, <2>1 DEF LocalOK
  <2>2. CASE q # p
    <3>1. LocalOK(q, proc[q])  BY DEF Inv
    <3>2. proc'[q] = proc[q]  BY <1>2, <2>2
    <3> QED  BY <3>1, <3>2 DEF LocalOK, Real, OnHub
  <2> QED  BY <2>1, <2>2
<1> QED  BY <1>3, <1>4, <1>5, <1>6, <1>7, <1>9 DEF Inv

(* The end of a publication releases the lock.                             *)
LEMMA EndsStep ==
  ASSUME Inv, NEW p \in Procs, NEW out \in Outcomes,
         proc[p].pc # "idle", Ends(p, out), Release(p),
         out = "published" => OnHub(proc[p].cur),
         UNCHANGED <<active, store, remote>>,
         syncs' \in Nat /\ faults' \in Nat /\ foreign' \in Nat
  PROVE  Inv'
<1>1. proc[p] \in Local /\ LocalOK(p, proc[p])  BY DEF Inv, TypeOK
<1>2. EndedWith(proc[p], out) \in Local /\ LocalOK(p, EndedWith(proc[p], out))
  BY <1>1, EndedOK
<1>3. proc' = [proc EXCEPT ![p] = EndedWith(proc[p], out)]  BY DEF Ends, EndedWith
<1>4. EndedWith(proc[p], out).pc = "mark"  BY <1>1, RestingOK DEF EndedWith, Local
<1>5. /\ lock' \in Procs \cup {"free"}
      /\ \A q \in Procs \ {p} : lock = q => lock' = q
  BY DEF Release, Inv, TypeOK
<1>6. EndedWith(proc[p], out).pc \notin Transacting  BY <1>4 DEF Transacting
<1> QED  BY <1>2, <1>3, <1>5, <1>6, LocalStep

(* A failed transaction.                                                   *)
LEMMA FailsStep ==
  ASSUME Inv, NEW p \in Procs, proc[p].pc # "idle", Fails(p),
         UNCHANGED <<active, store, remote>>,
         syncs' \in Nat /\ faults' \in Nat /\ foreign' \in Nat
  PROVE  Inv'
<1>1. Release(p)  BY DEF Fails
<1>2. CASE Ends(p, "retry")
  <2>1. "retry" \in Outcomes  BY DEF Outcomes
  <2> QED  BY <1>1, <1>2, <2>1, EndsStep
<1>3. CASE Entry(p) = Retirement /\ RetirementApplied(hub) /\ Ends(p, "published")
  <2>1. "published" \in Outcomes  BY DEF Outcomes
  <2>2. OnHub(proc[p].cur)  BY <1>3 DEF OnHub, Entry, RetirementApplied
  <2> QED  BY <1>1, <1>3, <2>1, <2>2, EndsStep
<1> QED  BY <1>2, <1>3 DEF Fails

(* A transaction that is over.                                             *)
LEMMA StageDoneStep ==
  ASSUME Inv, NEW p \in Procs, proc[p].pc \in Publishing, StageDone(p),
         proc[p].stage # "file" =>
           Landed(proc[p].cur, proc[p].stage, proc[p].evs, hub),
         proc[p].stage = "file" => OnHub(proc[p].cur),
         UNCHANGED <<active, store, remote>>,
         syncs' \in Nat /\ faults' \in Nat /\ foreign' \in Nat
  PROVE  Inv'
<1>1. Release(p)  BY DEF StageDone
<1>2. CASE proc[p].stage # "file"
  <2> DEFINE l == [Resting EXCEPT !.pc = "stage", !.stage = NextStage(p),
                             !.cur = proc[p].cur, !.rest = proc[p].rest,
                             !.evs = EventsOf(Entry(p)[1])]
  <2>1. TypeOK /\ LocalOK(p, proc[p])  BY DEF Inv
  <2>2. l \in Local /\ LocalOK(p, l)  BY <1>2, <2>1, NextStageOK
  <2>3. proc' = [proc EXCEPT ![p] = l]  BY <1>2 DEF StageDone
  <2>4. l.pc = "stage"  BY DEF Resting
  <2> HIDE DEF l
  <2>5. l.pc \notin Transacting  BY <2>4 DEF Transacting
  <2>6. /\ lock' \in Procs \cup {"free"}
        /\ \A q \in Procs \ {p} : lock = q => lock' = q
    BY <1>1 DEF Release, Inv, TypeOK
  <2> QED  BY <2>2, <2>3, <2>5, <2>6, LocalStep
<1>3. CASE proc[p].stage = "file"
  <2>1. Ends(p, "published")  BY <1>3 DEF StageDone
  <2>2. "published" \in Outcomes /\ proc[p].pc # "idle"
    BY DEF Outcomes, Publishing, Transacting
  <2> QED  BY <1>1, <1>3, <2>1, <2>2, EndsStep
<1> QED  BY <1>2, <1>3

LEMMA PollStep == ASSUME Inv, Poll PROVE Inv'
<1>1. TypeOK /\ "worker" \in Procs  BY DEF Inv, Procs
<1>2. PendingOutbox \in SUBSET RowIds /\ \A r \in PendingOutbox : Real(r)
  BY DEF PendingOutbox, DueRows, Inv, TypeOK, StoreOK
<1>3. PICK l \in Local :
        /\ proc' = [proc EXCEPT !["worker"] = l]
        /\ LocalOK("worker", l)
        /\ l.pc \notin Transacting
  BY <1>1, <1>2, DeliverOK DEF Poll
<1>5. UNCHANGED <<active, store, remote, lock, bounds>>  BY DEF Poll
<1>6. syncs' \in Nat /\ faults' \in Nat /\ foreign' \in Nat
  BY <1>1, <1>5 DEF TypeOK, bounds
<1>7. lock' = lock /\ lock \in Procs \cup {"free"}  BY <1>1, <1>5 DEF TypeOK
<1> QED  BY <1>1, <1>3, <1>5, <1>6, <1>7, LocalStep

LEMMA SyncStep == ASSUME Inv, Sync PROVE Inv'
<1>1. TypeOK /\ "sync" \in Procs  BY DEF Inv, Procs
<1>2. {Retirement} \in SUBSET RowIds /\ \A r \in {Retirement} : Real(r)
  BY DEF Sync, Real, RowIds
<1>3. PICK l \in Local :
        /\ proc' = [proc EXCEPT !["sync"] = l]
        /\ LocalOK("sync", l)
        /\ l.pc \notin Transacting
  BY <1>1, <1>2, DeliverOK DEF Sync
<1>5. UNCHANGED <<active, store, remote, lock, faults, foreign>>  BY DEF Sync
<1>6. syncs' \in Nat /\ faults' \in Nat /\ foreign' \in Nat
  BY <1>1, <1>5 DEF TypeOK, Sync
<1>7. lock' = lock /\ lock \in Procs \cup {"free"}  BY <1>1, <1>5 DEF TypeOK
<1> QED  BY <1>1, <1>3, <1>5, <1>6, <1>7, LocalStep

LEMMA LockBusyStep == ASSUME Inv, NEW p \in Procs, LockBusy(p) PROVE Inv'
<1>1. UNCHANGED <<active, store, remote, bounds>> /\ Fails(p)  BY DEF LockBusy
<1>2. syncs' \in Nat /\ faults' \in Nat /\ foreign' \in Nat
  BY <1>1 DEF Inv, TypeOK, bounds
<1>3. proc[p].pc # "idle"  BY DEF LockBusy, At
<1> QED  BY <1>1, <1>2, <1>3, FailsStep

LEMMA FaultStep == ASSUME Inv, NEW p \in Procs, Fault(p) PROVE Inv'
<1>1. UNCHANGED <<active, store, remote, syncs, foreign>> /\ Fails(p)
  BY DEF Fault
<1>2. syncs' \in Nat /\ faults' \in Nat /\ foreign' \in Nat
  BY <1>1 DEF Inv, TypeOK, Fault, MayFault
<1>3. proc[p].pc # "idle"  BY DEF Fault
<1> QED  BY <1>1, <1>2, <1>3, FailsStep

LEMMA FetchStep == ASSUME Inv, NEW p \in Procs, Fetch(p) PROVE Inv'
<1> DEFINE l == [proc[p] EXCEPT !.pc = "mutate", !.base = head, !.tree = hub]
<1>1. proc[p] \in Local /\ LocalOK(p, proc[p]) /\ proc[p].pc = "stage"
      /\ proc \in [Procs -> Local]
  BY DEF Inv, TypeOK, Fetch, At
<1>2. proc' = [proc EXCEPT ![p] = l]  BY <1>1 DEF Fetch
<1>3. /\ l \in Local /\ l.pc = "mutate" /\ l.tree = hub /\ l.cur = proc[p].cur
      /\ l.rest = proc[p].rest /\ l.stage = proc[p].stage /\ l.evs = proc[p].evs
  <2>1. head \in Nat /\ hub \in Hubs  BY DEF Inv, TypeOK
  <2> QED  BY <2>1, <1>1 DEF Local
<1> HIDE DEF l
<1>4. EvidenceOK(l, hub)
  <2>1. EvidenceOK(proc[p], hub)  BY <1>1 DEF LocalOK, Publishing
  <2> QED  BY <2>1, <1>3 DEF EvidenceOK
<1>5. LocalOK(p, l)  BY <1>1, <1>3, <1>4 DEF LocalOK, Publishing
<1>6. UNCHANGED <<active, store, remote, bounds>> /\ lock' = p /\ lock = "free"
  BY DEF Fetch
<1>7. syncs' \in Nat /\ faults' \in Nat /\ foreign' \in Nat
  BY <1>6 DEF Inv, TypeOK, bounds
<1>8. \A q \in Procs \ {p} : lock = q => lock' = q  BY <1>6 DEF Procs
<1> QED  BY <1>2, <1>3, <1>5, <1>6, <1>7, <1>8, LocalStep

----------------------------------------------------------------------------
(* The decision of the mutator.                                            *)

(* A file of the Hub is a commit of the Shared store.                      *)
LEMMA FileIsCommit ==
  ASSUME Inv, NEW e \in Entities, hub.file[e] > 0
  PROVE  hub.file[e] \in DOMAIN Rev[e] /\ Rev[e][hub.file[e]] \in Nat
<1>1. hub.file[e] \in Nat /\ hub.file[e] <= shared[e]
  BY DEF Inv, TypeOK, StoreOK, Hubs
<1>2. /\ shared[e] \in Nat /\ shared[e] <= Len(Rev[e])
      /\ Rev[e] \in Seq(Nat \ {0})
  BY EntityAssumption DEF Inv, TypeOK
<1>3. Len(Rev[e]) \in Nat /\ DOMAIN Rev[e] = 1 .. Len(Rev[e])  BY <1>2
<1> QED  BY <1>1, <1>2, <1>3

(* When a publisher keeps the file it finds, the Hub has the row's commit  *)
(* or a later one.                                                         *)
LEMMA NoopIsOnHub ==
  ASSUME Inv, NEW r \in RowIds, Real(r), Present(r, "file", hub),
         Noop(r[1], Payload(r[1], hub.file[r[1]]), Payload(r[1], r[2]))
  PROVE  OnHub(r)
<1> DEFINE e == r[1]  f == hub.file[e]  n == r[2]
<1>1. r # Retirement /\ f > 0  BY DEF Present
<1>2. e \in Entities /\ n \in Nat  BY <1>1, RowParts
<1>3. f \in DOMAIN Rev[e] /\ Rev[e][f] \in Nat  BY <1>1, <1>2, FileIsCommit
<1>4. n \in DOMAIN Rev[e] /\ Rev[e][n] \in Nat
  BY <1>1, RealRevision DEF Inv
<1>5. f \in Nat  BY <1>2 DEF Inv, TypeOK, Hubs
<1>6. CASE Rev[e][f] > Rev[e][n]
  <2>1. n < f  BY <1>2, <1>3, <1>4, <1>6, SmallerIsEarlier
  <2> QED  BY <1>1, <1>2, <1>5, <2>1 DEF OnHub
<1>7. CASE f >= n
  BY <1>1, <1>7 DEF OnHub
<1>8. CASE Kind[e] = "rule"
  BY <1>1, <1>8 DEF OnHub
<1>9. CASE f = n
  BY <1>5, <1>7, <1>9
<1> QED  BY <1>6, <1>7, <1>8, <1>9 DEF Noop, TaskNoop, Payload

(* When the publisher of a Task, a Track or a configuration writes, the    *)
(* file it replaces is of an earlier commit.                               *)
LEMMA WriteIsLater ==
  ASSUME Inv, NEW r \in RowIds, Real(r), r # Retirement,
         Kind[r[1]] # "rule", NEW evs,
         ~Refused(r, "file", hub), ~Current(r, "file", evs, hub)
  PROVE  hub.file[r[1]] < r[2]
<1> DEFINE e == r[1]  f == hub.file[e]  n == r[2]
<1>1. e \in Entities /\ n \in Nat \ {0}  BY RowParts
<1>2. f \in Nat  BY <1>1 DEF Inv, TypeOK, Hubs
<1>3. CASE f = 0  BY <1>1, <1>3
<1>4. CASE f > 0
  <2>1. f \in DOMAIN Rev[e] /\ Rev[e][f] \in Nat  BY <1>1, <1>4, FileIsCommit
  <2>2. n \in DOMAIN Rev[e] /\ Rev[e][n] \in Nat  BY RealRevision DEF Inv
  <2>3. Present(r, "file", hub)  BY <1>4 DEF Present
  <2>4. /\ ~Noop(e, Payload(e, f), Payload(e, n))
        /\ ~Conflicts(e, Payload(e, f), Payload(e, n))
    BY <2>3 DEF Refused, Current
  <2>5. Kind[e] \in {"task", "track", "configuration"}
    BY <1>1, EntityAssumption DEF Kinds
  <2>6. Rev[e][f] < Rev[e][n] \/ f < n
    BY <2>1, <2>2, <2>4, <2>5, <1>1, <1>2 DEF Noop, TaskNoop, Conflicts, Payload
  <2> QED  BY <1>1, <2>1, <2>2, <2>6, SmallerIsEarlier
<1> QED  BY <1>2, <1>3, <1>4

LEMMA MutateStep == ASSUME Inv, NEW p \in Procs, Mutate(p) PROVE Inv'
<1> DEFINE r == proc[p].cur
           stage == proc[p].stage
           evs == proc[p].evs
<1>1. /\ proc[p] \in Local /\ LocalOK(p, proc[p]) /\ proc[p].pc = "mutate"
      /\ proc \in [Procs -> Local] /\ TypeOK
  BY DEF Inv, TypeOK, Mutate, At
<1>2. /\ r \in RowIds /\ stage \in Stages /\ hub \in Hubs
      /\ evs \in SUBSET (Entities \X Nat)
  BY <1>1 DEF Local, TypeOK
<1>3. proc[p].tree = hub /\ Real(r) /\ EvidenceOK(proc[p], hub) /\ lock = p
  BY <1>1 DEF LocalOK, Publishing, Transacting, Inv, LockOK
<1>4. UNCHANGED <<active, store, remote, bounds>>  BY DEF Mutate
<1>5. syncs' \in Nat /\ faults' \in Nat /\ foreign' \in Nat
  BY <1>1, <1>4 DEF TypeOK, bounds
<1>6. proc[p].pc # "idle" /\ proc[p].pc \in Publishing
  BY <1>1 DEF Publishing, Transacting
<1>7. CASE Ends(p, "cancelled") /\ Release(p)
  <2>1. "cancelled" \in Outcomes  BY DEF Outcomes
  <2> QED  BY <1>4, <1>5, <1>6, <1>7, <2>1, EndsStep
<1>8. CASE Fails(p)
  BY <1>4, <1>5, <1>6, <1>8, FailsStep
<1>9. CASE Current(r, stage, evs, hub) /\ StageDone(p)
  <2>1. CASE Written(r, stage, evs, hub) = hub
    <3>1. Landed(r, stage, evs, hub)  BY <1>2, <2>1, WrittenLands
    <3>2. stage = "file" => OnHub(r)  BY <1>1, <1>2, <3>1, LandedIsOnHub
    <3> QED  BY <1>4, <1>5, <1>6, <1>9, <3>1, <3>2, StageDoneStep
  <2>2. CASE /\ Present(r, stage, hub)
             /\ Noop(r[1], Payload(r[1], hub.file[r[1]]), Payload(r[1], r[2]))
    <3>1. stage = "file"  BY <2>2 DEF Present
    <3>2. OnHub(r)  BY <1>2, <1>3, <2>2, <3>1, NoopIsOnHub
    <3> QED  BY <1>4, <1>5, <1>6, <1>9, <3>1, <3>2, StageDoneStep
  <2> QED  BY <1>9, <2>1, <2>2 DEF Current
<1>10. CASE /\ ~Cancelled(r) /\ ~Refused(r, stage, hub)
            /\ ~Current(r, stage, evs, hub)
            /\ proc' = [proc EXCEPT ![p].pc = "push",
                          ![p].tree = Written(r, stage, evs, hub)]
            /\ UNCHANGED lock
  <2> DEFINE w == Written(r, stage, evs, hub)
             l == [proc[p] EXCEPT !.pc = "push", !.tree = w]
  <2>1. w \in Hubs
    <3>1. r # Retirement => Rev[r[1]][r[2]] \in Nat
      BY <1>1, <1>2, <1>3, RealRevision
    <3> QED  BY <1>2, <3>1, WrittenType
  <2> HIDE DEF w
  <2>2. proc' = [proc EXCEPT ![p] = l]  BY <1>1, <1>10 DEF w
  <2>3. /\ l \in Local /\ l.pc = "push" /\ l.tree = w /\ l.cur = r
        /\ l.rest = proc[p].rest /\ l.stage = stage /\ l.evs = evs
    BY <1>1, <2>1 DEF Local
  <2> HIDE DEF l
  <2>4. EvidenceOK(l, hub)  BY <1>3, <2>3 DEF EvidenceOK
  <2>5. IsConfiguration(r) => ~hub.marker
    BY <1>10 DEF Cancelled, Inv, StoreOK
  <2>6. r # Retirement /\ stage = "file" /\ Kind[r[1]] # "rule" =>
          hub.file[r[1]] < r[2]
    BY <1>2, <1>3, <1>10, WriteIsLater
  <2>7. StillFresh(l, hub)  BY <2>3, <2>5, <2>6 DEF StillFresh
  <2>8. l.tree = Written(l.cur, l.stage, l.evs, hub)  BY <2>3 DEF w
  <2>9. LocalOK(p, l)
    BY <1>1, <1>3, <2>3, <2>4, <2>7, <2>8 DEF LocalOK, Publishing, Transacting
  <2>10. lock' = p /\ lock' = lock  BY <1>3, <1>10
  <2> QED  BY <1>4, <1>5, <2>2, <2>3, <2>9, <2>10, LocalStep
<1> QED  BY <1>3, <1>7, <1>8, <1>9, <1>10 DEF Mutate, Entry

LEMMA VerifyStep == ASSUME Inv, NEW p \in Procs, Verify(p) PROVE Inv'
<1>1. /\ proc[p] \in Local /\ LocalOK(p, proc[p]) /\ proc[p].pc = "verify"
      /\ TypeOK
  BY DEF Inv, TypeOK, Verify, At
<1>2. UNCHANGED <<active, store, remote, bounds>>  BY DEF Verify
<1>3. syncs' \in Nat /\ faults' \in Nat /\ foreign' \in Nat
  BY <1>1, <1>2 DEF TypeOK, bounds
<1>4. proc[p].pc # "idle" /\ proc[p].pc \in Publishing
  BY <1>1 DEF Publishing, Transacting
<1>5. CASE Fails(p)  BY <1>2, <1>3, <1>4, <1>5, FailsStep
<1>6. CASE StageDone(p)
  <2>1. Landed(proc[p].cur, proc[p].stage, proc[p].evs, hub)
    BY <1>1 DEF LocalOK
  <2>2. proc[p].cur \in RowIds  BY <1>1 DEF Local
  <2>3. proc[p].stage = "file" => OnHub(proc[p].cur)
    BY <1>1, <2>1, <2>2, LandedIsOnHub
  <2> QED  BY <1>2, <1>3, <1>4, <1>6, <2>1, <2>3, StageDoneStep
<1> QED  BY <1>5, <1>6 DEF Verify

----------------------------------------------------------------------------
(* The push.                                                               *)

(* A push that is accepted.                                                *)
Pushed(p) ==
  /\ At(p, "push")
  /\ hub' = proc[p].tree
  /\ head' = head + 1
  /\ proc' = [proc EXCEPT ![p].pc = "verify"]
  /\ UNCHANGED <<active, store, lock, bounds>>

(* What a push does to the Hub: evidence is added, and a current file is   *)
(* replaced by a later one, by any one of a Rule, or removed by the        *)
(* retirement.                                                             *)
LEMMA PushedHub ==
  ASSUME Inv, NEW p \in Procs, Pushed(p)
  PROVE  LET r == proc[p].cur
         IN /\ hub' \in Hubs
            /\ Landed(r, proc[p].stage, proc[p].evs, hub')
            /\ hub.revs \subseteq hub'.revs
            /\ hub.events \subseteq hub'.events
            /\ hub.marker => hub'.marker
            /\ r # Retirement /\ hub'.marker => hub.marker
            /\ Real(r)
            /\ EvidenceOK(proc[p], hub)
            /\ StillFresh(proc[p], hub)
            /\ FileStep(r, proc[p].stage, hub, hub')
<1> DEFINE r == proc[p].cur
           stage == proc[p].stage
           evs == proc[p].evs
<1>1. /\ proc[p] \in Local /\ LocalOK(p, proc[p]) /\ proc[p].pc = "push"
      /\ TypeOK
  BY DEF Inv, TypeOK, Pushed, At
<1>2. /\ r \in RowIds /\ stage \in Stages /\ hub \in Hubs
      /\ evs \in SUBSET (Entities \X Nat) /\ proc[p].tree \in Hubs
  BY <1>1 DEF Local, TypeOK
<1>3. /\ Real(r) /\ EvidenceOK(proc[p], hub) /\ StillFresh(proc[p], hub)
      /\ proc[p].tree = Written(r, stage, evs, hub)
  BY <1>1 DEF LocalOK, Publishing, Transacting
<1>4. hub' = Written(r, stage, evs, hub) /\ hub' \in Hubs
  BY <1>2, <1>3 DEF Pushed
<1>5. Landed(r, stage, evs, hub')  BY <1>2, <1>4, WrittenLands
<1> HIDE DEF r, stage, evs
<1>6. /\ hub.revs \subseteq hub'.revs
      /\ hub.events \subseteq hub'.events
      /\ hub.marker => hub'.marker
      /\ r # Retirement /\ hub'.marker => hub.marker
      /\ FileStep(r, stage, hub, hub')
  BY <1>2, <1>4, WrittenFrame
<1> QED  BY <1>3, <1>4, <1>5, <1>6 DEF r, stage, evs

(* What a row stands for stays on the Hub.                                 *)
LEMMA PushKeepsOnHub ==
  ASSUME Inv, NEW p \in Procs, Pushed(p), NEW x \in RowIds, OnHub(x)
  PROVE  OnHub(x)'
<1>1. retired' = retired  BY DEF Pushed, store
<1>2. CASE x = Retirement
  BY <1>2, PushedHub DEF OnHub, IsConfiguration
<1>3. CASE x # Retirement
  <2>1. x[1] \in Entities /\ x[2] \in Nat  BY <1>3, RowParts
  <2>2. /\ hub.file[x[1]] \in Nat /\ proc[p].cur \in RowIds
        /\ Kind[x[1]] \in Kinds
    BY <2>1, EntityAssumption DEF Inv, TypeOK, Hubs, Local
  <2>3. CASE Kind[x[1]] = "rule"  BY <1>3, <2>3 DEF OnHub
  <2>4. CASE IsConfiguration(x) /\ retired  BY <1>1, <2>4 DEF OnHub, IsConfiguration
  <2>5. CASE Kind[x[1]] # "rule" /\ hub.file[x[1]] >= x[2]
    <3>1. CASE hub'.file[x[1]] = hub.file[x[1]]
      BY <1>3, <2>5, <3>1 DEF OnHub
    <3>2. CASE proc[p].cur = Retirement /\ Kind[x[1]] = "configuration"
      <4>1. retired  BY <3>2, PushedHub DEF Real
      <4> QED  BY <1>1, <1>3, <3>2, <4>1 DEF OnHub, IsConfiguration
    <3>3. CASE /\ proc[p].cur # Retirement /\ proc[p].stage = "file"
               /\ x[1] = proc[p].cur[1] /\ hub'.file[x[1]] = proc[p].cur[2]
      <4>1. hub.file[x[1]] < proc[p].cur[2]
        BY <2>5, <3>3, PushedHub DEF StillFresh
      <4>2. proc[p].cur[2] \in Nat  BY <2>2, <3>3, RowParts
      <4> QED  BY <1>3, <2>1, <2>2, <2>5, <3>3, <4>1, <4>2 DEF OnHub
    <3> QED  BY <2>1, <3>1, <3>2, <3>3, PushedHub DEF FileStep
  <2> QED  BY <1>3, <2>3, <2>4, <2>5 DEF OnHub
<1> QED  BY <1>2, <1>3

LEMMA PushedStep == ASSUME Inv, NEW p \in Procs, Pushed(p) PROVE Inv'
<1> DEFINE r == proc[p].cur
           l == [proc[p] EXCEPT !.pc = "verify"]
<1>1. /\ proc[p] \in Local /\ LocalOK(p, proc[p]) /\ proc[p].pc = "push"
      /\ proc \in [Procs -> Local] /\ TypeOK /\ r \in RowIds
  BY DEF Inv, TypeOK, Pushed, At, Local
<1>2. /\ l \in Local /\ l.pc = "verify" /\ l.cur = r /\ l.rest = proc[p].rest
      /\ l.stage = proc[p].stage /\ l.evs = proc[p].evs
  BY <1>1 DEF Local
<1>3. /\ proc'[p] = l /\ proc' \in [Procs -> Local]
      /\ \A q \in Procs \ {p} : proc'[q] = proc[q]
  BY <1>1, <1>2 DEF Pushed
<1> HIDE DEF l
<1>4. UNCHANGED <<active, shared, retired, created, row, due, lock, syncs,
                  faults, foreign>>
  BY DEF Pushed, store, bounds
<1>5. head' \in Nat /\ hub' \in Hubs
  <2>1. head' \in Nat  BY <1>1 DEF Pushed, TypeOK
  <2>2. hub' \in Hubs  BY PushedHub
  <2> QED  BY <2>1, <2>2
<1>6. TypeOK'  BY <1>1, <1>3, <1>4, <1>5 DEF TypeOK
<1>7. StoreOK'
  <2>1. IsFiniteSet(DOMAIN row)' /\ (\A x \in DOMAIN row : Real(x))'
    BY <1>4 DEF Inv, StoreOK, Real
  <2>2. (hub.marker => retired)'
    <3>1. CASE r = Retirement  BY <1>4, <3>1, PushedHub DEF Real
    <3>2. CASE r # Retirement  BY <1>4, <3>2, PushedHub DEF Inv, StoreOK
    <3> QED  BY <3>1, <3>2
  <2>3. ASSUME NEW e \in Entities PROVE hub'.file[e] <= shared'[e]
    <3>1. hub.file[e] <= shared[e] /\ shared[e] \in Nat
      BY <1>1 DEF Inv, StoreOK, TypeOK
    <3>2. CASE hub'.file[e] = hub.file[e]  BY <1>4, <3>1, <3>2
    <3>3. CASE hub'.file[e] = 0  BY <1>4, <3>1, <3>3
    <3>4. CASE r # Retirement /\ e = r[1] /\ hub'.file[e] = r[2]
      BY <1>4, <3>4, PushedHub DEF Real
    <3> QED  BY <3>2, <3>3, <3>4, PushedHub DEF FileStep
  <2> QED  BY <2>1, <2>2, <2>3 DEF StoreOK
<1>8. EvidenceFirst'
  <2> SUFFICES ASSUME NEW e \in Entities, Kind[e] \in Versioned, hub'.file[e] > 0
               PROVE  /\ <<e, Rev[e][hub'.file[e]]>> \in hub'.revs
                      /\ \A n \in StatusChanges[e] \cap (1 .. hub'.file[e]) :
                           <<e, n>> \in hub'.events
    BY DEF EvidenceFirst
  <2>1. CASE hub'.file[e] = hub.file[e]
    <3>1. /\ <<e, Rev[e][hub.file[e]]>> \in hub.revs
          /\ \A n \in StatusChanges[e] \cap (1 .. hub.file[e]) :
               <<e, n>> \in hub.events
      BY <2>1 DEF Inv, EvidenceFirst
    <3> QED  BY <2>1, <3>1, PushedHub
  <2>2. CASE /\ r # Retirement /\ proc[p].stage = "file" /\ e = r[1]
             /\ hub'.file[e] = r[2]
    <3>1. IsVersioned(r)  BY <2>2 DEF IsVersioned
    <3>2. RevisionIn(r, hub) /\ Covered(r, hub.events)
      BY <2>2, <3>1, PushedHub DEF EvidenceOK
    <3> QED  BY <2>2, <3>2, PushedHub DEF RevisionIn, Covered
  <2>3. Kind[e] # "configuration"  BY DEF Versioned
  <2> QED  BY <2>1, <2>2, <2>3, PushedHub DEF FileStep
<1>9. PublishedIsOnHub'
  <2>1. ASSUME NEW x \in DOMAIN row, row[x] = "published" PROVE OnHub(x)'
    <3>1. x \in RowIds /\ OnHub(x)
      BY <2>1, <1>1 DEF Inv, PublishedIsOnHub, OnHub, TypeOK
    <3> QED  BY <3>1, PushKeepsOnHub
  <2> QED  BY <1>4, <2>1 DEF PublishedIsOnHub, OnHub
<1>10. RetiredStaysGone'
  <2>1. CASE r = Retirement
    BY <2>1, PushedHub DEF RetiredStaysGone, Landed
  <2>2. CASE r # Retirement
    <3> SUFFICES ASSUME hub'.marker, NEW e \in Configurations
                 PROVE  hub'.file[e] = 0
      BY DEF RetiredStaysGone, RetirementApplied
    <3>1. e \in Entities /\ Kind[e] = "configuration"  BY DEF Configurations
    <3>2. hub.marker  BY <2>2, PushedHub
    <3>3. hub.file[e] = 0
      BY <3>2 DEF Inv, RetiredStaysGone, RetirementApplied
    <3>4. e # r[1]
      BY <2>2, <3>1, <3>2, PushedHub DEF StillFresh, IsConfiguration
    <3> QED  BY <2>2, <3>1, <3>3, <3>4, PushedHub DEF FileStep
  <2> QED  BY <2>1, <2>2
<1>11. LockOK'
  BY <1>1, <1>2, <1>3, <1>4 DEF Inv, LockOK, Transacting
<1>12. ASSUME NEW q \in Procs PROVE LocalOK(q, proc[q])'
  <2>1. CASE q = p
    <3>1. EvidenceOK(l, hub')
      BY <1>2, PushedHub DEF EvidenceOK, RevisionIn, Covered
    <3>2. Landed(l.cur, l.stage, l.evs, hub')  BY <1>2, PushedHub
    <3> QED
      BY <1>1, <1>2, <1>3, <1>4, <2>1, <3>1, <3>2
      DEF LocalOK, Real, Publishing, Transacting
  <2>2. CASE q # p
    <3>1. proc'[q] = proc[q] /\ LocalOK(q, proc[q]) /\ proc[q] \in Local
      BY <1>1, <1>3, <2>2 DEF Inv
    <3>2. proc[q].pc \notin Transacting
      BY <1>1, <2>2 DEF Inv, LockOK, Transacting
    <3>3. proc[q].pc \in Publishing => EvidenceOK(proc[q], hub')
      BY <3>1, PushedHub DEF LocalOK, EvidenceOK, RevisionIn, Covered
    <3>4. proc[q].cur \in RowIds  BY <3>1 DEF Local
    <3>5. proc[q].pc = "mark" /\ proc[q].out = "published" => OnHub(proc[q].cur)'
      BY <3>1, <3>4, PushKeepsOnHub DEF LocalOK
    <3> DEFINE k == proc[q]
    <3>6. (\A x \in k.rest : Real(x)') /\ (k.pc # "idle" => Real(k.cur)')
      BY <1>4, <3>1 DEF LocalOK, Real
    <3> QED
      BY <3>1, <3>2, <3>3, <3>5, <3>6 DEF LocalOK, Transacting, Real, OnHub
  <2> QED  BY <2>1, <2>2
<1> QED
  BY <1>6, <1>7, <1>8, <1>9, <1>10, <1>11, <1>12 DEF Inv

LEMMA PushStep == ASSUME Inv, NEW p \in Procs, Push(p) PROVE Inv'
<1>1. CASE Pushed(p)  BY <1>1, PushedStep
<1>2. CASE Fails(p) /\ UNCHANGED remote
  <2>1. UNCHANGED <<active, store, remote, bounds>>  BY <1>2 DEF Push
  <2>2. syncs' \in Nat /\ faults' \in Nat /\ foreign' \in Nat
    BY <2>1 DEF Inv, TypeOK, bounds
  <2>3. proc[p].pc # "idle"  BY DEF Push, At
  <2> QED  BY <1>2, <2>1, <2>2, <2>3, FailsStep
<1> QED  BY <1>1, <1>2 DEF Push, Pushed

----------------------------------------------------------------------------
(* Steps of the store.                                                     *)

(* A step that adds rows, commits and the retirement, and publishes        *)
(* nothing.                                                                *)
LEMMA StoreStep ==
  ASSUME Inv, TypeOK', UNCHANGED <<hub, lock, proc>>,
         IsFiniteSet(DOMAIN row'), \A r \in DOMAIN row' : Real(r)',
         retired => retired',
         \A e \in Entities : shared[e] <= shared'[e],
         \A r \in DOMAIN row' :
           row'[r] = "published" => r \in DOMAIN row /\ row[r] = "published"
  PROVE  Inv'
<1>1. TypeOK  BY DEF Inv
<1>2. ASSUME NEW r \in RowIds, Real(r) PROVE Real(r)'
  <2>1. CASE r = Retirement  BY <1>2, <2>1 DEF Real
  <2>2. CASE r # Retirement
    <3>1. r[1] \in Entities /\ r[2] \in Nat  BY <2>2, RowParts
    <3>2. r[2] <= shared[r[1]] /\ shared[r[1]] \in Nat /\ shared'[r[1]] \in Nat
      BY <1>1, <1>2, <2>2, <3>1 DEF Real, TypeOK
    <3> QED  BY <2>2, <3>1, <3>2 DEF Real
  <2> QED  BY <2>1, <2>2
<1>3. ASSUME NEW r, OnHub(r) PROVE OnHub(r)'
  BY <1>3 DEF OnHub, IsConfiguration
<1>4. StoreOK'
  <2>1. ASSUME NEW e \in Entities PROVE hub'.file[e] <= shared'[e]
    <3>1. /\ hub.file[e] \in Nat /\ shared[e] \in Nat /\ shared'[e] \in Nat
          /\ hub.file[e] <= shared[e]
      BY <1>1 DEF Inv, StoreOK, TypeOK, Hubs
    <3> QED  BY <3>1
  <2> QED  BY <2>1 DEF Inv, StoreOK
<1>5. EvidenceFirst' /\ RetiredStaysGone'
  BY DEF Inv, EvidenceFirst, RetiredStaysGone, RetirementApplied
<1>6. PublishedIsOnHub'
  BY <1>3 DEF Inv, PublishedIsOnHub, OnHub
<1>7. LockOK'  BY DEF Inv, LockOK
<1>8. ASSUME NEW p \in Procs PROVE LocalOK(p, proc[p])'
  <2>1. LocalOK(p, proc[p]) /\ proc[p] \in Local /\ proc'[p] = proc[p]
    BY <1>1 DEF Inv, TypeOK
  <2>2. proc[p].cur \in RowIds /\ proc[p].rest \in SUBSET RowIds
    BY <2>1 DEF Local
  <2> DEFINE l == proc[p]
  <2>3. (\A r \in l.rest : Real(r)') /\ (l.pc # "idle" => Real(l.cur)')
    BY <1>2, <2>1, <2>2 DEF LocalOK
  <2>4. l.pc = "mark" /\ l.out = "published" => OnHub(l.cur)'
    BY <1>3, <2>1 DEF LocalOK
  <2> QED  BY <2>1, <2>3, <2>4 DEF LocalOK, Real, OnHub
<1> QED  BY <1>4, <1>5, <1>6, <1>7, <1>8 DEF Inv

(* The rows of the store are finite in number, so that a new one has a     *)
(* place in their order.                                                   *)
LEMMA TimedType ==
  ASSUME Inv, NEW r \in RowIds
  PROVE  /\ IsFiniteSet(DOMAIN row \cup {r})
         /\ DOMAIN Timed(r) = DOMAIN row \cup {r}
         /\ \A x \in DOMAIN Timed(r) : Timed(r)[x] \in Nat
<1>1. IsFiniteSet(DOMAIN row)  BY DEF Inv, StoreOK
<1>2. Cardinality(DOMAIN row) \in Nat  BY <1>1, FS_CardinalityType
<1>3. IsFiniteSet(DOMAIN row \cup {r})  BY <1>1, FS_AddElement
<1> QED  BY <1>2, <1>3 DEF Timed, Inv, TypeOK

LEMMA CommitStep == ASSUME Inv, NEW e \in Entities, Commit(e) PROVE Inv'
<1> DEFINE r == <<e, shared[e] + 1>>
<1>1. TypeOK /\ shared[e] \in Nat /\ shared[e] < Len(Rev[e]) /\ Len(Rev[e]) \in Nat
  BY EntityAssumption DEF Inv, TypeOK, Commit
<1>2. r \in RowIds /\ r # Retirement
  BY <1>1, EntityAssumption DEF RowIds, Retirement
<1>3. /\ shared' = [shared EXCEPT ![e] = @ + 1]
      /\ created' = Timed(r)
      /\ row' = [x \in DOMAIN row \cup {r} |->
                   IF x = r THEN "pending" ELSE row[x]]
      /\ due' = due \cup {r}
      /\ UNCHANGED <<active, retired, remote, lock, proc, bounds>>
  BY DEF Commit
<1>4. DOMAIN row' = DOMAIN row \cup {r}  BY <1>3
<1>5. /\ shared' \in [Entities -> Nat] /\ shared'[e] = shared[e] + 1
      /\ \A f \in Entities : shared[f] <= shared'[f] /\ shared'[f] <= Len(Rev[f])
  BY <1>1, <1>3 DEF TypeOK
<1>6. TypeOK'
  <2>1. /\ DOMAIN row' \subseteq RowIds
        /\ DOMAIN created' = DOMAIN row'
        /\ \A x \in DOMAIN row' : created'[x] \in Nat
    BY <1>1, <1>2, <1>3, <1>4, TimedType DEF TypeOK
  <2>2. /\ \A x \in DOMAIN row' : row'[x] \in {"pending", "published", "cancelled"}
        /\ due' \subseteq DOMAIN row'
    BY <1>1, <1>3, <1>4 DEF TypeOK
  <2> QED  BY <1>1, <1>3, <1>5, <2>1, <2>2 DEF TypeOK, remote, bounds
<1>7. IsFiniteSet(DOMAIN row')  BY <1>2, <1>4, TimedType
<1>8. ASSUME NEW x \in DOMAIN row' PROVE Real(x)'
  <2>1. CASE x = r
    <3>1. r[1] = e /\ r[2] = shared[e] + 1  OBVIOUS
    <3> QED  BY <1>1, <1>2, <1>5, <2>1, <3>1 DEF Real
  <2>2. CASE x \in DOMAIN row
    <3>1. Real(x) /\ x \in RowIds  BY <2>2, <1>1 DEF Inv, StoreOK, TypeOK
    <3>2. CASE x = Retirement  BY <1>3, <3>1, <3>2 DEF Real
    <3>3. CASE x # Retirement
      <4>1. x[1] \in Entities /\ x[2] \in Nat  BY <3>1, <3>3, RowParts
      <4>2. shared[x[1]] \in Nat /\ shared'[x[1]] \in Nat
        BY <1>1, <1>5, <4>1 DEF TypeOK
      <4> QED  BY <1>5, <3>1, <3>3, <4>1, <4>2 DEF Real
    <3> QED  BY <3>2, <3>3
  <2> QED  BY <1>4, <2>1, <2>2
<1>9. \A x \in DOMAIN row' :
        row'[x] = "published" => x \in DOMAIN row /\ row[x] = "published"
  BY <1>3, <1>4
<1> QED  BY <1>3, <1>5, <1>6, <1>7, <1>8, <1>9, StoreStep DEF remote

LEMMA RetireStep == ASSUME Inv, Retire PROVE Inv'
<1>1. TypeOK  BY DEF Inv
<1>2. Retirement \in RowIds  BY DEF RowIds
<1>3. /\ retired' = TRUE
      /\ created' = Timed(Retirement)
      /\ row' = [x \in DOMAIN row \cup {Retirement} |->
               IF x = Retirement THEN "pending"
               ELSE IF IsConfiguration(x) /\ row[x] = "pending"
                    THEN "cancelled" ELSE row[x]]
      /\ due' = due \cup {Retirement}
      /\ UNCHANGED <<active, shared, remote, lock, proc, bounds>>
  BY DEF Retire
<1>4. DOMAIN row' = DOMAIN row \cup {Retirement}  BY <1>3
<1>5. TypeOK'
  <2>1. /\ DOMAIN row' \subseteq RowIds
        /\ DOMAIN created' = DOMAIN row'
        /\ \A x \in DOMAIN row' : created'[x] \in Nat
    BY <1>1, <1>2, <1>3, <1>4, TimedType DEF TypeOK
  <2>2. /\ \A x \in DOMAIN row' : row'[x] \in {"pending", "published", "cancelled"}
        /\ due' \subseteq DOMAIN row'
    BY <1>1, <1>3, <1>4 DEF TypeOK
  <2> QED  BY <1>1, <1>3, <2>1, <2>2 DEF TypeOK, remote, bounds
<1>6. IsFiniteSet(DOMAIN row')  BY <1>2, <1>4, TimedType
<1>7. \A x \in DOMAIN row' : Real(x)'
  BY <1>3, <1>4 DEF Inv, StoreOK, Real
<1>8. \A x \in DOMAIN row' :
        row'[x] = "published" => x \in DOMAIN row /\ row[x] = "published"
  BY <1>3, <1>4
<1>9. \A e \in Entities : shared[e] <= shared'[e]  BY <1>1, <1>3 DEF TypeOK
<1> QED  BY <1>3, <1>5, <1>6, <1>7, <1>8, <1>9, StoreStep DEF remote

LEMMA BecomesDueStep ==
  ASSUME Inv, NEW r \in DOMAIN row, BecomesDue(r) PROVE Inv'
<1>1. TypeOK  BY DEF Inv
<1>2. /\ due' = due \cup {r}
      /\ UNCHANGED <<active, shared, retired, created, row, remote, lock, proc,
                     bounds>>
  BY DEF BecomesDue
<1>3. TypeOK'  BY <1>1, <1>2 DEF TypeOK, remote, bounds
<1>4. \A x \in DOMAIN row' : Real(x)'  BY <1>2 DEF Inv, StoreOK, Real
<1>5. \A e \in Entities : shared[e] <= shared'[e]  BY <1>1, <1>2 DEF TypeOK
<1> QED  BY <1>2, <1>3, <1>4, <1>5, StoreStep DEF Inv, StoreOK, remote

----------------------------------------------------------------------------
(* The marks, and what happens to the processes from outside.              *)

(* A process records the outcome of a row and goes on.                     *)
LEMMA MarkStep ==
  ASSUME Inv, NEW p \in Procs, NEW l \in Local,
         proc' = [proc EXCEPT ![p] = l], LocalOK(p, l),
         l.pc \notin Transacting,
         NEW r \in RowIds, NEW out \in Outcomes,
         Settle(r, out) \/ UNCHANGED <<row, due>>,
         out = "published" => OnHub(r),
         UNCHANGED <<active, shared, retired, created, remote, lock, bounds>>
  PROVE  Inv'
<1>1. /\ TypeOK /\ proc' \in [Procs -> Local] /\ proc'[p] = l
      /\ \A q \in Procs \ {p} : proc'[q] = proc[q]
  BY DEF Inv, TypeOK
<1>2. UNCHANGED <<hub, head, syncs, faults, foreign>>  BY DEF remote, bounds
<1>3. /\ DOMAIN row' = DOMAIN row
      /\ due' \subseteq due
      /\ \A x \in DOMAIN row :
           row'[x] = row[x] \/ (x = r /\ row'[x] = out /\ out # "retry")
  <2>1. CASE UNCHANGED <<row, due>>  BY <2>1
  <2>2. CASE due' = due \ {r} /\ UNCHANGED row  BY <2>2
  <2>3. CASE /\ row' = [row EXCEPT ![r] = out] /\ UNCHANGED due
             /\ out # "retry"
    <3>1. DOMAIN row' = DOMAIN row  BY <2>3
    <3>2. \A x \in DOMAIN row : row'[x] = IF x = r THEN out ELSE row[x]
      BY <2>3
    <3> QED  BY <2>3, <3>1, <3>2
  <2> QED  BY <2>1, <2>2, <2>3 DEF Settle
<1>4. TypeOK'
  <2>1. \A x \in DOMAIN row' : row'[x] \in {"pending", "published", "cancelled"}
    BY <1>1, <1>3 DEF TypeOK, Outcomes
  <2> QED  BY <1>1, <1>2, <1>3, <2>1 DEF TypeOK
<1>5. StoreOK'  BY <1>2, <1>3 DEF Inv, StoreOK, Real
<1>6. EvidenceFirst' /\ RetiredStaysGone'
  BY <1>2 DEF Inv, EvidenceFirst, RetiredStaysGone, RetirementApplied
<1>7. PublishedIsOnHub'
  <2>1. ASSUME NEW x \in DOMAIN row, row'[x] = "published" PROVE OnHub(x)
    BY <1>3, <2>1 DEF Inv, PublishedIsOnHub, OnHub
  <2> QED  BY <1>2, <1>3, <2>1 DEF PublishedIsOnHub, OnHub
<1>8. LockOK'  BY <1>1 DEF Inv, LockOK
<1>9. ASSUME NEW q \in Procs, NEW k, LocalOK(q, k)
      PROVE  LocalOK(q, k)'
  BY <1>2, <1>9 DEF LocalOK, Real, OnHub
<1>10. ASSUME NEW q \in Procs PROVE LocalOK(q, proc[q])'
  <2>1. CASE q = p
    <3>1. LocalOK(q, l)'  BY <1>9, <2>1
    <3> QED  BY <3>1, <1>1, <2>1 DEF LocalOK
  <2>2. CASE q # p
    <3>1. LocalOK(q, proc[q])  BY DEF Inv
    <3>2. proc'[q] = proc[q]  BY <1>1, <2>2
    <3> QED  BY <1>2, <3>1, <3>2 DEF LocalOK, Real, OnHub
  <2> QED  BY <2>1, <2>2
<1> QED  BY <1>4, <1>5, <1>6, <1>7, <1>8, <1>10 DEF Inv

LEMMA WorkerMarkStep == ASSUME Inv, WorkerMark PROVE Inv'
<1> DEFINE k == proc["worker"]
<1>1. TypeOK /\ "worker" \in Procs /\ LocalOK("worker", k) /\ k.pc = "mark"
  BY DEF Inv, Procs, WorkerMark, At
<1>2. k \in Local  BY <1>1 DEF TypeOK
<1>3. k.cur \in RowIds /\ k.out \in Outcomes /\ k.rest \in SUBSET RowIds
  BY <1>2 DEF Local
<1>4. (\A x \in k.rest : Real(x)) /\ (k.out = "published" => OnHub(k.cur))
  BY <1>1 DEF LocalOK
<1>5. PICK l \in Local :
        /\ proc' = [proc EXCEPT !["worker"] = l]
        /\ LocalOK("worker", l)
        /\ l.pc \notin Transacting
  BY <1>1, <1>3, <1>4, DeliverOK DEF WorkerMark
<1>6. Settle(k.cur, k.out)  BY DEF WorkerMark, Entry
<1>7. UNCHANGED <<active, shared, retired, created, remote, lock, bounds>>
  BY DEF WorkerMark
<1> QED  BY <1>1, <1>3, <1>4, <1>5, <1>6, <1>7, MarkStep

LEMMA SyncMarkStep == ASSUME Inv, SyncMark PROVE Inv'
<1> DEFINE k == proc["sync"]
<1>1. TypeOK /\ "sync" \in Procs /\ LocalOK("sync", k) /\ k.pc = "mark"
  BY DEF Inv, Procs, SyncMark, At
<1>2. k.cur = Retirement /\ (k.out = "published" => OnHub(k.cur))
  BY <1>1 DEF LocalOK
<1>3. k \in Local /\ k.out \in Outcomes /\ Retirement \in RowIds
  BY <1>1 DEF TypeOK, Local, RowIds
<1>4. proc' = [proc EXCEPT !["sync"] = Resting] /\ Resting.pc \notin Transacting
  BY DEF SyncMark, Resting, Transacting
<1>5. IF k.out = "published"
      THEN Settle(Retirement, k.out) ELSE UNCHANGED <<row, due>>
  BY DEF SyncMark
<1>6. UNCHANGED <<active, shared, retired, created, remote, lock, bounds>>
  BY DEF SyncMark
<1> QED  BY <1>1, <1>2, <1>3, <1>4, <1>5, <1>6, RestingOK, MarkStep

LEMMA CrashStep == ASSUME Inv, Crash PROVE Inv'
<1>1. /\ proc' = [p \in Procs |-> Resting] /\ lock' = "free"
      /\ UNCHANGED <<active, store, remote, syncs, foreign>>
      /\ faults' = faults + 1
  BY DEF Crash, MayFault
<1> USE DEF store, remote
<1>2. TypeOK'  BY <1>1, RestingOK DEF Inv, TypeOK
<1>3. StoreOK'  BY <1>1 DEF Inv, StoreOK, Real
<1>4. EvidenceFirst' /\ RetiredStaysGone'
  BY <1>1 DEF Inv, EvidenceFirst, RetiredStaysGone, RetirementApplied
<1>5. PublishedIsOnHub'  BY <1>1 DEF Inv, PublishedIsOnHub
<1>6. LockOK'  BY <1>1 DEF LockOK, Resting, Transacting
<1>7. ASSUME NEW q \in Procs PROVE LocalOK(q, proc[q])'
  <2>1. LocalOK(q, Resting) /\ proc'[q] = Resting  BY <1>1, RestingOK
  <2> QED  BY <1>1, <2>1 DEF LocalOK, Real, OnHub
<1> QED  BY <1>2, <1>3, <1>4, <1>5, <1>6, <1>7 DEF Inv

LEMMA ForeignPushStep == ASSUME Inv, ForeignPush PROVE Inv'
<1>1. /\ head' = head + 1 /\ foreign' = foreign + 1
      /\ UNCHANGED <<active, shared, retired, created, row, due, hub, lock,
                     proc, syncs, faults>>
  BY DEF ForeignPush, store
<1>2. TypeOK'  BY <1>1 DEF Inv, TypeOK
<1>3. \A x \in DOMAIN row' : Real(x)'  BY <1>1 DEF Inv, StoreOK, Real
<1>4. \A e \in Entities : shared[e] <= shared'[e]  BY <1>1 DEF Inv, TypeOK
<1> QED  BY <1>1, <1>2, <1>3, <1>4, StoreStep DEF Inv, StoreOK

(* Every step preserves the invariant.                                     *)
LEMMA NextInv == Inv /\ [Next]_vars => Inv'
<1> SUFFICES ASSUME Inv, [Next]_vars PROVE Inv'  OBVIOUS
<1>1. ASSUME NEW p \in Procs, Transaction(p) PROVE Inv'
  BY <1>1, LockBusyStep, FetchStep, MutateStep, PushStep, VerifyStep
  DEF Transaction
<1>2. CASE Worker
  <2>1. "worker" \in Procs  BY DEF Procs
  <2> QED  BY <1>1, <1>2, <2>1, PollStep, WorkerMarkStep DEF Worker
<1>3. CASE Synchronization
  <2>1. "sync" \in Procs  BY DEF Procs
  <2> QED  BY <1>1, <1>3, <2>1, SyncMarkStep DEF Synchronization
<1>4. CASE UNCHANGED vars
  <2>1. UNCHANGED <<active, shared, retired, created, row, due, hub, head, lock,
                    proc, syncs, faults, foreign>>
    BY <1>4 DEF vars, store, remote, bounds
  <2>2. TypeOK'  BY <2>1 DEF Inv, TypeOK
  <2>3. \A x \in DOMAIN row' : Real(x)'  BY <2>1 DEF Inv, StoreOK, Real
  <2>4. \A e \in Entities : shared[e] <= shared'[e]  BY <2>1 DEF Inv, TypeOK
  <2> QED  BY <2>1, <2>2, <2>3, <2>4, StoreStep DEF Inv, StoreOK
<1> QED
  BY <1>2, <1>3, <1>4, CommitStep, RetireStep, BecomesDueStep, SyncStep,
     FaultStep, CrashStep, ForeignPushStep
  DEF Next

(* Inv is an invariant.                                                    *)
LEMMA InvHolds == Spec => []Inv
  BY InitInv, NextInv, PTL DEF Spec

(* The outbox, the Hub and both processes keep their types, for any        *)
(* entities, any revisions and any number of faults.                       *)
THEOREM TypeCorrect == Spec => []TypeOK
<1>1. Inv => TypeOK  BY DEF Inv
<1> QED  BY <1>1, InvHolds, PTL

(* publishSharedOutboxEntry: whatever fails or crashes between the         *)
(* transactions of a publication, and however often the events of the      *)
(* entity are extended meanwhile, a file on the Hub has the evidence of    *)
(* its revision and of every status change up to it.                       *)
THEOREM EvidencePrecedesFile == Spec => []EvidenceFirst
<1>1. Inv => EvidenceFirst  BY DEF Inv
<1> QED  BY <1>1, InvHolds, PTL

(* deliverSharedOutboxEntry: a row is marked published only when the Hub   *)
(* has its commit or a later one, although lock contention, refused pushes *)
(* and failed verifications end publications in between.                   *)
THEOREM MarksAreTrue == Spec => []PublishedIsOnHub
<1>1. Inv => PublishedIsOnHub  BY DEF Inv
<1> QED  BY <1>1, InvHolds, PTL

(* publishSharedProjectConfiguration: the lookup of the retirement inside  *)
(* the transaction suffices; no configuration comes back to the Hub after  *)
(* the retirement is there.                                                *)
THEOREM RetirementIsFinal == Spec => []RetiredStaysGone
<1>1. Inv => RetiredStaysGone  BY DEF Inv
<1> QED  BY <1>1, InvHolds, PTL

(* publishSharedTaskOutbox, publishSharedTrackOutbox: a retried row never  *)
(* takes the Hub file of a Task or a Track back to an earlier commit; the  *)
(* comparison with the fetched file suffices because the lock and the      *)
(* fast-forward rule keep that file until the push.                        *)
THEOREM RetriesDoNotRegress == Spec => NeverRegresses
<1> DEFINE Later == \A e \in Entities :
             Kind[e] \in {"task", "track"} => hub'.file[e] >= hub.file[e]
<1>1. ASSUME Inv, UNCHANGED hub PROVE Later
  BY <1>1 DEF Inv, TypeOK, Hubs
<1>2. ASSUME Inv, NEW p \in Procs, Pushed(p) PROVE Later
  <2> SUFFICES ASSUME NEW e \in Entities, Kind[e] \in {"task", "track"}
               PROVE  hub'.file[e] >= hub.file[e]
    OBVIOUS
  <2>1. hub.file[e] \in Nat /\ proc[p].cur \in RowIds
    BY <1>2 DEF Inv, TypeOK, Hubs, Local
  <2>2. CASE hub'.file[e] = hub.file[e]  BY <2>1, <2>2
  <2>3. CASE /\ proc[p].cur # Retirement /\ proc[p].stage = "file"
             /\ e = proc[p].cur[1] /\ hub'.file[e] = proc[p].cur[2]
    <3>1. hub.file[e] < proc[p].cur[2]  BY <1>2, <2>3, PushedHub DEF StillFresh
    <3>2. proc[p].cur[2] \in Nat  BY <2>1, <2>3, RowParts
    <3> QED  BY <2>1, <2>3, <3>1, <3>2
  <2> QED  BY <1>2, <2>2, <2>3, PushedHub DEF FileStep
<1>3. ASSUME Next PROVE UNCHANGED hub \/ \E p \in Procs : Pushed(p)
  <2>1. ASSUME NEW p \in Procs, Transaction(p)
        PROVE  UNCHANGED hub \/ Pushed(p)
    <3>1. CASE LockBusy(p) \/ Fetch(p) \/ Mutate(p) \/ Verify(p)
      BY <3>1 DEF LockBusy, Fetch, Mutate, Verify, remote
    <3>2. CASE Push(p)  BY <3>2 DEF Push, Pushed, remote
    <3> QED  BY <2>1, <3>1, <3>2 DEF Transaction
  <2>2. CASE Worker
    <3>1. "worker" \in Procs  BY DEF Procs
    <3> QED  BY <2>1, <2>2, <3>1 DEF Worker, Poll, WorkerMark, remote
  <2>3. CASE Synchronization
    <3>1. "sync" \in Procs  BY DEF Procs
    <3> QED  BY <2>1, <2>3, <3>1 DEF Synchronization, SyncMark, remote
  <2>4. CASE (\E e \in Entities : Commit(e)) \/ Retire
             \/ (\E r \in DOMAIN row : BecomesDue(r)) \/ Sync
    BY <2>4 DEF Commit, Retire, BecomesDue, Sync, remote
  <2>5. CASE (\E p \in Procs : Fault(p)) \/ Crash \/ ForeignPush
    BY <2>5 DEF Fault, Crash, ForeignPush, remote
  <2> QED  BY <1>3, <2>2, <2>3, <2>4, <2>5 DEF Next
<1>4. Inv /\ [Next]_vars => [Later]_vars
  BY <1>1, <1>2, <1>3
<1> QED  BY <1>4, InvHolds, PTL DEF Spec, NeverRegresses

-----------------------------------------------------------------------------
(***************************************************************************)
(* The second part is about LocalAuthority, the other place where every    *)
(* write asks for the retirement of the project itself.  It holds for any  *)
(* number of handlers, Sessions, Agents and messages.                      *)
(***************************************************************************)
(* What a handler carries from one step to the next.                       *)

Roles == WorkflowRoles \cup {"admin"}
Ref == Relay \cup {None}

CreateSlot == [pc : {"create"}, role : Roles, ref : Ref, attempt : Nat]
AttachSlot == [pc : {"attach"}, role : ManagedRoles, ref : Ref]
AckSlot == [pc : {"ack"}, session : Sid, value : 0..1]
CasSlot == [pc : {"cas"}, session : Sid, old : SessionRecord,
            ask : SessionAsks(mix.calls)]
BareSlot == [pc : {"idle", "grant", "work"}]
BindSlot == [pc : {"register", "bind"}, agent : Agent, role : ManagedRoles \cup {None}, relay : Relay]
RereadSlot == [pc : {"reread"}, agent : Agent, relay : Ref, new : AgentRecord]
AgentCasSlot == [pc : {"agentcas"}, agent : Agent, relay : Ref, new : AgentRecord, old : AgentRecord]
FileSlot == [pc : {"writefile", "refresh"}, agent : Agent, original : [Agent -> Ref], relay : Relay]
NumberSlot == [pc : {"number"}, from : Sid, to : WorkflowRoles, attempt : Nat]
InsertSlot == [pc : {"insert"}, from : Sid, to : WorkflowRoles, attempt : Nat, number : Nat]
ReadSlot == [pc : {"markread"}, from : Sid, message : Mid]
CancelSlot == [pc : {"cancel"}, from : Sid, role : Roles, message : Mid]

Slots ==
    UNION {BareSlot, CreateSlot, AttachSlot, AckSlot, CasSlot, BindSlot, RereadSlot, AgentCasSlot,
           FileSlot, NumberSlot, InsertSlot, ReadSlot, CancelSlot}

\* A message that is being read or cancelled exists.
MessageFits(slot) ==
    slot.pc \in {"markread", "cancel"} => messages[slot.message] # None

TypeSessions ==
    /\ sessions \in [Sid -> {None} \cup SessionRecord]
    /\ \A n \in Sid : sessions[n] # None => Validate(sessions[n])
TypeLocal ==
    /\ agents \in [Agent -> {None} \cup AgentRecord]
    /\ bindings \in [Agent -> Ref]
    /\ rules \in 0..1 /\ clock \in 0..MaxClock
    /\ mix \in Mixes /\ calls \in 0..mix.calls
TypeFlags == grant \in BOOLEAN /\ projectRetired \in BOOLEAN /\ openWork \in BOOLEAN
TypeMessages ==
    /\ messages \in [Mid -> {None} \cup MessageRecord]
    /\ next \in Nat \ {0}
TypeSlots ==
    /\ req \in [Request -> Slots]
    /\ \A r \in Request : MessageFits(req[r])

\* Numbers that are given out or asked for stay within the bound.
NumbersFit == next - 1 + Cardinality(Numbering) <= MaxMessages

Typed == TypeSessions /\ TypeLocal /\ TypeFlags /\ TypeMessages /\ TypeSlots /\ NumbersFit

LEMMA Constants ==
    /\ MaxSessions \in Nat /\ MaxMessages \in Nat /\ MaxClock \in Nat /\ 1 \in 0..MaxClock
    /\ \A m \in Mixes : m.calls \in Nat
    /\ \A n \in Sid \cup Mid : n \in Nat
    /\ IsFiniteSet(Request)
    /\ None \notin MessageRecord
BY LocalAuthorityAssumption, StoreAssumption DEF Sid, Mid

\* The program counter of a slot says what else it carries.
LEMMA SlotShape ==
    ASSUME NEW s \in Slots
    PROVE  /\ s.pc = "create" => s \in CreateSlot
           /\ s.pc = "attach" => s \in AttachSlot
           /\ s.pc = "ack" => s \in AckSlot
           /\ s.pc = "cas" => s \in CasSlot
           /\ s.pc \in {"register", "bind"} => s \in BindSlot
           /\ s.pc = "reread" => s \in RereadSlot
           /\ s.pc = "agentcas" => s \in AgentCasSlot
           /\ s.pc \in {"writefile", "refresh"} => s \in FileSlot
           /\ s.pc = "number" => s \in NumberSlot
           /\ s.pc = "insert" => s \in InsertSlot
           /\ s.pc = "markread" => s \in ReadSlot
           /\ s.pc = "cancel" => s \in CancelSlot
BY DEF Slots, BareSlot, CreateSlot, AttachSlot, AckSlot, CasSlot, BindSlot, RereadSlot,
       AgentCasSlot, FileSlot, NumberSlot, InsertSlot, ReadSlot, CancelSlot

LEMMA IdleTyped == IdleSlot \in Slots /\ MessageFits(IdleSlot)
                   /\ IdleSlot.pc = "idle"
BY DEF IdleSlot, Slots, BareSlot, MessageFits

LEMMA InitTyped == LocalInit => Typed
<1> SUFFICES ASSUME LocalInit PROVE Typed
  OBVIOUS
<1> USE Constants DEF LocalInit
<1>0. mix \in Mixes /\ mix.calls \in Nat
  OBVIOUS
<1>1. SessionRecords(0) \subseteq SessionRecord /\ AgentRecords(0) \subseteq AgentRecord
  BY <1>0 DEF SessionRecord, SessionRecords, AgentRecord, AgentRecords
<1>2. TypeSessions
  <2> SUFFICES ASSUME NEW n \in Sid
               PROVE  sessions[n] \in {None} \cup SessionRecord
                      /\ (sessions[n] # None => Validate(sessions[n]))
    BY DEF TypeSessions
  <2>1. CASE n <= Len(mix.sessions)
    <3>1. n \in 1..Len(mix.sessions)
      BY <2>1 DEF Sid
    <3> QED BY <1>0, <1>1, <2>1, <3>1, StoreAssumption
  <2>2. CASE ~(n <= Len(mix.sessions))
    BY <2>2
  <2> QED BY <2>1, <2>2
<1>3. TypeLocal
  <2>1. agents \in [Agent -> {None} \cup AgentRecord] /\ bindings \in [Agent -> Ref]
    BY <1>0, <1>1, StoreAssumption DEF Ref
  <2> QED BY <1>0, <2>1 DEF TypeLocal
<1>7. TypeFlags
  BY Zenon DEF TypeFlags
<1>4. TypeMessages
  BY DEF TypeMessages
<1>5. TypeSlots
  BY IdleTyped DEF TypeSlots
<1>6. NumbersFit
  <2>1. Numbering = {}
    BY IdleTyped DEF Numbering
  <2> QED BY <2>1, FS_EmptySet DEF NumbersFit
<1> QED BY <1>2, <1>3, <1>4, <1>5, <1>6, <1>7 DEF Typed

-----------------------------------------------------------------------------
(* Frames: what a step that moves one handler leaves alone.                *)

LEMMA StableSets ==
    ASSUME mix' = mix
    PROVE  /\ SessionRecord' = SessionRecord /\ AgentRecord' = AgentRecord
           /\ Slots' = Slots
<1>1. SessionRecord' = SessionRecord /\ AgentRecord' = AgentRecord
  BY DEF SessionRecord, AgentRecord, SessionRecords, AgentRecords
<1>2. /\ CasSlot' = CasSlot /\ RereadSlot' = RereadSlot /\ AgentCasSlot' = AgentCasSlot
  BY <1>1 DEF CasSlot, SessionAsks, RereadSlot, AgentCasSlot
<1>3. Slots' = Slots
  BY <1>2 DEF Slots, BareSlot, CreateSlot, AttachSlot, AckSlot, BindSlot, FileSlot, NumberSlot,
              InsertSlot, ReadSlot, CancelSlot
<1> QED BY <1>1, <1>3

LEMMA SlotStep ==
    ASSUME TypeSlots, mix' = mix, NEW r \in Request, NEW slot \in Slots,
           req' = [req EXCEPT ![r] = slot],
           slot.pc \in {"markread", "cancel"} => messages'[slot.message] # None,
           \A m \in Mid : messages[m] # None => messages'[m] # None
    PROVE  TypeSlots'
<1>1. req' \in [Request -> Slots']
  BY StableSets DEF TypeSlots
<1>2. ASSUME NEW q \in Request PROVE MessageFits(req[q])'
  <2>1. CASE q = r
    BY <2>1, StableSets DEF TypeSlots, MessageFits
  <2>2. CASE q # r
    <3>1. req'[q] = req[q] /\ req[q] \in Slots
      BY <2>2 DEF TypeSlots
    <3>2. req[q].pc \in {"markread", "cancel"} => req[q].message \in Mid
      BY <3>1, SlotShape DEF ReadSlot, CancelSlot
    <3> QED BY <3>1, <3>2 DEF TypeSlots, MessageFits
  <2> QED BY <2>1, <2>2
<1> QED BY <1>1, <1>2 DEF TypeSlots

Counts(slot) == slot.pc \in {"number", "insert"}

LEMMA NumberingStep ==
    ASSUME TypeSlots, NEW r \in Request, NEW slot, req' = [req EXCEPT ![r] = slot]
    PROVE  /\ Cardinality(Numbering) \in Nat /\ Cardinality(Numbering)' \in Nat
           /\ ~Counts(slot) \/ Counts(req[r]) => Cardinality(Numbering)' <= Cardinality(Numbering)
           /\ Cardinality(Numbering)' <= Cardinality(Numbering) + 1
           /\ Counts(req[r]) /\ ~Counts(slot)
                => Cardinality(Numbering)' = Cardinality(Numbering) - 1
<1>1. IsFiniteSet(Numbering)
  BY Constants, FS_Subset DEF Numbering
<1>2. IF Counts(slot) THEN Numbering' = Numbering \cup {r} ELSE Numbering' = Numbering \ {r}
  BY DEF Numbering, Counts, TypeSlots
<1>3. r \in Numbering <=> Counts(req[r])
  BY DEF Numbering, Counts
<1>4. Cardinality(Numbering) \in Nat
  BY <1>1, FS_CardinalityType
<1>5. CASE Counts(slot)
  <2>1. Cardinality(Numbering \cup {r})
          = IF r \in Numbering THEN Cardinality(Numbering) ELSE Cardinality(Numbering) + 1
    BY <1>1, FS_AddElement
  <2> QED BY <1>2, <1>3, <1>4, <1>5, <2>1 DEF Counts
<1>6. CASE ~Counts(slot)
  <2>1. Cardinality(Numbering \ {r})
          = IF r \in Numbering THEN Cardinality(Numbering) - 1 ELSE Cardinality(Numbering)
    BY <1>1, FS_RemoveElement
  <2>2. IsFiniteSet(Numbering \ {r})
    BY <1>1, FS_Subset
  <2>3. Cardinality(Numbering \ {r}) \in Nat
    BY <2>2, FS_CardinalityType
  <2>4. Numbering' = Numbering \ {r}
    BY <1>2, <1>6
  <2>5. CASE r \in Numbering
    <3>1. Cardinality(Numbering)' = Cardinality(Numbering) - 1
      BY <2>1, <2>4, <2>5
    <3>2. Cardinality(Numbering)' \in Nat
      BY <2>3, <2>4
    <3> QED BY <3>1, <3>2, <1>4
  <2>6. CASE r \notin Numbering
    <3>1. Cardinality(Numbering)' = Cardinality(Numbering)
      BY <2>1, <2>4, <2>6
    <3> QED BY <3>1, <1>3, <1>4, <2>6 DEF Counts
  <2> QED BY <2>5, <2>6
<1> QED BY <1>5, <1>6

(* A request is admitted, or a handler moves on, and nothing else happens. *)
LEMMA AdmitTyped ==
    ASSUME Typed, NEW r \in Request, NEW slot \in Slots, MessageFits(slot),
           ~Counts(slot), Fresh(r), Admit(r, slot), UnchangedStore, UNCHANGED clock
    PROVE  Typed'
<1> USE DEF Typed, Admit, UnchangedStore
<1>1. TypeSlots'
  BY SlotStep DEF MessageFits
<1>2. NumbersFit'
  <2>1. /\ Cardinality(Numbering) \in Nat /\ Cardinality(Numbering)' \in Nat
        /\ Cardinality(Numbering)' <= Cardinality(Numbering)
    BY NumberingStep
  <2>2. next \in Nat /\ next' = next /\ MaxMessages \in Nat
    BY Constants DEF TypeMessages
  <2> HIDE DEF Typed
  <2>3. next - 1 + Cardinality(Numbering) <= MaxMessages
    BY DEF NumbersFit, Typed
  <2> QED BY <2>1, <2>2, <2>3 DEF NumbersFit
<1>3. TypeLocal'
  BY StableSets, Constants DEF TypeLocal, Fresh
<1>4. TypeSessions' /\ TypeMessages'
  BY StableSets DEF TypeSessions, TypeMessages
<1>5. TypeFlags'
  BY DEF TypeFlags
<1> QED BY <1>1, <1>2, <1>3, <1>4, <1>5

LEMMA GotoTyped ==
    ASSUME Typed, NEW r \in Request, NEW slot \in Slots, MessageFits(slot),
           Counts(slot) => Counts(req[r]), Goto(r, slot), UnchangedStore, UNCHANGED clock
    PROVE  Typed'
<1> USE DEF Typed, Goto, UnchangedStore
<1>1. TypeSlots'
  BY SlotStep DEF MessageFits
<1>2. NumbersFit'
  <2>1. /\ Cardinality(Numbering) \in Nat /\ Cardinality(Numbering)' \in Nat
        /\ Cardinality(Numbering)' <= Cardinality(Numbering)
    BY NumberingStep
  <2>2. next \in Nat /\ next' = next /\ MaxMessages \in Nat
    BY Constants DEF TypeMessages
  <2> HIDE DEF Typed
  <2>3. next - 1 + Cardinality(Numbering) <= MaxMessages
    BY DEF NumbersFit, Typed
  <2> QED BY <2>1, <2>2, <2>3 DEF NumbersFit
<1>3. TypeLocal'
  BY StableSets DEF TypeLocal
<1>4. TypeSessions' /\ TypeMessages'
  BY StableSets DEF TypeSessions, TypeMessages
<1>5. TypeFlags'
  BY DEF TypeFlags
<1> QED BY <1>1, <1>2, <1>3, <1>4, <1>5

-----------------------------------------------------------------------------
(* Requests arrive.                                                        *)

\* Unfolds the slot sets when a slot is shown to be one.
LEMMA ArriveStartTyped ==
    ASSUME Typed, NEW r \in Request, ArriveStart(r) PROVE Typed'
<1> USE DEF MessageFits, Counts, Slots, Roles, WorkflowRoles, ManagedRoles
<1>1. CASE sessionStartPublic(r)
  <2> DEFINE s == [pc |-> "create", role |-> "planner", ref |-> None, attempt |-> 1]
  <2>1. s \in Slots
    BY DEF CreateSlot, Ref
  <2> QED BY <1>1, <2>1, AdmitTyped DEF sessionStartPublic
<1>2. CASE AdminSessionMint(r)
  <2> DEFINE s == [pc |-> "create", role |-> "admin", ref |-> None, attempt |-> 1]
  <2>1. s \in Slots
    BY DEF CreateSlot, Ref
  <2> QED BY <1>2, <2>1, AdmitTyped DEF AdminSessionMint
<1>3. ASSUME NEW a \in Agent, NEW role \in ManagedRoles, SessionStart(r, role, a) PROVE Typed'
  <2> DEFINE s == [pc |-> "create", role |-> role, ref |-> agentBinding(a), attempt |-> 1]
  <2>1. s \in Slots
    BY DEF CreateSlot, agentBinding, Typed, TypeLocal
  <2> QED BY <1>3, <2>1, AdmitTyped DEF SessionStart
<1>4. ASSUME NEW a \in Agent, NEW role \in ManagedRoles, SessionAttach(r, role, a) PROVE Typed'
  <2> DEFINE s == [pc |-> "attach", role |-> role, ref |-> agentBinding(a)]
  <2>1. s \in Slots
    BY DEF AttachSlot, agentBinding, Typed, TypeLocal
  <2> QED BY <1>4, <2>1, AdmitTyped DEF SessionAttach
<1> QED BY <1>1, <1>2, <1>3, <1>4 DEF ArriveStart

\* What the handlers ask for is in the range of an update.
LEMMA AskTyped ==
    ASSUME Typed
    PROVE  /\ Ask({"status"}, 0, None, None) \in SessionAsks(mix.calls)
           /\ \A digest \in 0..1 : Ask({"rules"}, 0, None, digest) \in SessionAsks(mix.calls)
           /\ \A fields \in SUBSET {"label", "ref"}, label \in 0..mix.calls, ref \in Ref :
                Ask(fields, label, ref, None) \in SessionAsks(mix.calls)
<1>1. mix.calls \in Nat /\ 0 \in 0..mix.calls
  BY Constants DEF Typed, TypeLocal
<1>2. \A fields \in SUBSET {"label", "ref", "rules", "status"}, label \in 0..mix.calls,
         ref \in Ref, digest \in {None, 0, 1} :
        Ask(fields, label, ref, digest) \in SessionAsks(mix.calls)
  BY <1>1 DEF Ask, SessionAsks, Ref
<1>3. /\ {"status"} \in SUBSET {"label", "ref", "rules", "status"}
      /\ {"rules"} \in SUBSET {"label", "ref", "rules", "status"}
      /\ \A fields \in SUBSET {"label", "ref"} :
            fields \in SUBSET {"label", "ref", "rules", "status"}
  OBVIOUS
<1>4. None \in Ref /\ None \in {None, 0, 1} /\ \A digest \in 0..1 : digest \in {None, 0, 1}
  BY DEF Ref
<1> QED BY <1>1, <1>2, <1>3, <1>4

LEMMA EndRequestTyped ==
    ASSUME Typed, NEW r \in Request, NEW n \in Sid, sessions[n] # None, EndRequest(r, n)
    PROVE  Typed'
<1>1. CASE sessions[n].status = "ended"
  BY <1>1, AdmitTyped, IdleTyped DEF EndRequest, Counts
<1>2. CASE sessions[n].status # "ended"
  <2> DEFINE s == [pc |-> "cas", session |-> n, old |-> sessions[n],
                   ask |-> Ask({"status"}, 0, None, None)]
  <2>1. Ask({"status"}, 0, None, None) \in SessionAsks(mix.calls)
    BY AskTyped
  <2>2. s \in Slots
    BY <2>1 DEF Slots, CasSlot, Typed, TypeSessions
  <2> QED BY <1>2, <2>2, AdmitTyped DEF EndRequest, MessageFits, Counts
<1> QED BY <1>1, <1>2

LEMMA ArriveChangeTyped ==
    ASSUME Typed, NEW r \in Request, ArriveChange(r) PROVE Typed'
<1>1. ASSUME NEW n \in Sid, NEW by \in Sid \cup {None}, SessionEnd(r, by, n) PROVE Typed'
  BY <1>1, EndRequestTyped DEF SessionEnd, Get
<1>2. ASSUME NEW n \in Sid, AdminSessionRevoke(r, n) PROVE Typed'
  BY <1>2, EndRequestTyped DEF AdminSessionRevoke, Get
<1>3. ASSUME NEW n \in Sid, NEW by \in Sid \cup {None}, NEW fields \in SUBSET {"label", "ref"},
             NEW a \in Agent, SessionUpdate(r, by, n, fields, a)
      PROVE  Typed'
  <2> DEFINE label == IF "label" \in fields THEN calls + 1 ELSE 0
             ref == IF "ref" \in fields THEN agentBinding(a) ELSE None
             ask == Ask(fields, label, ref, None)
             s == [pc |-> "cas", session |-> n, old |-> sessions[n], ask |-> ask]
  <2>1. sessions[n] \in SessionRecord
    BY <1>3 DEF SessionUpdate, Active, Get, Typed, TypeSessions
  <2>2. label \in 0..mix.calls /\ ref \in Ref
    BY <1>3, Constants DEF SessionUpdate, Fresh, agentBinding, Typed, TypeLocal, Ref
  <2>3. Fresh(r) /\ Admit(r, s) /\ UnchangedStore /\ UNCHANGED clock
    BY <1>3 DEF SessionUpdate
  <2> HIDE DEF label, ref
  <2>4. ask \in SessionAsks(mix.calls)
    BY <2>2, AskTyped
  <2> HIDE DEF ask
  <2>5. s \in Slots
    BY <2>1, <2>4 DEF Slots, CasSlot
  <2>6. MessageFits(s) /\ ~Counts(s)
    BY DEF MessageFits, Counts
  <2> QED BY <2>3, <2>5, <2>6, AdmitTyped
<1>4. ASSUME NEW n \in Sid, ruleEffectiveAction(r, n) PROVE Typed'
  <2> DEFINE s == [pc |-> "ack", session |-> n, value |-> rules]
  <2>1. s \in Slots
    BY DEF Slots, AckSlot, Typed, TypeLocal
  <2> QED BY <1>4, <2>1, AdmitTyped DEF ruleEffectiveAction, MessageFits, Counts
<1> QED BY <1>1, <1>2, <1>3, <1>4 DEF ArriveChange

LEMMA ArriveCloseTyped ==
    ASSUME Typed, NEW r \in Request,
           EnsureProjectSessionBootstrapGrant(r) \/ \E n \in Sid : genericCall(r, n)
    PROVE  Typed'
<1>1. \A pc \in {"grant", "work"} : [pc |-> pc] \in Slots
  BY DEF Slots, BareSlot
<1>2. CASE EnsureProjectSessionBootstrapGrant(r)
  <2>1. CASE grant
    BY <1>2, <2>1, AdmitTyped, IdleTyped DEF EnsureProjectSessionBootstrapGrant, Counts
  <2>2. CASE ~grant
    BY <1>1, <1>2, <2>2, AdmitTyped
       DEF EnsureProjectSessionBootstrapGrant, MessageFits, Counts
  <2> QED BY <2>1, <2>2
<1>3. ASSUME NEW n \in Sid, genericCall(r, n) PROVE Typed'
  BY <1>1, <1>3, AdmitTyped DEF genericCall, MessageFits, Counts
<1> QED BY <1>2, <1>3

LEMMA ArriveAgentsTyped ==
    ASSUME Typed, NEW r \in Request, ArriveAgents(r) PROVE Typed'
<1> USE DEF MessageFits, Counts
<1>1. ASSUME NEW a \in Agent, NEW role \in ManagedRoles, NEW relay \in Relay,
             AgentBootstrap(r, a, role, relay)
      PROVE  Typed'
  <2> DEFINE slot == [pc |-> "register", agent |-> a, role |-> role, relay |-> relay]
             new == [agents[a] EXCEPT !.wrole = role, !.stamp = calls + 1]
             re == [pc |-> "reread", agent |-> a, relay |-> relay, new |-> new]
  <2>1. slot \in Slots /\ [slot EXCEPT !.pc = "bind"] \in Slots
    BY DEF Slots, BindSlot
  <2>2. Fresh(r) /\ UnchangedStore /\ UNCHANGED clock
    BY <1>1 DEF AgentBootstrap
  <2>3. ASSUME agents[a] # None PROVE new \in AgentRecord
    <3>1. agents[a] \in AgentRecord /\ calls + 1 \in 0..mix.calls
      BY <2>2, <2>3, Constants DEF Typed, TypeLocal, Fresh
    <3> QED BY <3>1 DEF AgentRecord, AgentRecords
  <2>4. ASSUME agents[a] # None PROVE re \in Slots
    <3> HIDE DEF new
    <3> QED BY <2>3, <2>4 DEF Slots, RereadSlot, Ref
  <2>5. \/ Admit(r, slot) \/ Admit(r, [slot EXCEPT !.pc = "bind"])
        \/ agents[a] # None /\ Admit(r, re)
    BY <1>1 DEF AgentBootstrap
  <2>6. CASE Admit(r, slot)
    BY <2>1, <2>2, <2>6, AdmitTyped
  <2>7. CASE Admit(r, [slot EXCEPT !.pc = "bind"])
    BY <2>1, <2>2, <2>7, AdmitTyped
  <2>8. CASE agents[a] # None /\ Admit(r, re)
    BY <2>2, <2>4, <2>8, AdmitTyped
  <2> QED BY <2>5, <2>6, <2>7, <2>8
<1>2. ASSUME NEW a \in Agent, NEW field \in {"enabled", "reasoning"}, NEW value,
             IF field = "enabled" THEN value \in BOOLEAN ELSE value = calls + 1,
             AgentUpdate(r, a, field, value)
      PROVE  Typed'
  <2> DEFINE new == [agents[a] EXCEPT ![field] = value, !.stamp = calls + 1]
             s == [pc |-> "reread", agent |-> a, relay |-> None, new |-> new]
  <2>1. Fresh(r) /\ Admit(r, s) /\ UnchangedStore /\ UNCHANGED clock
    BY <1>2 DEF AgentUpdate
  <2>2. agents[a] \in AgentRecord /\ calls + 1 \in 0..mix.calls
    <3>1. agents[a] # None
      BY <1>2 DEF AgentUpdate, AgentRead
    <3>2. agents[a] \in AgentRecord
      BY <3>1 DEF Typed, TypeLocal
    <3>3. calls < mix.calls
      BY <2>1 DEF Fresh
    <3>4. calls \in Nat /\ mix.calls \in Nat
      BY Constants DEF Typed, TypeLocal
    <3> QED BY <3>2, <3>3, <3>4
  <2>3. new \in AgentRecord
    <3>1. CASE field = "enabled"
      BY <1>2, <2>2, <3>1 DEF AgentRecord, AgentRecords
    <3>2. CASE field = "reasoning"
      BY <1>2, <2>2, <3>2 DEF AgentRecord, AgentRecords
    <3> QED BY <3>1, <3>2
  <2> HIDE DEF new
  <2>4. s \in Slots
    BY <2>3 DEF Slots, RereadSlot, Ref
  <2> QED BY <2>1, <2>4, AdmitTyped
<1>3. ASSUME NEW a \in Agent, AgentUpdate(r, a, "enabled", TRUE) \/ AgentUpdate(r, a, "enabled", FALSE)
             \/ AgentUpdate(r, a, "reasoning", calls + 1)
      PROVE  Typed'
  BY <1>2, <1>3
<1> QED BY <1>1, <1>3 DEF ArriveAgents

LEMMA ArriveMessagesTyped ==
    ASSUME Typed, NEW r \in Request, ArriveMessages(r) PROVE Typed'
<1> USE DEF Counts
<1>1. ASSUME NEW n \in Sid, NEW m \in Mid, MessageRead(r, n, m) PROVE Typed'
  <2> DEFINE s == [pc |-> "markread", from |-> n, message |-> m]
  <2>1. s \in Slots /\ MessageFits(s)
    BY <1>1 DEF Slots, ReadSlot, MessageFits, MessageRead
  <2>2. CASE Admit(r, IdleSlot)
    BY <1>1, <2>2, IdleTyped, AdmitTyped DEF MessageRead
  <2>3. CASE Admit(r, s)
    BY <1>1, <2>1, <2>3, AdmitTyped DEF MessageRead
  <2> QED BY <1>1, <2>2, <2>3 DEF MessageRead
<1>2. ASSUME NEW n \in Sid, NEW m \in Mid, MessageCancel(r, n, m) PROVE Typed'
  <2> DEFINE s == [pc |-> "cancel", from |-> n, role |-> sessions[n].role, message |-> m]
  <2>1. s \in Slots /\ MessageFits(s)
    BY <1>2 DEF Slots, CancelSlot, MessageFits, MessageCancel, messageActor, Roles
  <2> QED BY <1>2, <2>1, AdmitTyped DEF MessageCancel
<1>3. ASSUME NEW n \in Sid, NEW to \in WorkflowRoles, MessageCreate(r, n, to) PROVE Typed'
  <2> DEFINE s == [pc |-> "number", from |-> n, to |-> to, attempt |-> 1]
  <2> USE <1>3 DEF MessageCreate, Admit, UnchangedStore
  <2>1. s \in Slots
    BY DEF Slots, NumberSlot
  <2>2. TypeSlots'
    BY <2>1, SlotStep DEF Typed
  <2>3. NumbersFit'
    <3>1. /\ Cardinality(Numbering) \in Nat /\ Cardinality(Numbering)' \in Nat
          /\ Cardinality(Numbering)' <= Cardinality(Numbering) + 1
      BY NumberingStep DEF Typed
    <3>2. next \in Nat /\ next' = next /\ MaxMessages \in Nat
      BY Constants DEF Typed, TypeMessages
    <3> QED BY <3>1, <3>2 DEF NumbersFit
  <2>4. TypeLocal'
    BY StableSets, Constants DEF Typed, TypeLocal, Fresh
  <2>5. TypeSessions' /\ TypeMessages' /\ TypeFlags'
    BY StableSets DEF Typed, TypeSessions, TypeMessages, TypeFlags
  <2> QED BY <2>2, <2>3, <2>4, <2>5 DEF Typed
<1> QED BY <1>1, <1>2, <1>3 DEF ArriveMessages

-----------------------------------------------------------------------------
(* Handlers move on.                                                       *)

\* A step of a handler that touches no message.
LEMMA MoveTyped ==
    ASSUME Typed, NEW r \in Request, NEW slot \in Slots, MessageFits(slot),
           Counts(slot) => Counts(req[r]), Goto(r, slot), UNCHANGED <<messages, next>>
    PROVE  /\ TypeSlots' /\ NumbersFit' /\ TypeMessages' /\ mix' = mix /\ calls' = calls
           /\ SessionRecord' = SessionRecord /\ AgentRecord' = AgentRecord
<1> USE DEF Typed, Goto
<1>1. TypeSlots'
  BY SlotStep DEF MessageFits
<1>2. NumbersFit'
  <2>1. /\ Cardinality(Numbering) \in Nat /\ Cardinality(Numbering)' \in Nat
        /\ Cardinality(Numbering)' <= Cardinality(Numbering)
    BY NumberingStep
  <2>2. next \in Nat /\ next' = next /\ MaxMessages \in Nat
    BY Constants DEF TypeMessages
  <2>3. next - 1 + Cardinality(Numbering) <= MaxMessages
    BY DEF NumbersFit
  <2> QED BY <2>1, <2>2, <2>3 DEF NumbersFit
<1> QED BY <1>1, <1>2, StableSets DEF TypeMessages

LEMMA ReturnTyped ==
    ASSUME Typed, NEW r \in Request, NEW effect, Return(r, effect), UNCHANGED <<messages, next>>
    PROVE  /\ TypeSlots' /\ NumbersFit' /\ TypeMessages' /\ mix' = mix /\ calls' = calls
           /\ SessionRecord' = SessionRecord /\ AgentRecord' = AgentRecord
BY MoveTyped, IdleTyped DEF Return, Counts

\* Parts that a step of a handler elsewhere in the store leaves typed.
LEMMA KeepSessions == ASSUME TypeSessions, SessionRecord' = SessionRecord, sessions' = sessions
                      PROVE  TypeSessions'
BY DEF TypeSessions

LEMMA KeepLocal ==
    ASSUME TypeLocal, AgentRecord' = AgentRecord, mix' = mix, calls' = calls,
           UNCHANGED <<agents, bindings, rules, clock>>
    PROVE  TypeLocal'
BY DEF TypeLocal

LEMMA KeepFlags == ASSUME TypeFlags, UNCHANGED <<grant, projectRetired, openWork>> PROVE TypeFlags'
BY DEF TypeFlags

LEMMA SessionWritten ==
    ASSUME TypeSessions, SessionRecord' = SessionRecord, NEW n \in Sid, NEW rec \in SessionRecord,
           Validate(rec), sessions' = [sessions EXCEPT ![n] = rec]
    PROVE  TypeSessions'
<1>1. sessions' \in [Sid -> {None} \cup SessionRecord]
  BY DEF TypeSessions
<1>2. ASSUME NEW k \in Sid, sessions'[k] # None PROVE Validate(sessions'[k])
  BY <1>2 DEF TypeSessions
<1>3. ASSUME NEW k \in Sid, sessions'[k] # None PROVE Validate(sessions[k])'
  BY <1>2, <1>3 DEF Validate, validateRecordShape, validateSessionTimestamps
<1> QED BY <1>1, <1>3 DEF TypeSessions

\* A record that passes the timestamp checks is in the table's row set.
LEMMA ChangedTyped ==
    ASSUME Typed, NEW slot \in CasSlot
    PROVE  Changed(slot.old, slot.ask) \in SessionRecord
<1>1. slot.old \in SessionRecord /\ slot.ask \in SessionAsks(mix.calls)
  BY DEF CasSlot
<1>2. durableSessionNow(slot.old) \in 0..MaxClock
  BY <1>1 DEF durableSessionNow, SessionRecord, SessionRecords, Typed, TypeLocal
<1> DEFINE rec == IF "status" \in slot.ask.fields THEN Ended(slot.old)
                  ELSE [slot.old EXCEPT !.updated = durableSessionNow(slot.old)]
<1>3. rec \in SessionRecord
  BY <1>1, <1>2 DEF Ended, SessionRecord, SessionRecords
<1> HIDE DEF rec
<1>4. /\ slot.ask.label \in 0..mix.calls /\ slot.ask.ref \in Relay \cup {None}
      /\ slot.ask.rules \in {None, 0, 1}
  BY <1>1 DEF SessionAsks
<1>5. ASSUME NEW label \in 0..mix.calls, NEW ref \in Relay \cup {None}, NEW digest \in {None, 0, 1}
      PROVE  [rec EXCEPT !.label = label, !.ref = ref, !.rules = digest] \in SessionRecord
  BY <1>3 DEF SessionRecord, SessionRecords
<1>6. /\ slot.old.label \in 0..mix.calls /\ slot.old.ref \in Relay \cup {None}
      /\ slot.old.rules \in {None, 0, 1}
  BY <1>1 DEF SessionRecord, SessionRecords
<1> DEFINE label == IF "label" \in slot.ask.fields THEN slot.ask.label ELSE slot.old.label
           ref == IF "ref" \in slot.ask.fields THEN slot.ask.ref ELSE slot.old.ref
           digest == IF "rules" \in slot.ask.fields THEN slot.ask.rules ELSE slot.old.rules
<1>7. label \in 0..mix.calls /\ ref \in Relay \cup {None} /\ digest \in {None, 0, 1}
  BY <1>4, <1>6
<1>8. Changed(slot.old, slot.ask) = [rec EXCEPT !.label = label, !.ref = ref, !.rules = digest]
  BY DEF Changed, rec
<1>9. [rec EXCEPT !.label = label, !.ref = ref, !.rules = digest] \in SessionRecord
  <2> HIDE DEF label, ref, digest
  <2> QED BY <1>5, <1>7
<1> QED BY <1>8, <1>9

LEMMA SessionStepsTyped ==
    ASSUME Typed, NEW r \in Request,
           \/ AttachList(r) \/ (\E n \in Sid : Create(r, n))
           \/ AcknowledgeRules(r) \/ updateLocal(r)
    PROVE  Typed'
<1>0. req[r] \in Slots
  BY DEF Typed, TypeSlots
<1>1. CASE AttachList(r)
  <2> DEFINE s == [pc |-> "create", role |-> req[r].role, ref |-> req[r].ref, attempt |-> 1]
  <2>1. s \in Slots /\ MessageFits(s) /\ ~Counts(s)
    BY <1>0, <1>1, SlotShape
       DEF AttachList, AttachSlot, Slots, CreateSlot, Roles, WorkflowRoles, MessageFits, Counts
  <2>2. UnchangedStore /\ UNCHANGED clock /\ (Goto(r, s) \/ Goto(r, IdleSlot))
    BY <1>1 DEF AttachList, Return
  <2> QED BY <2>1, <2>2, GotoTyped, IdleTyped DEF Counts
<1>2. ASSUME NEW n \in Sid, Create(r, n) PROVE Typed'
  <2> DEFINE s == [req[r] EXCEPT !.attempt = @ + 1]
             record == NewRecord(req[r].role, req[r].ref)
  <2>1. req[r] \in CreateSlot
    BY <1>0, <1>2, SlotShape DEF Create
  <2>2. s \in Slots /\ MessageFits(s) /\ ~Counts(s)
    BY <2>1 DEF CreateSlot, Slots, MessageFits, Counts
  <2>3. record \in SessionRecord
    <3>1. 0 \in 0..mix.calls /\ clock \in 0..MaxClock
      BY Constants DEF Typed, TypeLocal
    <3> QED BY <2>1, <3>1 DEF NewRecord, CreateSlot, SessionRecord, SessionRecords, Roles, Ref
  <2>4. Goto(r, s) \/ Goto(r, IdleSlot)
    BY <1>2 DEF Create, Return
  <2>5. UNCHANGED <<agents, bindings, grant, projectRetired, openWork, messages, next, rules, clock>>
    BY <1>2 DEF Create
  <2>6. /\ TypeSlots' /\ NumbersFit' /\ TypeMessages' /\ mix' = mix /\ calls' = calls
        /\ SessionRecord' = SessionRecord /\ AgentRecord' = AgentRecord
    BY <2>2, <2>4, <2>5, MoveTyped, IdleTyped DEF Counts
  <2>7. TypeSessions'
    <3>1. CASE sessions' = [sessions EXCEPT ![n] = record] /\ Validate(record)
      <4> HIDE DEF record
      <4> QED BY <2>3, <2>6, <3>1, SessionWritten DEF Typed
    <3>2. CASE sessions' = sessions
      BY <2>6, <3>2, KeepSessions DEF Typed
    <3> QED BY <1>2, <3>1, <3>2 DEF Create
  <2> QED BY <2>5, <2>6, <2>7, KeepLocal, KeepFlags DEF Typed
<1>3. CASE AcknowledgeRules(r)
  <2> DEFINE k == req[r].session
             s == [pc |-> "cas", session |-> k, old |-> sessions[k],
                   ask |-> Ask({"rules"}, 0, None, req[r].value)]
  <2>1. req[r] \in AckSlot
    BY <1>0, <1>3, SlotShape DEF AcknowledgeRules
  <2>2. ASSUME Active(k) PROVE s \in Slots /\ MessageFits(s) /\ ~Counts(s)
    <3>1. sessions[k] \in SessionRecord /\ k \in Sid /\ req[r].value \in 0..1
      BY <2>1, <2>2 DEF AckSlot, Active, Get, Typed, TypeSessions
    <3>2. s.ask \in SessionAsks(mix.calls)
      BY <3>1, AskTyped
    <3>3. MessageFits(s) /\ ~Counts(s)
      BY <3>1 DEF MessageFits, Counts
    <3>4. s = [pc |-> "cas", session |-> k, old |-> sessions[k], ask |-> s.ask]
      OBVIOUS
    <3> HIDE DEF s
    <3> QED BY <3>1, <3>2, <3>3, <3>4 DEF Slots, CasSlot
  <2>3. UnchangedStore /\ UNCHANGED clock
        /\ Goto(r, IF Active(k) THEN s ELSE IdleSlot)
    BY <1>3 DEF AcknowledgeRules
  <2>4. CASE Active(k)
    BY <2>2, <2>3, <2>4, GotoTyped
  <2>5. CASE ~Active(k)
    BY <2>3, <2>5, GotoTyped, IdleTyped DEF Counts
  <2> QED BY <2>4, <2>5
<1>4. CASE updateLocal(r)
  <2> DEFINE k == req[r].session
             new == Changed(req[r].old, req[r].ask)
  <2>1. req[r] \in CasSlot /\ k \in Sid
    BY <1>0, <1>4, SlotShape DEF updateLocal, CasSlot
  <2>2. new \in SessionRecord
    BY <1>0, <2>1, ChangedTyped
  <2>3. UNCHANGED <<agents, bindings, grant, projectRetired, openWork, messages, next, rules, clock>>
        /\ \E effect : Return(r, effect)
    BY <1>4 DEF updateLocal
  <2>4. /\ TypeSlots' /\ NumbersFit' /\ TypeMessages' /\ mix' = mix /\ calls' = calls
        /\ SessionRecord' = SessionRecord /\ AgentRecord' = AgentRecord
    BY <2>3, ReturnTyped
  <2>5. sessions' = sessions \/ (sessions' = [sessions EXCEPT ![k] = new] /\ Validate(new))
    BY <1>4 DEF updateLocal
  <2>6. TypeSessions'
    <3> HIDE DEF new
    <3>1. CASE sessions' = [sessions EXCEPT ![k] = new] /\ Validate(new)
      BY <2>1, <2>2, <2>4, <3>1, SessionWritten DEF Typed
    <3> QED BY <2>4, <2>5, <3>1, KeepSessions DEF Typed
  <2> QED BY <2>3, <2>4, <2>6, KeepLocal, KeepFlags DEF Typed
<1> QED BY <1>1, <1>2, <1>3, <1>4

LEMMA FlagStepsTyped ==
    ASSUME Typed, NEW r \in Request, GrantInsert(r) \/ AdmitWork(r) PROVE Typed'
<1>1. UNCHANGED <<sessions, agents, bindings, messages, next, rules, clock>> /\ Return(r, {})
  BY DEF GrantInsert, AdmitWork
<1>2. /\ TypeSlots' /\ NumbersFit' /\ TypeMessages' /\ mix' = mix /\ calls' = calls
      /\ SessionRecord' = SessionRecord /\ AgentRecord' = AgentRecord
  BY <1>1, ReturnTyped
<1>3. TypeFlags'
  <2>1. CASE GrantInsert(r)
    BY <2>1, Zenon DEF GrantInsert, Typed, TypeFlags
  <2>2. CASE AdmitWork(r)
    BY <2>2, Zenon DEF AdmitWork, Typed, TypeFlags
  <2> QED BY <2>1, <2>2
<1> QED BY <1>1, <1>2, <1>3, KeepSessions, KeepLocal DEF Typed

LEMMA AgentStepsTyped ==
    ASSUME Typed, NEW r \in Request,
           AgentRegister(r) \/ ReadLocalAgent(r) \/ UpdateLocalAgent(r)
    PROVE  Typed'
<1>0. req[r] \in Slots
  BY DEF Typed, TypeSlots
<1> DEFINE Kept == /\ TypeSlots' /\ NumbersFit' /\ TypeMessages' /\ mix' = mix /\ calls' = calls
                   /\ SessionRecord' = SessionRecord /\ AgentRecord' = AgentRecord
<1> USE DEF MessageFits, Counts
<1>1. CASE AgentRegister(r)
  <2> DEFINE s == [req[r] EXCEPT !.pc = "bind"]
             new == NewAgent(req[r].role, calls)
  <2>1. req[r] \in BindSlot
    BY <1>0, <1>1, SlotShape DEF AgentRegister
  <2>2. s \in Slots /\ s.pc = "bind"
    BY <2>1 DEF BindSlot, Slots
  <2>3. new \in AgentRecord
    <3>1. 0 \in 0..mix.calls /\ calls \in 0..mix.calls
      BY Constants DEF Typed, TypeLocal
    <3> QED BY <2>1, <3>1 DEF NewAgent, BindSlot, AgentRecord, AgentRecords
  <2>4. Goto(r, s) \/ Goto(r, IdleSlot)
    BY <1>1 DEF AgentRegister
  <2>5. UNCHANGED <<sessions, bindings, grant, projectRetired, openWork, messages, next, rules, clock>>
    BY <1>1 DEF AgentRegister
  <2>6. Kept
    BY <2>2, <2>4, <2>5, MoveTyped, IdleTyped
  <2>7. agents' = agents \/ agents' = [agents EXCEPT ![req[r].agent] = new]
    BY <1>1 DEF AgentRegister
  <2>8. TypeLocal'
    <3> HIDE DEF new
    <3> QED BY <2>3, <2>5, <2>6, <2>7 DEF Typed, TypeLocal
  <2> QED BY <2>5, <2>6, <2>8, KeepSessions, KeepFlags DEF Typed
<1>2. CASE ReadLocalAgent(r)
  <2> DEFINE a == req[r].agent
             s == [pc |-> "agentcas", agent |-> a, relay |-> req[r].relay, new |-> req[r].new,
                   old |-> agents[a]]
  <2>1. req[r] \in RereadSlot
    BY <1>0, <1>2, SlotShape DEF ReadLocalAgent
  <2>2. UnchangedStore /\ UNCHANGED clock
    BY <1>2 DEF ReadLocalAgent
  <2>3. CASE AgentRead(a) = None
    BY <1>2, <2>2, <2>3, GotoTyped, IdleTyped DEF ReadLocalAgent
  <2>4. CASE AgentRead(a) # None
    <3>1. agents[a] # None
      BY <2>4 DEF AgentRead
    <3>2. agents[a] \in AgentRecord
      BY <2>1, <3>1 DEF RereadSlot, Typed, TypeLocal
    <3>3. s \in Slots
      BY <2>1, <3>2 DEF RereadSlot, AgentCasSlot, Slots
    <3>4. Goto(r, s)
      BY <1>2, <2>4 DEF ReadLocalAgent
    <3> QED BY <2>2, <3>3, <3>4, GotoTyped
  <2> QED BY <2>3, <2>4
<1>3. CASE UpdateLocalAgent(r)
  <2> DEFINE a == req[r].agent
             s == [pc |-> "bind", agent |-> a, role |-> req[r].new.wrole, relay |-> req[r].relay]
  <2>1. req[r] \in AgentCasSlot
    BY <1>0, <1>3, SlotShape DEF UpdateLocalAgent
  <2>2. ASSUME req[r].relay # None PROVE s \in Slots
    BY <2>1, <2>2 DEF AgentCasSlot, Slots, BindSlot, Ref, AgentRecord, AgentRecords
  <2>3. (req[r].relay # None /\ Goto(r, s)) \/ Goto(r, IdleSlot)
    BY <1>3 DEF UpdateLocalAgent
  <2>4. UNCHANGED <<sessions, bindings, grant, projectRetired, openWork, messages, next, rules, clock>>
    BY <1>3 DEF UpdateLocalAgent
  <2>5. Kept
    BY <2>2, <2>3, <2>4, MoveTyped, IdleTyped
  <2>6. agents' = agents \/ agents' = [agents EXCEPT ![a] = req[r].new]
    BY <1>3 DEF UpdateLocalAgent
  <2>7. TypeLocal'
    BY <2>1, <2>4, <2>5, <2>6 DEF Typed, TypeLocal, AgentCasSlot
  <2> QED BY <2>4, <2>5, <2>7, KeepSessions, KeepFlags DEF Typed
<1> QED BY <1>1, <1>2, <1>3

LEMMA FileStepsTyped ==
    ASSUME Typed, NEW r \in Request,
           UpdateAgentBinding(r) \/ WriteBinding(r) \/ persistAgentBindingWithRefresh(r)
    PROVE  Typed'
<1>0. req[r] \in Slots
  BY DEF Typed, TypeSlots
<1> USE DEF MessageFits, Counts
<1>1. CASE UpdateAgentBinding(r)
  <2> DEFINE s == [pc |-> "writefile", agent |-> req[r].agent, original |-> bindings,
                   relay |-> req[r].relay]
  <2>1. req[r] \in BindSlot
    BY <1>0, <1>1, SlotShape DEF UpdateAgentBinding
  <2>2. s \in Slots
    BY <2>1 DEF BindSlot, FileSlot, Slots, Typed, TypeLocal
  <2>3. UnchangedStore /\ UNCHANGED clock /\ (Goto(r, s) \/ Goto(r, IdleSlot))
    BY <1>1 DEF UpdateAgentBinding
  <2> QED BY <2>2, <2>3, GotoTyped, IdleTyped
<1>2. CASE WriteBinding(r) \/ persistAgentBindingWithRefresh(r)
  <2> DEFINE s == [req[r] EXCEPT !.pc = "refresh"]
  <2>1. req[r] \in FileSlot
    BY <1>0, <1>2, SlotShape DEF WriteBinding, persistAgentBindingWithRefresh
  <2>2. s \in Slots /\ s.pc = "refresh"
    BY <2>1 DEF FileSlot, Slots
  <2>3. Goto(r, s) \/ Goto(r, IdleSlot)
    BY <1>2 DEF WriteBinding, persistAgentBindingWithRefresh, Return
  <2>4. UNCHANGED <<sessions, agents, grant, projectRetired, openWork, messages, next, rules, clock>>
    BY <1>2 DEF WriteBinding, persistAgentBindingWithRefresh
  <2>5. /\ TypeSlots' /\ NumbersFit' /\ TypeMessages' /\ mix' = mix /\ calls' = calls
        /\ SessionRecord' = SessionRecord /\ AgentRecord' = AgentRecord
    BY <2>2, <2>3, <2>4, MoveTyped, IdleTyped
  <2>6. \/ bindings' = bindings \/ bindings' = req[r].original
        \/ bindings' = [req[r].original EXCEPT ![req[r].agent] = req[r].relay]
    BY <1>2 DEF WriteBinding, persistAgentBindingWithRefresh
  <2>7. TypeLocal'
    BY <2>1, <2>4, <2>5, <2>6 DEF Typed, TypeLocal, FileSlot, Ref
  <2> QED BY <2>4, <2>5, <2>7, KeepSessions, KeepFlags DEF Typed
<1> QED BY <1>1, <1>2

\* A number is inserted where the sequence stands, within the bound.
LEMMA InsertFits ==
    ASSUME Typed, NEW r \in Request, req[r].pc = "insert", req' = [req EXCEPT ![r] = IdleSlot]
    PROVE  /\ next \in Mid /\ Cardinality(Numbering) \in Nat
           /\ Cardinality(Numbering)' = Cardinality(Numbering) - 1
<1>1. /\ Cardinality(Numbering) \in Nat /\ Cardinality(Numbering)' \in Nat
      /\ Cardinality(Numbering)' = Cardinality(Numbering) - 1
  BY NumberingStep, IdleTyped DEF Counts, Typed
<1>2. next \in Nat \ {0} /\ MaxMessages \in Nat /\ next - 1 + Cardinality(Numbering) <= MaxMessages
  BY Constants DEF Typed, TypeMessages, NumbersFit
<1> QED BY <1>1, <1>2 DEF Mid

\* A message row changes in place.
LEMMA RowKept ==
    ASSUME Typed, NEW m \in Mid, NEW n \in Sid, NEW st \in {"read", "cancelled"},
           messages[m] # None,
           \/ messages' = messages
           \/ messages' = [messages EXCEPT ![m].state = st, ![m].by = n]
    PROVE  /\ messages' \in [Mid -> {None} \cup MessageRecord]
           /\ \A k \in Mid : messages[k] # None => messages'[k] # None
           /\ \A k \in Mid : k # m => messages'[k] = messages[k]
<1>1. CASE messages' = messages
  BY <1>1 DEF Typed, TypeMessages
<1>2. CASE messages' = [messages EXCEPT ![m].state = st, ![m].by = n]
  <2> DEFINE letter == [messages[m] EXCEPT !.state = st, !.by = n]
  <2>1. messages[m] \in MessageRecord
    BY DEF Typed, TypeMessages
  <2>2. letter \in MessageRecord
    BY <2>1 DEF MessageRecord
  <2>3. letter # None
    BY <2>2, Constants
  <2>4. messages' = [messages EXCEPT ![m] = letter]
    BY <1>2 DEF Typed, TypeMessages
  <2> HIDE DEF letter
  <2> QED BY <2>2, <2>3, <2>4 DEF Typed, TypeMessages
<1> QED BY <1>1, <1>2

LEMMA RowTyped ==
    ASSUME Typed, NEW r \in Request, NEW m \in Mid, NEW n \in Sid, NEW st \in {"read", "cancelled"},
           NEW effect, messages[m] # None, Return(r, effect), next' = next,
           \/ messages' = messages
           \/ messages' = [messages EXCEPT ![m].state = st, ![m].by = n],
           UNCHANGED <<sessions, agents, bindings, grant, projectRetired, openWork, rules, clock>>
    PROVE  Typed'
<1>1. messages' \in [Mid -> {None} \cup MessageRecord]
      /\ \A k \in Mid : messages[k] # None => messages'[k] # None
  BY RowKept
<1>2. req' = [req EXCEPT ![r] = IdleSlot] /\ mix' = mix /\ calls' = calls
  BY DEF Return, Goto
<1>3. TypeSlots'
  BY <1>1, <1>2, SlotStep, IdleTyped DEF Typed
<1>4. NumbersFit'
  <2>1. /\ Cardinality(Numbering) \in Nat /\ Cardinality(Numbering)' \in Nat
        /\ Cardinality(Numbering)' <= Cardinality(Numbering)
    BY <1>2, NumberingStep, IdleTyped DEF Counts, Typed
  <2>2. next \in Nat /\ MaxMessages \in Nat /\ next - 1 + Cardinality(Numbering) <= MaxMessages
    BY Constants DEF Typed, TypeMessages, NumbersFit
  <2> QED BY <2>1, <2>2 DEF NumbersFit
<1>5. TypeMessages'
  BY <1>1 DEF TypeMessages, Typed
<1> QED BY <1>2, <1>3, <1>4, <1>5, StableSets, KeepSessions, KeepLocal, KeepFlags DEF Typed

LEMMA MessageStepsTyped ==
    ASSUME Typed, NEW r \in Request,
           \/ nextPLAWMessageNumber(r) \/ CreatePLAWMessage(r) \/ MarkPLAWMessageRead(r)
           \/ CancelPLAWMessage(r)
    PROVE  Typed'
<1>0. req[r] \in Slots /\ MessageFits(req[r])
  BY DEF Typed, TypeSlots
<1>1. CASE nextPLAWMessageNumber(r)
  <2> DEFINE s == [pc |-> "insert", from |-> req[r].from, to |-> req[r].to,
                   attempt |-> req[r].attempt, number |-> next]
  <2>1. req[r] \in NumberSlot
    BY <1>0, <1>1, SlotShape DEF nextPLAWMessageNumber
  <2>2. s \in Slots
    BY <2>1 DEF NumberSlot, InsertSlot, Slots, Typed, TypeMessages
  <2> QED BY <1>1, <2>2, GotoTyped DEF nextPLAWMessageNumber, MessageFits, Counts
<1>2. CASE CreatePLAWMessage(r)
  <2>1. req[r] \in InsertSlot
    BY <1>0, <1>2, SlotShape DEF CreatePLAWMessage
  <2>2. CASE next = req[r].number
    <3> DEFINE letter == [from |-> req[r].from, to |-> req[r].to, state |-> "unread", by |-> None]
    <3>1. /\ messages' = [messages EXCEPT ![next] = letter] /\ next' = next + 1
          /\ req' = [req EXCEPT ![r] = IdleSlot] /\ mix' = mix /\ calls' = calls
          /\ UNCHANGED <<sessions, agents, bindings, grant, projectRetired, openWork, rules, clock>>
      BY <1>2, <2>2 DEF CreatePLAWMessage, Return, Goto
    <3>2. letter \in MessageRecord
      BY <2>1 DEF InsertSlot, MessageRecord
    <3>3. letter # None
      BY <3>2, Constants
    <3>4. /\ next \in Mid /\ Cardinality(Numbering) \in Nat
          /\ Cardinality(Numbering)' = Cardinality(Numbering) - 1
      BY <1>2, <3>1, InsertFits DEF CreatePLAWMessage
    <3> HIDE DEF letter
    <3>5. messages' \in [Mid -> {None} \cup MessageRecord]
          /\ \A k \in Mid : messages[k] # None => messages'[k] # None
      BY <3>1, <3>2, <3>3, <3>4 DEF Typed, TypeMessages
    <3>6. TypeSlots'
      BY <3>1, <3>5, SlotStep, IdleTyped DEF Typed
    <3>7. NumbersFit'
      <4>1. next \in Nat /\ MaxMessages \in Nat /\ next - 1 + Cardinality(Numbering) <= MaxMessages
        BY Constants DEF Typed, TypeMessages, NumbersFit
      <4> QED BY <3>1, <3>4, <4>1 DEF NumbersFit
    <3>8. TypeMessages'
      BY <3>1, <3>5 DEF TypeMessages, Typed
    <3> QED BY <3>1, <3>6, <3>7, <3>8, StableSets, KeepSessions, KeepLocal, KeepFlags DEF Typed
  <2>3. CASE next # req[r].number
    <3> DEFINE s == Renumber(req[r])
    <3>1. s \in Slots /\ s.pc = "number"
      BY <2>1 DEF Renumber, InsertSlot, NumberSlot, Slots
    <3>2. Goto(r, s) \/ Goto(r, IdleSlot)
      BY <1>2, <2>3 DEF CreatePLAWMessage
    <3>3. UnchangedStore /\ UNCHANGED clock
      BY <1>2, <2>3 DEF CreatePLAWMessage, UnchangedStore
    <3>4. Counts(req[r])
      BY <1>2 DEF CreatePLAWMessage, Counts
    <3> HIDE DEF s
    <3>5. MessageFits(s)
      BY <3>1 DEF MessageFits
    <3> QED BY <3>1, <3>2, <3>3, <3>4, <3>5, GotoTyped, IdleTyped
  <2> QED BY <2>2, <2>3
<1>3. CASE MarkPLAWMessageRead(r)
  <2>1. req[r] \in ReadSlot /\ messages[req[r].message] # None
    BY <1>0, <1>3, SlotShape DEF MarkPLAWMessageRead, MessageFits
  <2>2. req[r].message \in Mid /\ req[r].from \in Sid
    BY <2>1 DEF ReadSlot
  <2>3. \E effect : Return(r, effect)
    BY <1>3 DEF MarkPLAWMessageRead
  <2>4. /\ \/ messages' = messages
           \/ messages' = [messages EXCEPT ![req[r].message].state = "read",
                                           ![req[r].message].by = req[r].from]
        /\ UNCHANGED <<sessions, agents, bindings, grant, projectRetired, openWork, next, rules, clock>>
    BY <1>3 DEF MarkPLAWMessageRead
  <2> QED BY <2>1, <2>2, <2>3, <2>4, RowTyped
<1>4. CASE CancelPLAWMessage(r)
  <2>1. req[r] \in CancelSlot /\ messages[req[r].message] # None
    BY <1>0, <1>4, SlotShape DEF CancelPLAWMessage, MessageFits
  <2>2. req[r].message \in Mid /\ req[r].from \in Sid
    BY <2>1 DEF CancelSlot
  <2>3. \E effect : Return(r, effect)
    BY <1>4 DEF CancelPLAWMessage
  <2>4. /\ \/ messages' = messages
           \/ messages' = [messages EXCEPT ![req[r].message].state = "cancelled",
                                           ![req[r].message].by = req[r].from]
        /\ UNCHANGED <<sessions, agents, bindings, grant, projectRetired, openWork, next, rules, clock>>
    BY <1>4 DEF CancelPLAWMessage
  <2> QED BY <2>1, <2>2, <2>3, <2>4, RowTyped
<1> QED BY <1>1, <1>2, <1>3, <1>4

-----------------------------------------------------------------------------
(* Type correctness.                                                       *)

LEMMA QuietStepsTyped ==
    ASSUME Typed,
           \/ beginLocalProjectRetirement \/ (\E relay \in Relay : agentCLISubmit(relay))
           \/ RulesChange \/ ClockStep \/ UNCHANGED localVars
    PROVE  Typed'
<1>1. UNCHANGED <<sessions, agents, bindings, messages, next, req, mix, calls>>
  BY DEF beginLocalProjectRetirement, agentCLISubmit, RulesChange, ClockStep, localVars
<1>2. TypeSlots' /\ NumbersFit' /\ TypeMessages' /\ TypeSessions'
  <2>1. TypeSessions' /\ TypeMessages'
    BY <1>1, StableSets DEF Typed, TypeSessions, TypeMessages
  <2>2. TypeSlots'
    BY <1>1, StableSets DEF Typed, TypeSlots, MessageFits
  <2>3. NumbersFit'
    BY <1>1 DEF Typed, NumbersFit, Numbering
  <2> QED BY <2>1, <2>2, <2>3
<1>3. TypeFlags'
  BY Zenon DEF beginLocalProjectRetirement, agentCLISubmit, RulesChange, ClockStep, localVars, Typed, TypeFlags
<1>4. TypeLocal'
  <2>1. rules' \in 0..1 /\ clock' \in 0..MaxClock
    BY DEF beginLocalProjectRetirement, agentCLISubmit, RulesChange, ClockStep, localVars, Typed, TypeLocal
  <2> QED BY <1>1, <2>1, StableSets DEF Typed, TypeLocal
<1> QED BY <1>2, <1>3, <1>4 DEF Typed

LEMMA NextTyped == Typed /\ [LocalNext]_localVars => Typed'
<1> SUFFICES ASSUME Typed, [LocalNext]_localVars PROVE Typed'
  OBVIOUS
<1>1. ASSUME NEW r \in Request, Arrive(r) PROVE Typed'
  BY <1>1, ArriveStartTyped, ArriveChangeTyped, ArriveCloseTyped, ArriveAgentsTyped,
     ArriveMessagesTyped DEF Arrive
<1>2. ASSUME NEW r \in Request, Step(r) PROVE Typed'
  BY <1>2, SessionStepsTyped, FlagStepsTyped, AgentStepsTyped, FileStepsTyped, MessageStepsTyped
     DEF Step
<1> QED BY <1>1, <1>2, QuietStepsTyped DEF LocalNext

\* Every letter of the local stores has its shape and every stored Session passes
\* Validate, whatever the handlers of sessions, agents and messages interleave.
THEOREM LocalTypeCorrect == LocalSpec => []LocalTypeOK
<1>1. Typed => LocalTypeOK
  <2> SUFFICES ASSUME Typed PROVE LocalTypeOK
    OBVIOUS
  <2>1. {grant, projectRetired, openWork} \subseteq BOOLEAN
    BY Zenon DEF Typed, TypeFlags
  <2>2. next \in 1..(MaxMessages + 1)
    <3>1. Cardinality(Numbering) \in Nat
      BY Constants, FS_Subset, FS_CardinalityType DEF Numbering
    <3> QED BY <3>1, Constants DEF Typed, TypeMessages, NumbersFit
  <2>3. DOMAIN req = Request
    BY DEF Typed, TypeSlots
  <2> QED BY <2>1, <2>2, <2>3 DEF LocalTypeOK, Typed, TypeSessions, TypeLocal, TypeMessages, Ref
<1> QED BY <1>1, InitTyped, NextTyped, PTL DEF LocalSpec

-----------------------------------------------------------------------------
(* Which steps touch what.                                                 *)

LEMMA ArriveFrame ==
    ASSUME NEW r \in Request, Arrive(r) PROVE UnchangedStore
<1>1. ASSUME ArriveStart(r) PROVE UnchangedStore
  BY <1>1 DEF ArriveStart, sessionStartPublic, AdminSessionMint, SessionStart, SessionAttach
<1>2. ASSUME ArriveChange(r) PROVE UnchangedStore
  BY <1>2 DEF ArriveChange, SessionEnd, SessionUpdate, ruleEffectiveAction, AdminSessionRevoke,
              EndRequest
<1>3. ASSUME EnsureProjectSessionBootstrapGrant(r) \/ \E n \in Sid : genericCall(r, n)
      PROVE  UnchangedStore
  BY <1>3 DEF EnsureProjectSessionBootstrapGrant, genericCall
<1>4. ASSUME ArriveAgents(r) PROVE UnchangedStore
  BY <1>4 DEF ArriveAgents, AgentBootstrap, AgentUpdate
<1>5. ASSUME ArriveMessages(r) PROVE UnchangedStore
  BY <1>5 DEF ArriveMessages, MessageCreate, MessageRead, MessageCancel
<1> QED BY <1>1, <1>2, <1>3, <1>4, <1>5 DEF Arrive

\* The steps of a handler that leave Sessions and messages alone.
ElsewhereSteps(r) ==
    \/ AttachList(r) \/ AcknowledgeRules(r) \/ GrantInsert(r) \/ AdmitWork(r)
    \/ AgentRegister(r) \/ ReadLocalAgent(r) \/ UpdateLocalAgent(r)
    \/ UpdateAgentBinding(r) \/ WriteBinding(r) \/ persistAgentBindingWithRefresh(r)
    \/ nextPLAWMessageNumber(r)

LEMMA ElsewhereFrame ==
    ASSUME NEW r \in Request, ElsewhereSteps(r) PROVE UNCHANGED <<sessions, messages, next>>
BY DEF ElsewhereSteps, AttachList, AcknowledgeRules, GrantInsert, AdmitWork, AgentRegister,
       ReadLocalAgent, UpdateLocalAgent, UpdateAgentBinding, WriteBinding,
       persistAgentBindingWithRefresh, nextPLAWMessageNumber, UnchangedStore

LEMMA QuietFrame ==
    ASSUME \/ beginLocalProjectRetirement \/ (\E relay \in Relay : agentCLISubmit(relay))
           \/ RulesChange \/ ClockStep \/ UNCHANGED localVars
    PROVE  UNCHANGED <<sessions, messages, next, acked>>
BY DEF beginLocalProjectRetirement, agentCLISubmit, RulesChange, ClockStep, localVars

\* What updateLocal writes: the record it read, changed as its request asks.
LEMMA UpdateWrites ==
    ASSUME Typed, NEW r \in Request, updateLocal(r), sessions' # sessions
    PROVE  \E n \in Sid : LET new == Changed(sessions[n], req[r].ask) IN
              /\ sessions[n] \in SessionRecord /\ sessions[n].status = "active"
              /\ req[r].ask \in SessionAsks(mix.calls)
              /\ new.status = "active" /\ new.role # "admin" => ~projectRetired
              /\ sessions' = [sessions EXCEPT ![n] = new]
              /\ n = req[r].session
<1>1. req[r] \in CasSlot
  BY SlotShape DEF Typed, TypeSlots, updateLocal
<1>2. /\ req[r].session \in Sid /\ req[r].old \in SessionRecord
      /\ req[r].ask \in SessionAsks(mix.calls)
  BY <1>1 DEF CasSlot
<1>3. sessions[req[r].session] = req[r].old
  BY DEF updateLocal, UpdateLocalSession
<1> USE <1>2
<1> WITNESS req[r].session \in Sid
<1> QED BY <1>2, <1>3 DEF updateLocal, UpdateLocalSession

\* One write of a Session record, asked for by one request.
SessionWrite(old, new, fields) ==
    /\ old.status = "active" /\ new.updated >= old.updated
    /\ Fields(old, new) \subseteq fields

LEMMA ChangedComposes ==
    ASSUME NEW old \in SessionRecord, old.status = "active", clock \in Nat, NEW most,
           NEW ask \in SessionAsks(most)
    PROVE  SessionWrite(old, Changed(old, ask), ask.fields)
<1> DEFINE rec == IF "status" \in ask.fields THEN Ended(old)
                  ELSE [old EXCEPT !.updated = durableSessionNow(old)]
           new == Changed(old, ask)
<1>1. durableSessionNow(old) >= old.updated /\ old.updated \in Nat
  BY Constants DEF durableSessionNow, SessionRecord, SessionRecords
<1>2. /\ rec.updated = durableSessionNow(old) /\ rec.role = old.role
      /\ rec.status # old.status => "status" \in ask.fields
      /\ {"role", "ref", "label", "rules", "status", "updated"} \subseteq DOMAIN rec
  BY DEF Ended, SessionRecord, SessionRecords
<1>3. /\ new.updated = rec.updated /\ new.role = rec.role /\ new.status = rec.status
      /\ new.label # old.label => "label" \in ask.fields
      /\ new.ref # old.ref => "ref" \in ask.fields
      /\ new.rules # old.rules => "rules" \in ask.fields
  <2> HIDE DEF rec
  <2> QED BY <1>2 DEF Changed, rec
<1> HIDE DEF new, rec
<1>4. Fields(old, new) \subseteq ask.fields
  BY <1>2, <1>3 DEF Fields
<1> QED BY <1>1, <1>2, <1>3, <1>4 DEF SessionWrite, new

LEMMA SessionsStep ==
    ASSUME Typed, [LocalNext]_localVars, NEW n \in Sid, sessions[n] # None, sessions'[n] # sessions[n]
    PROVE  \E r \in Request :
              /\ req[r].pc = "cas" /\ req[r].session = n /\ req'[r] # req[r]
              /\ SessionWrite(sessions[n], sessions'[n], req[r].ask.fields)
<1>1. CASE \E r \in Request : Arrive(r)
  BY <1>1, ArriveFrame DEF UnchangedStore
<1>2. ASSUME NEW r \in Request, Step(r)
      PROVE  /\ req[r].pc = "cas" /\ req[r].session = n /\ req'[r] # req[r]
             /\ SessionWrite(sessions[n], sessions'[n], req[r].ask.fields)
  <2>1. CASE ElsewhereSteps(r)
    BY <2>1, ElsewhereFrame
  <2>2. ASSUME NEW k \in Sid, Create(r, k) PROVE FALSE
    BY <2>2 DEF Create, Typed, TypeSessions
  <2>3. CASE CreatePLAWMessage(r) \/ MarkPLAWMessageRead(r) \/ CancelPLAWMessage(r)
    BY <2>3 DEF CreatePLAWMessage, MarkPLAWMessageRead, CancelPLAWMessage
  <2>4. CASE updateLocal(r)
    <3>1. PICK k \in Sid : LET new == Changed(sessions[k], req[r].ask) IN
              /\ sessions[k] \in SessionRecord /\ sessions[k].status = "active"
              /\ req[r].ask \in SessionAsks(mix.calls)
              /\ sessions' = [sessions EXCEPT ![k] = new]
              /\ k = req[r].session
      BY <2>4, UpdateWrites
    <3>2. k = n /\ sessions'[n] = Changed(sessions[n], req[r].ask)
      BY <3>1 DEF Typed, TypeSessions
    <3>3. clock \in Nat
      BY Constants DEF Typed, TypeLocal
    <3>4. req[r].pc = "cas" /\ req'[r].pc = "idle"
      BY <2>4 DEF updateLocal, Return, Goto, IdleSlot, Typed, TypeSlots
    <3> QED BY <3>1, <3>2, <3>3, <3>4, ChangedComposes
  <2> QED BY <1>2, <2>1, <2>2, <2>3, <2>4 DEF Step, ElsewhereSteps
<1> QED BY <1>1, <1>2, QuietFrame DEF LocalNext

\* A write of a Session changes only what its own request named (a label, a
\* relay, both, an acknowledgement, or the end), never revives an ended Session
\* and never moves updated_at back, for any number of overlapping handlers and
\* any stepping of the clock.
THEOREM SessionWritesKeepOthers == LocalSpec => SessionWritesCompose
<1>1. Typed /\ [LocalNext]_localVars
      => [\A n \in Sid :
            sessions[n] # None /\ sessions'[n] # sessions[n]
            => /\ sessions[n].status = "active" /\ sessions'[n].updated >= sessions[n].updated
               /\ \E r \in Request :
                     /\ req[r].pc = "cas" /\ req[r].session = n /\ req'[r] # req[r]
                     /\ Fields(sessions[n], sessions'[n]) \subseteq req[r].ask.fields]_localVars
  BY SessionsStep DEF SessionWrite
<1> QED BY <1>1, InitTyped, NextTyped, PTL DEF LocalSpec, SessionWritesCompose

-----------------------------------------------------------------------------
(* Retirement.                                                             *)

SessionsQuiet ==
    \A n \in Sid : sessions[n] # None /\ sessions[n].role # "admin" => sessions[n].status = "ended"

\* A step that finds the project retired leaves the flags closed.
LEMMA FlagsStayClosed ==
    ASSUME TypeFlags, [LocalNext]_localVars, projectRetired, ~grant, ~openWork
    PROVE  ~grant' /\ ~openWork'
<1>1. CASE \E r \in Request : Arrive(r)
  BY <1>1, ArriveFrame DEF UnchangedStore
<1>2. ASSUME NEW r \in Request, Step(r) PROVE ~grant' /\ ~openWork'
  <2>1. CASE GrantInsert(r)
    <3>1. openWork' = openWork /\ grant' = (grant \/ ~projectRetired)
      BY <2>1 DEF GrantInsert, EnsureSessionBootstrapGrant
    <3> QED BY <3>1, Zenon
  <2>4. CASE AdmitWork(r)
    <3>1. grant' = grant /\ openWork' = (openWork \/ ~projectRetired)
      BY <2>4 DEF AdmitWork
    <3> QED BY <3>1, Zenon
  <2>2. CASE UNCHANGED <<grant, openWork>>
    BY <2>2
  <2>3. GrantInsert(r) \/ AdmitWork(r) \/ UNCHANGED <<grant, openWork>>
    BY <1>2 DEF Step, AttachList, Create, AcknowledgeRules, updateLocal, AgentRegister,
       ReadLocalAgent, UpdateLocalAgent, UpdateAgentBinding, WriteBinding,
       persistAgentBindingWithRefresh, nextPLAWMessageNumber, CreatePLAWMessage,
       MarkPLAWMessageRead, CancelPLAWMessage, UnchangedStore
  <2> QED BY <2>1, <2>2, <2>3, <2>4
<1>3. CASE beginLocalProjectRetirement \/ \E relay \in Relay : agentCLISubmit(relay)
  <2>1. CASE beginLocalProjectRetirement
    BY <2>1 DEF beginLocalProjectRetirement
  <2>2. ASSUME NEW relay \in Relay, agentCLISubmit(relay) PROVE ~grant' /\ ~openWork'
    <3>1. openWork' = FALSE /\ grant' = grant
      BY <2>2 DEF agentCLISubmit
    <3> QED BY <3>1
  <2> QED BY <1>3, <2>1, <2>2
<1>4. CASE RulesChange \/ ClockStep \/ UNCHANGED localVars
  <2>1. grant' = grant /\ openWork' = openWork
    BY <1>4 DEF RulesChange, ClockStep, localVars
  <2> QED BY <2>1
<1> QED BY <1>1, <1>2, <1>3, <1>4 DEF LocalNext

LEMMA SessionsStayQuiet ==
    ASSUME Typed, [LocalNext]_localVars, projectRetired, SessionsQuiet
    PROVE  SessionsQuiet'
<1> SUFFICES ASSUME NEW n \in Sid, sessions'[n] # None, sessions'[n].role # "admin"
             PROVE  sessions'[n].status = "ended"
  BY DEF SessionsQuiet
<1>0. sessions'[n] = sessions[n] => sessions'[n].status = "ended"
  BY DEF SessionsQuiet
<1>1. CASE \E r \in Request : Arrive(r)
  BY <1>0, <1>1, ArriveFrame DEF UnchangedStore
<1>2. ASSUME NEW r \in Request, Step(r) PROVE sessions'[n].status = "ended"
  <2>1. CASE ElsewhereSteps(r)
    BY <1>0, <2>1, ElsewhereFrame
  <2>2. ASSUME NEW k \in Sid, Create(r, k) PROVE sessions'[n].status = "ended"
    BY <1>0, <2>2 DEF Create, CreateLocalSessions, NewRecord, Typed, TypeSessions
  <2>3. CASE CreatePLAWMessage(r) \/ MarkPLAWMessageRead(r) \/ CancelPLAWMessage(r)
    BY <1>0, <2>3 DEF CreatePLAWMessage, MarkPLAWMessageRead, CancelPLAWMessage
  <2>4. CASE updateLocal(r)
    <3>1. CASE sessions' = sessions
      BY <1>0, <3>1
    <3>2. CASE sessions' # sessions
      <4>1. PICK k \in Sid : LET new == Changed(sessions[k], req[r].ask) IN
              /\ new.status = "active" /\ new.role # "admin" => ~projectRetired
              /\ sessions' = [sessions EXCEPT ![k] = new]
        BY <2>4, <3>2, UpdateWrites
      <4>2. CASE k # n
        BY <1>0, <4>1, <4>2 DEF Typed, TypeSessions
      <4>3. CASE k = n
        <5>1. sessions'[n].status # "active"
          BY <4>1, <4>3 DEF Typed, TypeSessions
        <5>2. sessions'[n] \in SessionRecord'
          BY NextTyped DEF Typed, TypeSessions
        <5> QED BY <5>1, <5>2 DEF SessionRecord, SessionRecords
      <4> QED BY <4>2, <4>3
    <3> QED BY <3>1, <3>2
  <2> QED BY <1>2, <2>1, <2>2, <2>3, <2>4 DEF Step, ElsewhereSteps
<1> QED BY <1>0, <1>1, <1>2, QuietFrame DEF LocalNext

LEMMA RetirementStep ==
    ASSUME Typed, RetiredIsQuiet, [LocalNext]_localVars PROVE RetiredIsQuiet'
<1> SUFFICES ASSUME projectRetired' PROVE ~grant' /\ ~openWork' /\ SessionsQuiet'
  BY DEF RetiredIsQuiet, SessionsQuiet
<1>1. CASE projectRetired
  BY <1>1, FlagsStayClosed, SessionsStayQuiet DEF RetiredIsQuiet, SessionsQuiet, Typed
<1>2. CASE ~projectRetired
  <2>1. beginLocalProjectRetirement
    <3>1. ASSUME NEW r \in Request, Step(r) PROVE projectRetired' = projectRetired
      BY <3>1 DEF Step, AttachList, Create, AcknowledgeRules, updateLocal, AgentRegister,
         ReadLocalAgent, UpdateLocalAgent, UpdateAgentBinding, WriteBinding, GrantInsert, AdmitWork,
         persistAgentBindingWithRefresh, nextPLAWMessageNumber, CreatePLAWMessage,
         MarkPLAWMessageRead, CancelPLAWMessage, UnchangedStore
    <3>2. ASSUME NEW r \in Request, Arrive(r) PROVE projectRetired' = projectRetired
      BY <3>2, ArriveFrame DEF UnchangedStore
    <3>3. CASE (\E relay \in Relay : agentCLISubmit(relay)) \/ RulesChange \/ ClockStep
               \/ UNCHANGED localVars
      BY <1>2, <3>3 DEF agentCLISubmit, RulesChange, ClockStep, localVars
    <3> QED BY <1>2, <3>1, <3>2, <3>3 DEF LocalNext
  <2>2. ~grant' /\ ~openWork'
    BY <2>1 DEF beginLocalProjectRetirement, localProjectRetirementBlocked
  <2>3. SessionsQuiet'
    <3> SUFFICES ASSUME NEW n \in Sid, sessions[n] # None, sessions[n].role # "admin"
                 PROVE  sessions[n].status = "ended"
      BY <2>1 DEF SessionsQuiet, beginLocalProjectRetirement
    <3>1. sessions[n].status # "active"
      BY <2>1 DEF beginLocalProjectRetirement, localProjectRetirementBlocked
    <3>2. sessions[n] \in SessionRecord
      BY DEF Typed, TypeSessions
    <3> QED BY <3>1, <3>2 DEF SessionRecord, SessionRecords
  <2> QED BY <2>2, <2>3
<1> QED BY <1>1, <1>2

\* A retired project stays closed: no workflow Session is active, no grant and
\* no open work, although handlers admitted before the retirement finish after it.
THEOREM RetirementCloses == LocalSpec => []RetiredIsQuiet
<1>1. LocalInit => RetiredIsQuiet
  BY DEF LocalInit, RetiredIsQuiet
<1>2. Typed /\ RetiredIsQuiet /\ [LocalNext]_localVars => RetiredIsQuiet'
  BY RetirementStep
<1> QED BY <1>1, <1>2, InitTyped, NextTyped, PTL DEF LocalSpec

-----------------------------------------------------------------------------
(* What callers were told.                                                 *)

\* A report holds of the store, and of rows that exist.
Told(e) ==
    /\ e[1] = "ended" => e[2] \in Sid /\ sessions[e[2]] # None /\ sessions[e[2]].status = "ended"
    /\ e[1] = "read" => e[2] \in Mid /\ messages[e[2]] # None /\ messages[e[2]].state = "read"
    /\ e[1] = "cancelled"
         => e[2] \in Mid /\ messages[e[2]] # None /\ messages[e[2]].state = "cancelled"
    /\ e[1] = "created" => e[2] \in Mid /\ messages[e[2]] # None /\ e[2] < next

\* Rows exist only below the sequence: no number is given out twice.
RowsBelow == \A m \in Mid : messages[m] # None => m < next

Reports == RowsBelow /\ \A e \in acked : Told(e)

\* The store moves only forward.
Forward ==
    /\ \A n \in Sid : sessions[n] # None /\ sessions[n].status = "ended" => sessions'[n] = sessions[n]
    /\ \A m \in Mid : messages[m] # None
         => /\ messages'[m] # None
            /\ messages[m].state # "unread" => messages'[m] = messages[m]
    /\ next' >= next

LEMMA ToldForward ==
    ASSUME Typed, next' \in Nat, Forward, NEW e, Told(e)
    PROVE  Told(e)'
<1>1. next \in Nat /\ next' >= next
  BY DEF Typed, TypeMessages, Forward
<1>2. e[1] = "ended" => (e[2] \in Sid /\ sessions[e[2]] # None /\ sessions[e[2]].status = "ended")'
  BY DEF Forward, Told
<1>3. e[1] = "read" => (e[2] \in Mid /\ messages[e[2]] # None /\ messages[e[2]].state = "read")'
  BY DEF Forward, Told
<1>4. e[1] = "cancelled"
        => (e[2] \in Mid /\ messages[e[2]] # None /\ messages[e[2]].state = "cancelled")'
  BY DEF Forward, Told
<1>5. e[1] = "created" => (e[2] \in Mid /\ messages[e[2]] # None /\ e[2] < next)'
  <2>1. ASSUME e[1] = "created" PROVE e[2] \in Mid /\ messages'[e[2]] # None /\ e[2] < next
    BY <2>1 DEF Forward, Told
  <2>2. ASSUME e[1] = "created" PROVE e[2] < next'
    <3>1. e[2] \in Nat /\ e[2] < next /\ next' \in Nat
      BY <2>1, <2>2, Constants
    <3> QED BY <1>1, <3>1
  <2> QED BY <2>1, <2>2
<1> QED BY <1>2, <1>3, <1>4, <1>5 DEF Told

LEMMA ForwardStep ==
    ASSUME Typed, RowsBelow, [LocalNext]_localVars PROVE Forward /\ RowsBelow'
<1>0. next \in Nat
  BY DEF Typed, TypeMessages
<1>1. \A n \in Sid : sessions[n] # None /\ sessions[n].status = "ended" => sessions'[n] = sessions[n]
  BY SessionsStep DEF SessionWrite
<1>2. ASSUME UNCHANGED <<messages, next>> PROVE Forward /\ RowsBelow'
  BY <1>0, <1>1, <1>2 DEF Forward, RowsBelow
<1>3. CASE \E r \in Request : Arrive(r)
  BY <1>2, <1>3, ArriveFrame DEF UnchangedStore
<1>4. ASSUME NEW r \in Request, Step(r) PROVE Forward /\ RowsBelow'
  <2>0. req[r] \in Slots /\ MessageFits(req[r])
    BY DEF Typed, TypeSlots
  <2>1. CASE ElsewhereSteps(r) \/ updateLocal(r) \/ \E k \in Sid : Create(r, k)
    BY <1>2, <2>1, ElsewhereFrame DEF updateLocal, Create
  <2>2. CASE CreatePLAWMessage(r)
    <3>1. CASE next = req[r].number
      <4> DEFINE letter == [from |-> req[r].from, to |-> req[r].to, state |-> "unread", by |-> None]
      <4>1. /\ messages' = [messages EXCEPT ![next] = letter] /\ next' = next + 1
            /\ req' = [req EXCEPT ![r] = IdleSlot]
        BY <2>2, <3>1 DEF CreatePLAWMessage, Return, Goto
      <4>2. next \in Mid
        BY <2>2, <4>1, InsertFits DEF CreatePLAWMessage
      <4>3. \A m \in Mid : m # next => messages'[m] = messages[m]
        BY <4>1 DEF Typed, TypeMessages
      <4>4. messages[next] = None
        BY <1>0, <4>2 DEF RowsBelow
      <4>5. RowsBelow'
        BY <1>0, <4>1, <4>3, Constants DEF RowsBelow
      <4>6. \A m \in Mid : messages[m] # None => messages'[m] = messages[m]
        BY <4>3, <4>4
      <4> QED BY <1>0, <1>1, <4>1, <4>5, <4>6 DEF Forward
    <3>2. CASE next # req[r].number
      BY <1>2, <2>2, <3>2 DEF CreatePLAWMessage
    <3> QED BY <3>1, <3>2
  <2>3. CASE MarkPLAWMessageRead(r) \/ CancelPLAWMessage(r)
    <3> DEFINE m == req[r].message
    <3>1. m \in Mid /\ req[r].from \in Sid /\ messages[m] # None
      BY <2>0, <2>3, SlotShape DEF MarkPLAWMessageRead, CancelPLAWMessage, MessageFits, ReadSlot, CancelSlot
    <3>2. PICK st \in {"read", "cancelled"} :
            \/ messages' = messages
            \/ /\ messages[m].state = "unread"
               /\ messages' = [messages EXCEPT ![m].state = st, ![m].by = req[r].from]
      BY <2>3 DEF MarkPLAWMessageRead, CancelPLAWMessage, StillUnread
    <3>3. next' = next
      BY <2>3 DEF MarkPLAWMessageRead, CancelPLAWMessage
    <3>4. CASE messages' = messages
      BY <1>2, <3>3, <3>4
    <3>5. CASE messages[m].state = "unread" /\ messages' # messages
      <4>1. /\ \A k \in Mid : messages[k] # None => messages'[k] # None
            /\ \A k \in Mid : k # m => messages'[k] = messages[k]
        BY <3>1, <3>2, RowKept
      <4> QED BY <1>0, <1>1, <3>1, <3>3, <3>5, <4>1 DEF Forward, RowsBelow
    <3> QED BY <3>2, <3>4, <3>5
  <2> QED BY <1>4, <2>1, <2>2, <2>3 DEF Step, ElsewhereSteps
<1> QED BY <1>2, <1>3, <1>4, QuietFrame DEF LocalNext

\* What a step reports is so when it reports it.
LEMMA ReportsStep ==
    ASSUME Typed, Typed', [LocalNext]_localVars, NEW e \in acked', e \notin acked, RowsBelow
    PROVE  Told(e)'
<1>1. ASSUME NEW r \in Request, Arrive(r) PROVE Told(e)'
  <2>1. UNCHANGED <<sessions, messages, next>>
    BY <1>1, ArriveFrame DEF UnchangedStore
  <2>2. ASSUME NEW n \in Sid, EndRequest(r, n), sessions[n] # None PROVE Told(e)'
    <3>1. e = <<"ended", n>> /\ sessions[n].status = "ended"
      BY <2>2 DEF EndRequest
    <3> QED BY <2>1, <2>2, <3>1 DEF Told
  <2>3. ASSUME NEW n \in Sid, NEW m \in Mid, MessageRead(r, n, m) PROVE Told(e)'
    <3>1. e = <<"read", m>> /\ messages[m].state = "read" /\ messages[m] # None
      BY <2>3 DEF MessageRead
    <3> QED BY <2>1, <3>1 DEF Told
  <2>4. CASE ArriveStart(r)
    BY <2>4 DEF ArriveStart, sessionStartPublic, AdminSessionMint, SessionStart, SessionAttach
  <2>5. CASE ArriveChange(r)
    <3>1. ASSUME NEW n \in Sid, NEW by \in Sid \cup {None}, SessionEnd(r, by, n) PROVE Told(e)'
      BY <2>2, <3>1 DEF SessionEnd, Get
    <3>2. ASSUME NEW n \in Sid, AdminSessionRevoke(r, n) PROVE Told(e)'
      BY <2>2, <3>2 DEF AdminSessionRevoke, Get
    <3> QED BY <2>5, <3>1, <3>2 DEF ArriveChange, SessionUpdate, ruleEffectiveAction
  <2>6. CASE EnsureProjectSessionBootstrapGrant(r) \/ \E n \in Sid : genericCall(r, n)
    BY <2>6 DEF EnsureProjectSessionBootstrapGrant, genericCall
  <2>7. CASE ArriveAgents(r)
    BY <2>7 DEF ArriveAgents, AgentBootstrap, AgentUpdate
  <2>8. CASE ArriveMessages(r)
    BY <2>3, <2>8 DEF ArriveMessages, MessageCreate, MessageCancel
  <2> QED BY <1>1, <2>4, <2>5, <2>6, <2>7, <2>8 DEF Arrive
<1>2. ASSUME NEW r \in Request, Step(r) PROVE Told(e)'
  <2>0. req[r] \in Slots /\ MessageFits(req[r])
    BY DEF Typed, TypeSlots
  <2>1. CASE AttachList(r)
    <3>1. e = <<"attached", req[r].role>>
      BY <2>1 DEF AttachList, Return
    <3> QED BY <3>1 DEF Told
  <2>2. CASE ElsewhereSteps(r) /\ ~AttachList(r)
    BY <2>2 DEF ElsewhereSteps, AcknowledgeRules, GrantInsert, AdmitWork, AgentRegister,
       ReadLocalAgent, UpdateLocalAgent, UpdateAgentBinding, WriteBinding, Return,
       persistAgentBindingWithRefresh, nextPLAWMessageNumber
  <2>3. ASSUME NEW k \in Sid, Create(r, k) PROVE FALSE
    BY <2>3 DEF Create, Return
  <2>4. CASE updateLocal(r)
    <3> DEFINE n == req[r].session
               new == Changed(req[r].old, req[r].ask)
    <3>1. req[r] \in CasSlot
      BY <2>0, <2>4, SlotShape DEF updateLocal
    <3>2. n \in Sid /\ req[r].old \in SessionRecord
      BY <3>1 DEF CasSlot
    <3>3. e = <<"ended", n>> /\ "status" \in req[r].ask.fields
      BY <2>4 DEF updateLocal, Return
    <3>4. new.status = "ended"
      BY <3>2, <3>3 DEF Changed, Ended, SessionRecord, SessionRecords
    <3> HIDE DEF new
    <3>5. CASE sessions' = [sessions EXCEPT ![n] = new]
      <4>1. sessions'[n] = new
        BY <3>2, <3>5 DEF Typed, TypeSessions
      <4>2. new # None
        <5>1. new \in SessionRecord
          BY <2>0, <3>1, ChangedTyped DEF new
        <5> QED BY <5>1, StoreAssumption DEF SessionRecord, Typed, TypeLocal
      <4> QED BY <3>2, <3>3, <3>4, <4>1, <4>2 DEF Told
    <3>6. CASE sessions' # [sessions EXCEPT ![n] = new]
      <4>1. sessions' = sessions /\ EndLost(n)
        BY <2>4, <3>6 DEF updateLocal, Return, new
      <4>2. sessions[n] # None /\ sessions[n].status = "ended"
        BY <4>1 DEF EndLost, Get
      <4> QED BY <3>2, <3>3, <4>1, <4>2 DEF Told
    <3> QED BY <3>5, <3>6
  <2>5. CASE CreatePLAWMessage(r)
    <3>1. e = <<"created", next>> /\ next' = next + 1 /\ req' = [req EXCEPT ![r] = IdleSlot]
          /\ messages' = [messages EXCEPT ![next] =
                [from |-> req[r].from, to |-> req[r].to, state |-> "unread", by |-> None]]
      BY <2>5 DEF CreatePLAWMessage, Return, Goto
    <3>2. next \in Mid
      BY <2>5, <3>1, InsertFits DEF CreatePLAWMessage
    <3>3. messages'[next] \in MessageRecord
      <4>1. req[r] \in InsertSlot
        BY <2>0, <2>5, SlotShape DEF CreatePLAWMessage
      <4> QED BY <3>1, <3>2, <4>1 DEF InsertSlot, MessageRecord, Typed, TypeMessages
    <3>4. next < next'
      BY <3>1, <3>2, Constants
    <3> QED BY <3>1, <3>2, <3>3, <3>4, Constants DEF Told
  <2>6. CASE MarkPLAWMessageRead(r) \/ CancelPLAWMessage(r)
    <3> DEFINE m == req[r].message
    <3>1. m \in Mid /\ req[r].from \in Sid /\ messages[m] # None
      BY <2>0, <2>6, SlotShape DEF MarkPLAWMessageRead, CancelPLAWMessage, MessageFits, ReadSlot, CancelSlot
    <3>2. messages[m] \in MessageRecord
      BY <3>1 DEF Typed, TypeMessages
    <3>3. CASE MarkPLAWMessageRead(r)
      <4>1. e = <<"read", m>>
        BY <3>3 DEF MarkPLAWMessageRead, Return
      <4>2. messages'[m].state = "read"
        BY <3>1, <3>2, <3>3 DEF MarkPLAWMessageRead, Return, StillUnread, Typed, TypeMessages, MessageRecord
      <4>3. messages'[m] # None
        BY <3>1, <3>3, RowKept DEF MarkPLAWMessageRead
      <4> QED BY <3>1, <4>1, <4>2, <4>3 DEF Told
    <3>4. CASE CancelPLAWMessage(r)
      <4>1. e = <<"cancelled", m>>
        BY <3>4 DEF CancelPLAWMessage, Return
      <4>2. messages'[m].state = "cancelled"
        BY <3>1, <3>2, <3>4 DEF CancelPLAWMessage, Return, Typed, TypeMessages, MessageRecord
      <4>3. messages'[m] # None
        BY <3>1, <3>4, RowKept DEF CancelPLAWMessage
      <4> QED BY <3>1, <4>1, <4>2, <4>3 DEF Told
    <3> QED BY <2>6, <3>3, <3>4
  <2> QED BY <1>2, <2>1, <2>2, <2>3, <2>4, <2>5, <2>6 DEF Step, ElsewhereSteps
<1> QED BY <1>1, <1>2, QuietFrame DEF LocalNext

\* What a caller was told holds for good: an ended Session stays ended, a read
\* message was never cancelled nor a cancelled one read, and a created message
\* is there under a number no other message gets.
THEOREM ReportsHold == LocalSpec => []AckedHolds
<1>1. LocalInit => Reports
  BY DEF LocalInit, Reports, RowsBelow
<1>2. Typed /\ Typed' /\ Reports /\ [LocalNext]_localVars => Reports'
  <2> SUFFICES ASSUME Typed, Typed', Reports, [LocalNext]_localVars PROVE Reports'
    OBVIOUS
  <2>1. Forward /\ RowsBelow'
    BY ForwardStep DEF Reports
  <2>2. ASSUME NEW e \in acked' PROVE Told(e)'
    <3>1. next' \in Nat
      BY DEF Typed, TypeMessages
    <3>2. CASE e \in acked
      BY <2>1, <3>1, <3>2, ToldForward DEF Reports
    <3>3. CASE e \notin acked
      BY <3>3, ReportsStep DEF Reports
    <3> QED BY <3>2, <3>3
  <2> QED BY <2>1, <2>2 DEF Reports
<1>3. Reports => AckedHolds
  BY DEF Reports, Told, AckedHolds
<1> QED BY <1>1, <1>2, <1>3, InitTyped, NextTyped, PTL DEF LocalSpec

=============================================================================
