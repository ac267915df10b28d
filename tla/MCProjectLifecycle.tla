------------------------- MODULE MCProjectLifecycle -------------------------
(***************************************************************************)
(* Two hosts, two projects and up to three requests.  Every mix is a       *)
(* family of requests with the stores and failures that make it hard.      *)
(***************************************************************************)
EXTENDS ProjectLifecycle

CONSTANTS h1, h2, p1, p2, c1, c2, c3, c4, s1, s2, s3

MCHost == {h1, h2}
MCProject == {p1, p2}
MCCode == {c1, c2, c3, c4}
MCSlot == {s1, s2, s3}

All(v) == [p \in MCProject |-> v]
Each(v) == [h \in MCHost |-> v]
Is(p, v, other) == [q \in MCProject |-> IF q = p THEN v ELSE other]
Ent(n) == [rev |-> n, by |-> h2]
NoEnts == [n \in Num |-> NoEnt]

EmptyHub == [rev |-> 1, project |-> All(FALSE), code |-> All(None), cfg |-> All(NoEnt), old |-> All(FALSE),
             marker |-> All(None), ent |-> All(NoEnts), evid |-> All({}), next |-> All(1)]
\* p1 is on the Hub, with its identifiers and a configuration.
HubWithP1 == [EmptyHub EXCEPT !.project[p1] = TRUE, !.code[p1] = c1, !.cfg[p1] = Ent(1)]

EmptyShared == [code |-> All(None), cfg |-> All(NoEnt), hist |-> All(0), pend |-> All({}), rules |-> All(FALSE),
                marker |-> All(None), mpend |-> All(FALSE), ent |-> All(NoEnts), evid |-> All({}), seq |-> All(1)]
SharedWithP1 == [EmptyShared EXCEPT !.code[p1] = c1, !.cfg[p1] = Ent(1), !.hist[p1] = 1]

EmptyReg == [rev |-> 1, entry |-> All(None)]
RegWithP1 == [EmptyReg EXCEPT !.entry[p1] = c1]

QuietLocal == [marker |-> All(None), busy |-> All(FALSE), legacy |-> All(FALSE)]
NoConf == [file |-> All(None), mem |-> All(None)]

Asking(a, b, c) == [i \in MCSlot |-> IF i = s1 THEN a ELSE IF i = s2 THEN b ELSE c]
Ask(kind, h, p, code) == [kind |-> kind, h |-> h, p |-> p, code |-> code, reason |-> "obsolete"]

Base == [asks |-> Asking(None, None, None), hub |-> EmptyHub, reg |-> Each(EmptyReg), conf |-> Each(NoConf),
         shared |-> Each(EmptyShared), local |-> Each(QuietLocal),
         repo |-> Each(All("absent")), relay |-> Each(All("none")),
         static |-> {}, up |-> MCHost, debug |-> MCHost, canon |-> MCHost, left |-> [crashes |-> 0, faults |-> 0, ends |-> 0]]

\* p1 is onboarded on both hosts.
Running == [Base EXCEPT !.hub = HubWithP1, !.reg = Each(RegWithP1), !.shared = Each(SharedWithP1)]

Two == [Base EXCEPT !.asks = Asking(Ask("onboard", h1, p1, c1), Ask("onboard", h1, p2, c2), None)]
Same == [Base EXCEPT !.asks = Asking(Ask("onboard", h1, p1, c1), Ask("onboard", h1, p1, c1), None)]
Admin == [Base EXCEPT !.asks = Asking(Ask("admin", h1, p1, c1), None, Ask("admin", h1, p2, c1)),
                      !.repo[h1][p2] = "empty", !.relay[h1][p2] = "unreachable", !.left.faults = 1]
Unsafe == [Base EXCEPT !.asks = Asking(Ask("admin", h1, p1, c1), None, None), !.repo[h1][p1] = "unsafe"]
Update == [Base EXCEPT !.asks = Asking(Ask("update", h1, p1, c2), Ask("onboard", h1, p2, c2), None), !.hub = HubWithP1,
                       !.conf[h1] = [file |-> Is(p1, c1, None), mem |-> Is(p1, c1, None)],
                       !.shared[h1] = SharedWithP1,
                       !.static = {p1}, !.left.faults = 1, !.left.crashes = 1]
UpdateRefused == [Update EXCEPT !.shared[h1].code[p1] = None, !.shared[h1].cfg[p1] = [rev |-> 1, by |-> h1],
                                !.asks[s2] = None]
Retire == [Running EXCEPT !.asks = Asking(Ask("retire", h1, p1, c1), Ask("config", h1, p1, c1), None),
                          !.left.crashes = 1, !.left.faults = 1]
Elsewhere == [Running EXCEPT !.asks = Asking(Ask("retire", h1, p1, c1), Ask("config", h2, p1, c1), None),
                             !.up = {h1}, !.debug = {h1}, !.canon = {h1}, !.hub.old[p1] = TRUE, !.left.faults = 1]
\* A debug gateway that waits for its migration.
Deferred == [Retire EXCEPT !.canon = {}, !.asks[s2] = None]
Both == [Running EXCEPT !.asks = Asking(Ask("retire", h1, p1, c1), [Ask("retire", h2, p1, c1) EXCEPT !.reason = "moved"], None),
                        !.left.crashes = 1]
Back == [Running EXCEPT !.asks = Asking(Ask("retire", h1, p1, c1), Ask("onboard", h2, p1, c1), None), !.reg[h2] = EmptyReg,
                        !.shared[h2] = EmptyShared]
Again == [Base EXCEPT !.asks = Asking(Ask("retire", h1, p1, c1), Ask("onboard", h2, p1, c1), None), !.reg[h1] = RegWithP1,
                      !.shared[h1] = SharedWithP1]
Busy == [Running EXCEPT !.asks = Asking(Ask("retire", h1, p1, c1), Ask("onboard", h1, p2, c2), None),
                        !.local[h1].busy[p1] = TRUE, !.local[h1].legacy[p1] = TRUE, !.left.ends = 1, !.left.crashes = 1]
\* The Hub has two entities this host does not know in that state; its own
\* edits and creations run beside the restore.
Restored == [Running EXCEPT !.asks = Asking(Ask("onboard", h1, p1, c1), Ask("edit", h1, p1, c1), Ask("create", h1, p1, c1)),
                            !.hub.ent[p1] = [n \in Num |-> IF n = 1 THEN Ent(2) ELSE IF n = 2 THEN Ent(1) ELSE NoEnt],
                            !.hub.evid[p1] = {[kind |-> k, n |-> n, rev |-> 1, by |-> h2] : k \in {"revision"}, n \in {1, 2}}
                                \cup {[kind |-> "event", n |-> 1, rev |-> 2, by |-> h2], [kind |-> "relation", n |-> 2, rev |-> 0, by |-> h2]},
                            !.hub.next[p1] = 2, !.shared[h1].ent[p1][1] = Ent(1), !.shared[h1].seq[p1] = 2,
                            !.left.crashes = 1]
\* Its own entity overtakes the one of the Hub during the restore.
Edited == [Restored EXCEPT !.asks[s3] = Ask("edit", h1, p1, c1), !.left.crashes = 0]
\* A host that has nothing of the project.
Fresh == [Restored EXCEPT !.asks[s2] = Ask("onboard", h1, p1, c1), !.asks[s3] = None, !.shared[h1] = EmptyShared, !.reg[h1] = EmptyReg]

\* The Hub reports an error and the configuration file cannot be restored.
Unrestorable == [Update EXCEPT !.left.faults = 2, !.left.crashes = 0]

\* Two updates on one host: the compensation of one takes back the other in
\* the configuration file.
TwoUpdates == [Base EXCEPT !.asks = Asking(Ask("update", h1, p1, c2), Ask("update", h1, p2, c3), None),
                           !.hub = [HubWithP1 EXCEPT !.project[p2] = TRUE, !.code[p2] = c4, !.cfg[p2] = Ent(1)],
                           !.conf[h1] = [file |-> Is(p1, c1, c4), mem |-> Is(p1, c1, c4)],
                           !.shared[h1] = [SharedWithP1 EXCEPT !.code[p2] = c4, !.cfg[p2] = Ent(1)],
                           !.static = {p1, p2}, !.left.faults = 1]
\* Two updates of one project.
Twice == [Update EXCEPT !.asks[s2] = Ask("update", h1, p1, c3), !.left.crashes = 0]
\* Another host publishes an entity between the snapshots of two restores.
Late == [Fresh EXCEPT !.asks[s3] = Ask("create", h2, p1, c1), !.shared[h2].seq[p1] = 3, !.left.crashes = 0]

MCMixes == {Two, Same, Admin, Unsafe, Update, UpdateRefused, Retire, Elsewhere, Both, Back, Again, Busy, Restored, Edited,
            Fresh, TwoUpdates, Twice, Late, Deferred, Unrestorable}
=============================================================================
