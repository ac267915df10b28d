----------------------------- MODULE Inspection -----------------------------
(***************************************************************************)
(* Reading a project page by page: the code actions (CodeRead, CodeTree,   *)
(* CodeSearch, CodeDiff, CodeWorktree), the lists that go through          *)
(* pagination.Page, and the runtime log.  A reply carries as many items as *)
(* the token budget admits and, when more are left, a cursor; the caller   *)
(* sends the cursor back until a reply has none.  A cursor is a short      *)
(* handle kept in a table of the process (internal/pagination): the table  *)
(* is bounded, two keys may share a handle, and a restart empties it.      *)
(* Between two requests the worktree is edited, commits move its HEAD,     *)
(* Task executions change, and the log grows and rotates.                  *)
(*                                                                         *)
(* An item is a tuple of numbers (a line, a path, a path and a line, a     *)
(* time and a row); every item costs one unit of the budget, unless it is  *)
(* one of mix.heavy, which no page holds.                                  *)
(***************************************************************************)
EXTENDS Naturals, Sequences, FiniteSets, FiniteSetsExt, SequencesExt

CONSTANTS None,
          Walkers,     \* callers that read page by page
          Budget,      \* CodePageTokenBudget, in items
          Lookahead,   \* LocalCodeScanLookahead
          RowLimit,    \* TaskExecutionStatePageMaxRows, and the limit of a list
          Retention,   \* rotated log files that are read
          FileLimit,   \* events one log file holds
          Mixes

VARIABLES mix,     \* repository, rows and requests of this behaviour
          reg,     \* compactHandles
          wt,      \* the inspected worktree
          rows,    \* Task execution states of the project: id -> time of update
          list,    \* the items of a list that is not pinned to a commit
          log,     \* the log files, newest first, the current one at 1
          rot,     \* the file rotateIfNeeded renames next; 0 when at rest
          walk,    \* the callers
          left     \* changes and restarts still to come

vars == <<mix, reg, wt, rows, list, log, rot, walk, left>>

-----------------------------------------------------------------------------
(* internal/pagination: handles for continuation keys.                      *)

NoHandles == [values |-> {}, ambiguous |-> {}, issued |-> 0]

\* Two different keys of one kind may hash to the same handle.
compactEncode(key) == IF key \in mix.collide THEN <<>> ELSE key

\* The outcome of issuing a handle: the table afterwards, and whether there is
\* one.  A key that meets another one makes the handle ambiguous for both; a
\* full table issues no new handle.
EncodeServerCursor(r, kind, key) ==
    LET name == [kind |-> kind, handle |-> compactEncode(key)]
        here == [kind |-> kind, key |-> key]
        clash == {v \in r.values : /\ v.kind = kind /\ v.key # key
                                   /\ compactEncode(v.key) = compactEncode(key)}
    IN CASE name \in r.ambiguous -> [reg |-> r, ok |-> FALSE]
         [] name \notin r.ambiguous /\ clash # {} ->
              [reg |-> [r EXCEPT !.values = @ \ clash,
                                 !.ambiguous = @ \cup {name}], ok |-> FALSE]
         [] name \notin r.ambiguous /\ clash = {} /\ here \in r.values ->
              [reg |-> r, ok |-> TRUE]
         [] OTHER ->
              IF r.issued >= mix.capacity THEN [reg |-> r, ok |-> FALSE]
              ELSE [reg |-> [r EXCEPT !.values = @ \cup {here}, !.issued = @ + 1],
                    ok |-> TRUE]

\* A handle resolves only under the kind it was issued for.
ResolveServerCursor(r, cursor, kind) ==
    cursor.kind = kind /\ cursor \in r.values

-----------------------------------------------------------------------------
(* What a request reads.                                                    *)

\* The project, worktree, HEAD and arguments a continuation is bound to.
codeCursorKind(w) == <<walk[w].op, wt.head, wt.rebase, walk[w].live>>
ListKind(w) == <<walk[w].op, 0, FALSE, FALSE>>

\* The refusals of a Task worktree's selector: HEAD or branch moved on,
\* a submitted head is not the remote one, an unfinished rebase or a dirty
\* worktree is only shown live.
resolveExactTaskCodeTarget(w) ==
    /\ wt.head = walk[w].head
    /\ wt.remote
    /\ wt.rebase => walk[w].live
    /\ wt.dirty => walk[w].live

\* The main worktree is on its branch, and at the canonical head.
codeWorktreeCandidateSource == mix.task \/ (~wt.rebase /\ wt.remote)

\* The main worktree: on its branch, at the selector's head, and clean; a live
\* observation instead requires the canonical head.
resolveCleanMainCodeTarget(w) ==
    /\ wt.head = walk[w].head
    /\ ~wt.rebase
    /\ IF walk[w].live THEN codeWorktreeCandidateSource ELSE ~wt.dirty

resolveLocalCodeTarget(w) ==
    IF mix.task THEN resolveExactTaskCodeTarget(w) ELSE resolveCleanMainCodeTarget(w)

\* A live target is read from the working tree, any other from its commit.
Files(w) == IF walk[w].live THEN wt.files ELSE mix.commits[wt.head]

Flat(seqs) == FlattenSeq(seqs)
MatchesOf(f) == [i \in 1 .. Len(f.lines) |-> <<f.path, i>>]

\* The complete listing of an operation over files.
ReadItems(files) == [i \in 1 .. Len(files[1].lines) |-> <<i>>]
TreeItems(files) == Flat([k \in 1 .. Len(files) |->
                             IF files[k].named THEN <<<<files[k].path>>>> ELSE <<>>])
MatchLine(files, item) ==
    \E k \in 1 .. Len(files) : files[k].path = item[1] /\ files[k].lines[item[2]]
SearchItems(files) ==
    SelectSeq(Flat([k \in 1 .. Len(files) |-> MatchesOf(files[k])]),
              LAMBDA it : MatchLine(files, it))
DiffItems(files) == [i \in 1 .. Len(Flat([k \in 1 .. Len(files) |-> files[k].lines])) |->
                        <<i - 1>>]

-----------------------------------------------------------------------------
(* Fitting a page into the token budget.                                    *)

codePageFits(items, cursor) ==
    /\ \A i \in 1 .. Len(items) : items[i] \notin mix.heavy
    /\ Len(items) + (IF cursor THEN 1 ELSE 0) <= Budget

\* The key that continues after an item: a read or a diff continues
\* at the next line.
KeyAfter(op, item) == IF op \in {"read", "diff"} THEN <<item[1] + 1>> ELSE item

\* What continues after all the items: nothing, or a key already issued.
NoTail == [key |-> None, ok |-> FALSE]

\* The cursor for a page of the first k items.
PageCursor(r, kind, op, items, k, tail) ==
    IF k < Len(items) THEN EncodeServerCursor(r, kind, KeyAfter(op, items[k]))
    ELSE [reg |-> r, ok |-> tail.ok]

\* Binary search for the longest page that fits; every probe issues a cursor.
\* After Len(items) probes the interval is empty.
largestCodePageSize(r, kind, op, items, tail) ==
    LET probe[i \in 0 .. Len(items)] ==
          IF i = 0 THEN [reg |-> r, low |-> 1, high |-> Len(items), best |-> 0]
          ELSE LET s == probe[i - 1]
                   middle == s.low + (s.high - s.low) \div 2
                   c == PageCursor(s.reg, kind, op, items, middle, tail)
               IN IF s.low > s.high THEN s
                  ELSE IF codePageFits(SubSeq(items, 1, middle), c.ok)
                  THEN [s EXCEPT !.reg = c.reg, !.best = middle, !.low = middle + 1]
                  ELSE [s EXCEPT !.reg = c.reg, !.high = middle - 1]
    IN probe[Len(items)]

\* A reply: what it carries, where it continues, whether it is an error, and
\* whether a cursor it needed was refused.
Reply(items, next, r, ok, refused) ==
    [items |-> items, next |-> next, reg |-> r, ok |-> ok, refused |-> refused]
Refusal(r) == Reply(<<>>, None, r, FALSE, FALSE)

\* The page that ends at item k.
PageAt(r, kind, op, items, k, tail) ==
    LET key == IF k < Len(items) THEN KeyAfter(op, items[k]) ELSE tail.key
        c == PageCursor(r, kind, op, items, k, tail)
    IN Reply(SubSeq(items, 1, k), IF c.ok THEN [kind |-> kind, key |-> key] ELSE None,
             c.reg, TRUE, key # None /\ ~c.ok)

\* A streamed page: every item offered issues its own cursor; the first that
\* does not fit with it ends the page.
StreamPage(r, kind, op, items) ==
    LET offer[i \in 0 .. Len(items)] ==
          IF i = 0 THEN [reg |-> r, k |-> 0, full |-> FALSE]
          ELSE LET s == offer[i - 1]
                   c == EncodeServerCursor(s.reg, kind, KeyAfter(op, items[i]))
               IN IF s.full THEN s
                  ELSE IF codePageFits(SubSeq(items, 1, i), c.ok)
                  THEN [reg |-> c.reg, k |-> i, full |-> FALSE]
                  ELSE [s EXCEPT !.reg = c.reg, !.full = TRUE]
    IN offer[Len(items)]

CodeRead(w, kind) ==
    LET all == ReadItems(Files(w))
        start == IF walk[w].cursor = None THEN 1 ELSE walk[w].cursor.key[1]
        items == SubSeq(all, start, Len(all))
        fit == largestCodePageSize(reg, kind, "read", items, NoTail)
    IN IF start > Len(all) \/ fit.best = 0 THEN Refusal(fit.reg)
       ELSE PageAt(fit.reg, kind, "read", items, fit.best, NoTail)

\* The walk goes to the cursor's path without counting; the scan budget
\* counts the paths after it.  0 when that path is gone.
ScanStart(files, cursor) ==
    IF cursor = None THEN 1
    ELSE LET at == {k \in 1 .. Len(files) : files[k].path = cursor.key[1]}
         IN IF at = {} THEN 0 ELSE Min(at) + 1
ScanEnd(files, start) == Min({Len(files), start + Lookahead - 1})
ScanLimit(files, start) == start + Lookahead - 1 <= Len(files)

\* Mutant: only a path that is listed is remembered.
LastListedPath(files, start) ==
    LET listed == {k \in start .. ScanEnd(files, start) : files[k].named}
    IN files[IF listed # {} THEN Max(listed) ELSE Max({1, start - 1})].path

\* The path the scan budget ended at.
lastScannedPath(files, start) == files[ScanEnd(files, start)].path

\* The continuation of a scan that used its budget, issued at once.
ScanTail(kind, files, start, key) ==
    IF ~ScanLimit(files, start) THEN [reg |-> reg, tail |-> NoTail]
    ELSE LET c == EncodeServerCursor(reg, kind, key)
         IN [reg |-> c.reg, tail |-> [key |-> key, ok |-> c.ok]]

\* The size is chosen as if no scan cursor followed the last path.
CodeTree(w, kind) ==
    LET files == Files(w)
        start == ScanStart(files, walk[w].cursor)
        items == TreeItems(SubSeq(files, start, ScanEnd(files, start)))
        scan == ScanTail(kind, files, start, <<lastScannedPath(files, start)>>)
        fit == largestCodePageSize(scan.reg, kind, "tree", items, NoTail)
    IN IF start = 0 THEN Refusal(reg)
       ELSE IF items # <<>> /\ fit.best = 0 THEN Refusal(fit.reg)
       ELSE PageAt(fit.reg, kind, "tree", items, fit.best, scan.tail)

\* The matches left in the cursor's own path; a cursor that stands on a line
\* must find that line matching.
RestOfPath(files, cursor) ==
    IF cursor = None \/ cursor.key[2] = 0 THEN <<>>
    ELSE SelectSeq(SearchItems(files), LAMBDA it : it[1] = cursor.key[1] /\ it[2] > cursor.key[2])
LineGone(files, cursor) ==
    IF cursor = None \/ cursor.key[2] = 0 THEN FALSE
    ELSE \A k \in 1 .. Len(SearchItems(files)) : SearchItems(files)[k] # cursor.key

\* Matches are taken while they fit without a cursor; then the page is trimmed
\* until it fits with the one it needs.
CodeSearch(w, kind) ==
    LET files == Files(w)
        start == ScanStart(files, walk[w].cursor)
        found == RestOfPath(files, walk[w].cursor)
                   \o SearchItems(SubSeq(files, start, ScanEnd(files, start)))
        taken == Max({0} \cup {k \in 1 .. Len(found) : codePageFits(SubSeq(found, 1, k), FALSE)})
        items == SubSeq(found, 1, taken)
        scan == IF taken = Len(found)
                THEN ScanTail(kind, files, start, <<lastScannedPath(files, start), 0>>)
                ELSE LET c == EncodeServerCursor(reg, kind, items[taken])
                     IN [reg |-> c.reg, tail |-> [key |-> items[taken], ok |-> c.ok]]
        fit == largestCodePageSize(scan.reg, kind, "search", items, scan.tail)
    IN IF start = 0 \/ LineGone(files, walk[w].cursor) \/ (found # <<>> /\ taken = 0)
       THEN Refusal(reg)
       ELSE IF items # <<>> /\ fit.best = 0 THEN Refusal(fit.reg)
       ELSE PageAt(fit.reg, kind, "search", items, fit.best, scan.tail)

\* Mutant: the next page starts one line further.
DiffSkipsLine(items, k) == <<items[k][1] + 2>>

\* The offset of the line that did not fit.
NextOffset(items, k) == <<items[k][1] + 1>>

CodeDiff(w, kind) ==
    LET all == DiffItems(Files(w))
        offset == IF walk[w].cursor = None THEN 0 ELSE walk[w].cursor.key[1]
        items == SubSeq(all, offset + 1, Len(all))
        page == StreamPage(reg, kind, "diff", items)
        next == NextOffset(items, page.k)
        c == EncodeServerCursor(page.reg, kind, next)
    IN CASE offset > Len(all) \/ (page.full /\ page.k = 0) -> Refusal(page.reg)
         [] offset <= Len(all) /\ ~page.full -> Reply(items, None, page.reg, TRUE, FALSE)
         [] OTHER -> Reply(SubSeq(items, 1, page.k),
                           IF c.ok THEN [kind |-> kind, key |-> next] ELSE None,
                           c.reg, TRUE, ~c.ok)

-----------------------------------------------------------------------------
(* Lists that are not pinned to a commit.                                   *)

\* Nonterminal Task executions, newest first.
RowItems ==
    LET items == {<<rows[i], i>> : i \in DOMAIN rows}
        newer(it) == {o \in items : o[1] > it[1] \/ (o[1] = it[1] /\ o[2] > it[2])}
    IN [k \in 1 .. Cardinality(items) |-> CHOOSE it \in items : Cardinality(newer(it)) = k - 1]

\* Mutant: rows updated at the same time as the cursor's row are left out.
RowsOlderThan(key) == SelectSeq(RowItems, LAMBDA it : it[1] < key[1])

\* The rows after the cursor's row.
RowsAfter(key) == SelectSeq(RowItems, LAMBDA it :
                      it[1] < key[1] \/ (it[1] = key[1] /\ it[2] < key[2]))

\* The rest of the rows, all of them or at most RowLimit.
RowsFrom(cursor) == IF cursor = None THEN RowItems ELSE RowsAfter(cursor.key)
ListTaskExecutionStatesPage(cursor) ==
    SubSeq(RowsFrom(cursor), 1, Min({RowLimit, Len(RowsFrom(cursor))}))

\* The main worktree, then one page of the rows; a page that is full, by
\* budget or by rows, continues after its last item.  The cursor's row must
\* still stand where it stood.
CodeWorktree(w, kind) ==
    LET cursor == walk[w].cursor
        main == <<0, 0>>
        after == IF cursor = None THEN None ELSE IF cursor.key = main THEN None ELSE cursor
        found == (IF cursor = None THEN <<main>> ELSE <<>>) \o ListTaskExecutionStatesPage(after)
        page == StreamPage(reg, kind, "worktree", found)
        c == EncodeServerCursor(page.reg, kind, found[page.k])
    IN IF ~codeWorktreeCandidateSource THEN Refusal(reg)
       ELSE IF after # None /\ ~Contains(RowItems, cursor.key) THEN Refusal(reg)
       ELSE IF page.full /\ page.k = 0 THEN Refusal(page.reg)
       ELSE IF ~page.full /\ Len(RowsFrom(after)) <= RowLimit
            THEN Reply(found, None, page.reg, TRUE, FALSE)
       ELSE Reply(SubSeq(found, 1, page.k),
                  IF c.ok THEN [kind |-> kind, key |-> found[page.k]] ELSE None,
                  c.reg, TRUE, ~c.ok)

\* pagination.Page: the cursor's item must still be there; a page whose cursor
\* cannot be issued is an error.
Page(w, kind, items) ==
    LET cursor == walk[w].cursor
        start == IF cursor = None THEN 1
                 ELSE 1 + Max({0} \cup {i \in 1 .. Len(items) : items[i] = cursor.key})
        end == Min({Len(items), start + RowLimit - 1})
        c == EncodeServerCursor(reg, kind, items[end])
    IN CASE cursor # None /\ start = 1 -> Refusal(reg)
         [] end = Len(items) -> Reply(SubSeq(items, start, end), None, reg, TRUE, FALSE)
         [] OTHER -> IF c.ok THEN Reply(SubSeq(items, start, end),
                                        [kind |-> kind, key |-> items[end]], c.reg, TRUE, FALSE)
                     ELSE Refusal(c.reg)

-----------------------------------------------------------------------------
(* The callers.                                                             *)

Fresh(w) == [op |-> mix.ops[w].op, live |-> mix.ops[w].live, head |-> 0, cursor |-> None,
             got |-> <<>>, st |-> "idle", refused |-> FALSE, kept |-> {}, buf |-> <<>>, rank |-> 0,
             odd |-> FALSE]   \* parity of the answers: an answer is always a step

Init == /\ mix \in Mixes
        /\ reg = NoHandles
        /\ wt = [head |-> 1, dirty |-> FALSE, rebase |-> FALSE, remote |-> TRUE,
                 files |-> mix.commits[1]]
        /\ rows = mix.rows /\ list = mix.list /\ log = mix.log /\ rot = 0
        /\ walk = [w \in DOMAIN mix.ops |-> Fresh(w)]
        /\ left = mix.left

\* What a list that changes under its reader has at some moment.
Present(op, r, l, g) ==
    CASE op = "worktree" -> {<<0, 0>>} \cup {<<r[i], i>> : i \in DOMAIN r}
      [] op = "list" -> ToSet(l)
      [] op = "log" -> {<<e>> : e \in UNION {ToSet(g[f]) : f \in 1 .. Retention + 1}}
      [] OTHER -> {}

\* What every reader still has to see after a change (history of the callers).
Witness == walk' = [w \in DOMAIN walk |->
    IF walk[w].st \in {"run", "scan"}
    THEN [walk[w] EXCEPT !.kept = @ \cap Present(walk[w].op, rows', list', log')]
    ELSE walk[w]]

\* The caller takes the worktree's current selector and starts.
Begin(w) ==
    /\ walk[w].st = "idle"
    /\ walk' = [walk EXCEPT ![w].st = IF walk[w].op = "log" THEN "scan" ELSE "run",
                            ![w].head = wt.head, ![w].kept = Present(walk[w].op, rows, list, log)]
    /\ UNCHANGED <<mix, reg, wt, rows, list, log, rot, left>>

\* The caller takes a reply and goes on with its cursor.
Receive(w, reply) ==
    /\ reg' = reply.reg
    /\ walk' = [walk EXCEPT
           ![w].st = IF ~reply.ok THEN "failed" ELSE IF reply.next = None THEN "done"
                     ELSE IF walk[w].op = "log" THEN "scan" ELSE "run",
           ![w].got = @ \o reply.items, ![w].cursor = reply.next,
           ![w].refused = @ \/ reply.refused, ![w].buf = <<>>, ![w].rank = 0, ![w].odd = ~@]
    /\ UNCHANGED <<mix, wt, rows, list, log, rot, left>>

Resolves(w, kind) ==
    walk[w].cursor # None => ResolveServerCursor(reg, walk[w].cursor, kind)

\* One request of a code action.
Inspect(w) ==
    /\ walk[w].st = "run" /\ walk[w].op \in {"read", "tree", "search", "diff"}
    /\ LET kind == codeCursorKind(w)
       IN Receive(w, IF ~resolveLocalCodeTarget(w) \/ ~Resolves(w, kind) THEN Refusal(reg)
                  ELSE CASE walk[w].op = "read" -> CodeRead(w, kind)
                         [] walk[w].op = "tree" -> CodeTree(w, kind)
                         [] walk[w].op = "search" -> CodeSearch(w, kind)
                         [] walk[w].op = "diff" -> CodeDiff(w, kind))

ListRequest(w) ==
    /\ walk[w].st = "run" /\ walk[w].op \in {"worktree", "list"}
    /\ Receive(w, IF ~Resolves(w, ListKind(w)) THEN Refusal(reg)
               ELSE IF walk[w].op = "worktree" THEN CodeWorktree(w, ListKind(w))
               ELSE Page(w, ListKind(w), list))

\* Store.Read takes no lock: it reads one file after the other, the current
\* one first, while an append may rotate them.
ScanLogFile(w) ==
    /\ walk[w].st = "scan" /\ walk[w].rank <= Retention
    /\ LET f == walk[w].rank + 1
       IN walk' = [walk EXCEPT ![w].rank = f,
              ![w].buf = @ \o [i \in 1 .. Len(log[f]) |-> <<log[f][i], walk[w].rank, i>>]]
    /\ UNCHANGED <<mix, reg, wt, rows, list, log, rot, left>>

\* Newest first; a key is the event's time, its file and its line.
SortedEntries(w) ==
    SortSeq(walk[w].buf, LAMBDA a, b : a[1] > b[1] \/ (a[1] = b[1] /\ a[2] < b[2]))

ReadLog(w) ==
    /\ walk[w].st = "scan" /\ walk[w].rank > Retention
    /\ LET reply == Page(w, ListKind(w), SortedEntries(w))
       IN Receive(w, IF ~Resolves(w, ListKind(w)) THEN Refusal(reg)
                  ELSE [reply EXCEPT !.items = [i \in 1 .. Len(reply.items) |->
                                                   <<reply.items[i][1]>>]])

-----------------------------------------------------------------------------
(* What changes between requests.                                           *)

Spend(what) == left[what] > 0 /\ left' = [left EXCEPT ![what] = @ - 1]

\* A working tree edit, a commit, a rebase that starts, a remote lane that
\* moves, a Task execution that is updated or closed, a list that changes.
Edit == /\ Spend("edits") /\ \E f \in mix.drafts : wt' = [wt EXCEPT !.files = f, !.dirty = TRUE]
        /\ UNCHANGED <<mix, reg, rows, list, log, rot, walk>>
CommitHead == /\ Spend("commits") /\ wt.head < Len(mix.commits) /\ ~wt.rebase
              /\ wt' = [wt EXCEPT !.head = @ + 1, !.files = mix.commits[wt.head + 1],
                                  !.dirty = FALSE]
              /\ UNCHANGED <<mix, reg, rows, list, log, rot, walk>>
Disturb == /\ Spend("disturbs")
           /\ \E r, m \in BOOLEAN : wt' = [wt EXCEPT !.rebase = r, !.remote = m]
           /\ UNCHANGED <<mix, reg, rows, list, log, rot, walk>>
RowChanges ==
    /\ Spend("rows")
    /\ \E i \in DOMAIN rows :
          \/ rows' = [rows EXCEPT ![i] = 1 + Max({rows[j] : j \in DOMAIN rows})]
          \/ rows' = [j \in DOMAIN rows \ {i} |-> rows[j]]
    /\ UNCHANGED <<mix, reg, wt, list, log, rot>> /\ Witness
ListChanges ==
    /\ Spend("lists")
    /\ \E n \in mix.lists : list' = n
    /\ UNCHANGED <<mix, reg, wt, rows, log, rot>> /\ Witness

\* Store.Append under the runtime-log lock: a full current file is rotated
\* first, one rename after the other from the oldest.
rotateIfNeeded ==
    IF rot = 0
    THEN /\ Len(log[1]) >= FileLimit /\ left["events"] > 0 /\ rot' = Retention + 1
         /\ UNCHANGED log
    ELSE /\ rot' = rot - 1
         /\ log' = [log EXCEPT ![rot + 1] = log[rot], ![rot] = <<>>]

Rotate == rotateIfNeeded /\ UNCHANGED <<rows, list>> /\ Witness /\ UNCHANGED <<mix, reg, wt, left>>

Append1 == /\ rot = 0 /\ Len(log[1]) < FileLimit /\ Spend("events")
           /\ log' = [log EXCEPT ![1] = Append(@, 1 + Max({0} \cup UNION {ToSet(log[f]) :
                                                             f \in DOMAIN log}))]
           /\ UNCHANGED <<mix, reg, wt, rows, list, rot, walk>>

\* A restart empties the table; what a request was reading is lost.
Restart == /\ Spend("restarts") /\ reg' = NoHandles
           /\ walk' = [w \in DOMAIN walk |-> IF walk[w].st = "scan"
                                         THEN [walk[w] EXCEPT !.buf = <<>>, !.rank = 0]
                                         ELSE walk[w]]
           /\ rot' = 0
           /\ UNCHANGED <<mix, wt, rows, list, log>>

Request(w) == Inspect(w) \/ ListRequest(w) \/ ScanLogFile(w) \/ ReadLog(w)

Next == \/ \E w \in DOMAIN walk : Begin(w) \/ Request(w)
        \/ Edit \/ CommitHead \/ Disturb \/ RowChanges \/ ListChanges
        \/ Rotate \/ Append1 \/ Restart

At(w, states) == w \in DOMAIN walk /\ walk[w].st \in states

\* A caller that has started goes on, and the gateway answers: weak fairness of
\* Request(w), which is enabled exactly while the caller runs or scans.
Answered(w) == []<>~At(w, {"run", "scan"}) \/ []<><<w \in DOMAIN walk /\ Request(w)>>_vars

Spec == Init /\ [][Next]_vars /\ \A w \in Walkers : Answered(w)

-----------------------------------------------------------------------------
(* Properties.                                                              *)

Reference(w) ==
    LET files == mix.commits[walk[w].head]
    IN CASE walk[w].op = "read" -> ReadItems(files)
         [] walk[w].op = "tree" -> TreeItems(files)
         [] walk[w].op = "search" -> SearchItems(files)
         [] OTHER -> DiffItems(files)

\* A caller that pages through CodeRead, CodeTree, CodeSearch or CodeDiff of a
\* commit has, at every moment, the beginning of the one listing of the commit
\* it started at, with no line twice and none left out, although every page is
\* cut by the token budget, the scan budget and the cost of its own cursor,
\* and although commits and edits happen in between; when the last page has no
\* cursor the listing is complete, or a cursor it needed was not issued.
ExactListing ==
    \A w \in DOMAIN walk :
        (walk[w].op \in {"read", "tree", "search", "diff"} /\ ~walk[w].live /\ walk[w].st # "idle") =>
            /\ IsPrefix(walk[w].got, Reference(w))
            /\ (walk[w].st = "done" /\ ~walk[w].refused) => walk[w].got = Reference(w)

\* A caller that pages through the worktrees, a list or the log while rows are
\* updated and removed and log files rotate gets, when the last page came,
\* every entry that was there from its first request to its last, and no row
\* of the worktrees or of a list twice.
StableSeen ==
    \A w \in DOMAIN walk :
        (walk[w].op \in {"worktree", "list", "log"} /\ walk[w].st = "done" /\ ~walk[w].refused) =>
            /\ walk[w].kept \subseteq ToSet(walk[w].got)
            /\ walk[w].op # "log" => IsInjective(walk[w].got)

\* Every walk ends: no page repeats the cursor it was asked with, even when a
\* whole scan budget passes without anything to list.
WalksEnd ==
    \A w \in Walkers : At(w, {"run", "scan"}) ~> At(w, {"done", "failed"})
=============================================================================
