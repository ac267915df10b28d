---------------------------- MODULE MCInspection ----------------------------
(***************************************************************************)
(* Small repositories, lists and logs for Inspection.  Every mix lets some *)
(* operations page while one kind of change goes on around them.           *)
(***************************************************************************)
EXTENDS Inspection

CONSTANTS a, b   \* the callers

File(p, l, n) == [path |-> p, lines |-> l, named |-> n]

\* Two listed paths with a whole scan budget of others between them.
Base == <<File(1, <<TRUE, FALSE, TRUE, TRUE>>, TRUE), File(2, <<FALSE>>, FALSE),
          File(3, <<FALSE>>, FALSE), File(4, <<FALSE>>, FALSE),
          File(5, <<TRUE, TRUE>>, TRUE), File(6, <<TRUE>>, TRUE)>>
\* A commit and a working tree that drop and change paths.
Later == <<File(1, <<TRUE, TRUE>>, TRUE), File(3, <<TRUE>>, TRUE), File(6, <<FALSE>>, TRUE)>>
Draft == <<File(1, <<FALSE, FALSE, TRUE, TRUE, TRUE>>, TRUE), File(5, <<TRUE>>, TRUE)>>

Op(o, l) == [op |-> o, live |-> l]
Still == [edits |-> 0, commits |-> 0, disturbs |-> 0, rows |-> 0, lists |-> 0,
          events |-> 0, restarts |-> 0]

Quiet == [ops |-> (a :> Op("read", FALSE) @@ b :> Op("tree", FALSE)),
          commits |-> <<Base, Later>>, drafts |-> {Draft}, task |-> FALSE, heavy |-> {},
          collide |-> {}, capacity |-> 40,
          rows |-> (1 :> 3 @@ 2 :> 3 @@ 3 :> 3 @@ 4 :> 5 @@ 5 :> 1),
          list |-> <<<<1>>, <<2>>, <<3>>, <<5>>, <<6>>>>,
          lists |-> {<<<<1>>, <<3>>, <<4>>, <<6>>>>, <<<<1>>, <<2>>, <<3>>, <<4>>, <<5>>, <<6>>>>},
          log |-> [f \in 1 .. Retention + 2 |->
                     CASE f = 1 -> <<3, 4>> [] f = 2 -> <<1, 2>> [] OTHER -> <<>>],
          left |-> Still]

Alone(o) == a :> o
Both(o, q) == a :> o @@ b :> q
CodeOps == {"read", "tree", "search", "diff"}

\* One code action, of a commit or live, of a Task or of main, with an edit, a
\* commit, a moved lane or a rebase, and a restart around it.
Around == [Still EXCEPT !.edits = 1, !.commits = 1, !.disturbs = 1, !.restarts = 1]
AloneMixes ==
    {[Quiet EXCEPT !.ops = Alone(Op(o, l)), !.task = t, !.left = Around] :
        o \in CodeOps, l \in BOOLEAN, t \in BOOLEAN}

\* Two code actions that share the table of handles: an item is over the
\* budget, keys share a handle, or the table fills up.
SharedMixes ==
    {[Quiet EXCEPT !.ops = Both(Op(p[1], FALSE), Op(p[2], FALSE)), !.heavy = h, !.collide = c,
                   !.capacity = n] :
        p \in {<<"read", "search">>, <<"tree", "diff">>, <<"search", "search">>},
        h \in {{}, {<<3>>, <<5>>, <<5, 1>>}},
        c \in {{}, {<<1, 3>>, <<5, 1>>, <<3>>, <<2>>}},
        n \in {3, 6, 40}}

\* A list, the worktrees or the log, changing while it is read.
ListMixes ==
    {[Quiet EXCEPT !.ops = Alone(Op(o, FALSE)), !.capacity = n, !.left =
        [Still EXCEPT !.rows = IF o = "worktree" THEN 2 ELSE 0,
                      !.lists = IF o = "list" THEN 2 ELSE 0,
                      !.events = IF o = "log" THEN 3 ELSE 0,
                      !.disturbs = IF o = "worktree" THEN 1 ELSE 0, !.restarts = 1]] :
        o \in {"worktree", "list", "log"}, n \in {1, 40}}

MCMixes == AloneMixes \cup SharedMixes \cup ListMixes
=============================================================================
