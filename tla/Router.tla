-------------------------------- MODULE Router --------------------------------
(***************************************************************************)
(* controller/router.go: the routes file is read when the process starts,  *)
(* each line is checked and put into a tree by method and path; then each  *)
(* request is matched with the tree.  Names are taken up to case, as the   *)
(* code takes them.                                                        *)
(*                                                                         *)
(* An element of a path, or a part of an action, is a pair: "=" and a text *)
(* of its own, or ":" or "*" and the name of a wildcard.  A line has a     *)
(* method, a path, whether that begins with a slash, and an action, split  *)
(* at its dots; <<>> stands for the action 404.                            *)
(***************************************************************************)
EXTENDS Integers, SequencesExt

CONSTANTS
    Controllers,    \* the actions of each controller registered
    RoutesFiles,    \* what conf/routes may hold: sequences of lines
    Requests        \* [method, override, path]

\* a line that cannot match and says 404 is left out
ASSUME RouterAssumption ==
    \A f \in RoutesFiles : \A i \in DOMAIN f :
        f[i].absolute \/ f[i].action # <<>>

VARIABLES
    routes,     \* MainRouter.Routes: the lines of the file
    tree,       \* MainRouter.Tree: its leaves in the order they were added
    request,
    match       \* what RouterFilter makes of it

routerVars == <<routes, tree, request, match>>

Unmatched == [outcome |-> "none"]
RouterInit == routes = <<>> /\ tree = <<>> /\ request = <<>> /\ match = Unmatched

-----------------------------------------------------------------------------
(* The start of the process *)

treePath(method, path) ==
    <<IF method = "*" THEN <<":", "METHOD">> ELSE <<"=", method>>>> \o path

\* NewRoute panics if not, and validateRoute if a path is not absolute
splitActionPath(action) ==
    /\ Len(action) = 2 /\ action[1][1] = "="
    /\ action[1][2] \in DOMAIN Controllers

validateRoute(line) ==
    \/ line.action[2][1] = ":"
    \/ line.action[2][2] \in Controllers[line.action[1][2]]

Sound(line) ==
    line.action # <<>> =>
        splitActionPath(line.action) /\ line.absolute /\ validateRoute(line)

\* the routes of each tree path, in the order of their first lines
pathMap(lines) ==
    FoldLeft(LAMBDA groups, line :
                 LET p == treePath(line.method, line.path)
                     same == {i \in DOMAIN groups : groups[i].path = p}
                 IN  IF same = {} THEN Append(groups, [path |-> p, list |-> <<line>>])
                     ELSE [i \in DOMAIN groups |->
                              IF i \in same
                              THEN [groups[i] EXCEPT !.list = Append(@, line)]
                              ELSE groups[i]],
             <<>>, lines)

\* pathtree: the name of a wildcard is not part of its place in the tree, and
\* nothing comes after a star
Stars(path) == {i \in DOMAIN path : path[i][1] = "*"}
ToStar(path) == LET n == CHOOSE i \in Stars(path) : \A j \in Stars(path) : i <= j
                IN  IF Stars(path) = {} THEN path ELSE SubSeq(path, 1, n)
Place(path) == [i \in DOMAIN ToStar(path) |->
                   IF path[i][1] = "=" THEN path[i] ELSE <<path[i][1], "">>]

Add(t, path, list) ==
    IF ~t.ok \/ \E i \in DOMAIN t.leaves : Place(t.leaves[i].path) = Place(path)
    THEN [t EXCEPT !.ok = FALSE]    \* duplicate path
    ELSE [t EXCEPT !.leaves = Append(@, [path |-> path, list |-> list])]

NoHead(line) == FALSE       \* mutant: no leaf for HEAD
AnswersHead(line) == line.method = "GET"

updateTree(lines) ==
    FoldLeft(LAMBDA t, group :
                 LET first == Head(group.list)
                     t1 == Add(t, group.path, group.list)
                 IN  IF AnswersHead(first)
                     THEN Add(t1, treePath("HEAD", first.path), group.list)
                     ELSE t1,
             [ok |-> TRUE, leaves |-> <<>>], pathMap(lines))

\* whatever fails ends the process
Starts(lines) == (\A i \in DOMAIN lines : Sound(lines[i])) /\ updateTree(lines).ok

Refresh ==
    \E file \in RoutesFiles :
        /\ routes' = file
        /\ IF Starts(file)
           THEN tree' = updateTree(file).leaves /\ match' = match
           ELSE tree' = tree /\ match' = [outcome |-> "crashed"]
        /\ UNCHANGED request

-----------------------------------------------------------------------------
(* A request *)

\* pathtree: the leaf that was added first of those that fit
Fits(path, elements) ==
    LET p == ToStar(path)
    IN  /\ IF Stars(path) = {} THEN Len(p) = Len(elements)
           ELSE Len(p) <= Len(elements)
        /\ \A i \in DOMAIN p : p[i][1] = "=" => p[i][2] = elements[i]

Find(elements) ==
    LET fit == {i \in DOMAIN tree : Fits(tree[i].path, elements)}
    IN  IF fit = {} THEN {} ELSE {CHOOSE i \in fit : \A j \in fit : i <= j}

\* the values of a wildcard: none, or one; a name given twice has the later
Params(path, elements, name) ==
    LET p == ToStar(path)
        at == {i \in DOMAIN p : p[i][1] # "=" /\ p[i][2] = name}
        n == CHOOSE i \in at : \A j \in at : j <= i
    IN  IF at = {} THEN {}
        ELSE {IF p[n][1] = "*" /\ n < Len(elements) THEN "several" ELSE elements[n]}

LastOf(list) == Last(list)      \* mutant: a later line replaces an earlier one
FirstOfList(list) == Head(list)

NotFound == [outcome |-> "missing"]

\* RouterFilter calls SetTypeAction
SetTypeAction(controller, names) ==
    IF names = {} THEN [outcome |-> "panic"]
    ELSE LET name == CHOOSE n \in names : TRUE
         IN  IF name \in Controllers[controller]
             THEN [outcome |-> "found", controller |-> controller, method |-> name]
             ELSE NotFound

Overridden(r) == IF r.method = "POST" /\ r.override # "" THEN r.override ELSE r.method

MatchOf(r) ==
    LET elements == <<Overridden(r)>> \o r.path
    IN  IF Find(elements) = {} THEN NotFound
        ELSE LET leaf == tree[CHOOSE i \in Find(elements) : TRUE]
                 route == FirstOfList(leaf.list)
             IN  IF route.action = <<>> THEN NotFound
                 ELSE SetTypeAction(route.action[1][2],
                        IF route.action[2][1] = "=" THEN {route.action[2][2]}
                        ELSE Params(leaf.path, elements, route.action[2][2]))

Route ==
    \E r \in Requests :
        /\ request' = r
        /\ match' = MatchOf(r)
        /\ UNCHANGED <<routes, tree>>

-----------------------------------------------------------------------------
\* what a reader of the file expects of a line
Handles(line, r) ==
    /\ line.method \in {"*", Overridden(r)}
       \/ (line.method = "GET" /\ Overridden(r) = "HEAD")
    /\ Fits(line.path, r.path)

(***************************************************************************)
(* A request is for the first line of the file that has its method and     *)
(* path, whatever the tree makes of the lines: two lines of one path, a    *)
(* wildcard before a text or after it, any method before one, and GET for  *)
(* HEAD.  A line without a wildcard for its action leads to that action:   *)
(* no request is the first to find that it does not exist.  A match panics *)
(* only if the action is a wildcard that the path of the line has not.     *)
(***************************************************************************)
FirstLineWins ==
    request # <<>> =>
      LET lines == {i \in DOMAIN routes : Handles(routes[i], request)}
          line == routes[CHOOSE i \in lines : \A j \in lines : i <= j]
      IN  IF lines = {} \/ (lines # {} /\ line.action = <<>>) THEN match = NotFound
          ELSE /\ line.action[2][1] = "=" =>
                    match = [outcome |-> "found", controller |-> line.action[1][2],
                             method |-> line.action[2][2]]
               /\ match.outcome = "panic" <=>
                    /\ line.action[2][1] = ":"
                    /\ \A i \in DOMAIN line.path :
                          line.path[i][1] = "=" \/ line.path[i][2] # line.action[2][2]
               /\ match.outcome = "found" => match.controller = line.action[1][2]

\* lines of different tree paths that come to one place, or GET's for HEAD does
Clash(a, b) ==
    \E m \in {a.method} \cup (IF a.method = "GET" THEN {"HEAD"} ELSE {}),
       n \in {b.method} \cup (IF b.method = "GET" THEN {"HEAD"} ELSE {}) :
        /\ Place(treePath(m, a.path)) = Place(treePath(n, b.path))
        /\ treePath(a.method, a.path) # treePath(b.method, b.path)

(***************************************************************************)
(* Two sound lines keep the process from starting just when they have one  *)
(* path but for the names of its wildcards, or are for GET and HEAD of one *)
(* path: a file with both is refused although HEAD has a line of its own.  *)
(***************************************************************************)
StartCauses ==
    /\ match.outcome = "crashed" =>
          \/ \E i \in DOMAIN routes : ~Sound(routes[i])
          \/ \E i, j \in DOMAIN routes : Clash(routes[i], routes[j])
    /\ tree # <<>> =>
          ~ \E i, j \in DOMAIN routes : Clash(routes[i], routes[j])
=============================================================================
