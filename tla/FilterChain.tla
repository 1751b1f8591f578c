----------------------------- MODULE FilterChain -----------------------------
(***************************************************************************)
(* One request in the controller pipeline: handleInternal (server.go) runs *)
(* the filters PanicFilter, RouterFilter, ParamsFilter, InterceptorFilter  *)
(* and ActionInvoker, each inside the one before it, and then applies the  *)
(* result that is left.  Interceptors, the action and the binders of its   *)
(* arguments are application code: each may set Response.Status, may make  *)
(* a Result, which sets the status as well, and may panic.  A panic goes   *)
(* through the deferred calls of every filter it has entered.              *)
(*                                                                         *)
(* The router finds the action; requests share nothing but its tree, so    *)
(* one goes through the filters.  Files are removed and                    *)
(* closed without errors.  Redirects and files to send are left out: a     *)
(* redirect claims 302, and http.ServeContent chooses a file's status.     *)
(***************************************************************************)
EXTENDS Router, FiniteSets

CONSTANTS
    MaxHooks,   \* bound: interceptors registered, in all
    MaxArgs,    \* bound: arguments of the action
    Traced,     \* bound: the files, and requests, that go beyond the router
    Custom      \* a status that application code sets by itself

ASSUME FilterAssumption ==
    /\ MaxHooks \in Nat /\ MaxArgs \in Nat /\ Custom \in Nat \ {0, 200, 404, 500}
    /\ Traced \subseteq RoutesFiles \X Requests

Phases == {"before", "after", "panic", "finally"}
Kinds  == {"page", "error", "missingError", "notFound"}
Args   == 1 .. MaxArgs

\* a Result remembers who made it: a phase and the number of the interceptor,
\* the action, the router or PanicFilter
None == [by |-> "nobody", nth |-> 0, kind |-> "none"]
Made(by, nth, kind) ==
    IF kind = "none" THEN None ELSE [by |-> by, nth |-> nth, kind |-> kind]

\* where an argument comes from: a parameter, an upload bound to an *os.File,
\* to a []byte, to an element "name[]" or to an element "name[i]" of a slice
ArgKinds == {"value", "file", "bytes", "files", "indexed"}

VARIABLES
    ws,         \* the request is that of a websocket
    hooks,      \* interceptors that apply to the controller, for each phase
    pc,
    ran,        \* of each phase: interceptors called
    local,      \* result in invokeInterceptors
    panicking,
    status, result, \* c.Response.Status, c.Result
    form,       \* the multipart form: "none", "memory" or "disk"
    bound,      \* arguments bound
    temps, registered,  \* temporary files of arguments; those in c.Params
    open, deferred,     \* files open for arguments; those with a deferred Close
    header,     \* status lines written
    \* history, read by the properties and by no guard:
    argKind,    \* how each argument was bound
    copyFailed, \* arguments whose upload could not be copied
    last,       \* the last Result each phase, or the action, returned
    threw,      \* what panicked: phases, "action"
    reached,    \* of "interceptors" and "action": those that were run
    caught,     \* PanicFilter has recovered from a panic
    setter      \* who changed the status last, and whether by itself

fileVars == <<form, bound, temps, registered, open, deferred, argKind,
              copyFailed>>
histVars == <<last, threw, reached, caught>>
appVars == <<ran, local, panicking, status, result, fileVars, header,
             histVars, setter>>
vars == <<ws, hooks, pc, appVars, routerVars>>

Init ==
    /\ RouterInit
    /\ ws \in BOOLEAN
    /\ hooks = [ph \in Phases |-> 0]
    /\ pc = "boot"
    /\ ran = [ph \in Phases |-> 0] /\ local = None /\ panicking = FALSE
    /\ status = 0 /\ result = None
    /\ form = "none" /\ bound = 0
    /\ temps = {} /\ registered = {} /\ open = {} /\ deferred = {}
    /\ header = <<>>
    /\ argKind = [k \in Args |-> "none"] /\ copyFailed = {}
    /\ last = [who \in Phases \cup {"action"} |-> None]
    /\ threw = {} /\ reached = {} /\ caught = FALSE
    /\ setter = [by |-> "nobody", nth |-> 0, hand |-> FALSE]

-----------------------------------------------------------------------------
(***************************************************************************)
(* The status that the constructors of results set: NotFound (and          *)
(* Forbidden and Todo) assign it, the others leave alone what is there.    *)
(***************************************************************************)
Code(kind) == CASE kind = "page" -> 200
                [] kind \in {"error", "missingError"} -> 500
                [] kind = "notFound" -> 404

Claimed(kind, s) ==
    IF kind = "none" THEN s
    ELSE IF kind = "notFound" THEN Code(kind)
    ELSE IF s = 0 THEN Code(kind) ELSE s

SetStatus(by, nth, hand, s) ==
    /\ status' = s
    /\ setter' = IF s = status THEN setter
                 ELSE [by |-> by, nth |-> nth, hand |-> hand]

\* what an interceptor or the action does to the status: make a result or not,
\* and set it by hand or not, before or after
Application(by, nth, kind) ==
    \E hand \in BOOLEAN :
        SetStatus(by, nth, hand, IF hand THEN Custom ELSE Claimed(kind, status))

-----------------------------------------------------------------------------
\* OnAppStart: MainRouter is made, and log.PANICF ends a process without one
Start ==
    /\ pc = "boot" /\ Refresh
    /\ pc' = IF match'.outcome = "crashed" THEN "crashed" ELSE "route"
    /\ UNCHANGED <<ws, hooks, appVars>>

RouteRequest ==
    /\ pc = "route" /\ Route
    /\ pc' = "routed"
    /\ UNCHANGED <<ws, hooks, appVars>>

\* RouterFilter, with the match
Routed(outcome) ==
    pc = "routed" /\ match.outcome = outcome /\ <<routes, request>> \in Traced

RouteMissing ==
    /\ Routed("missing")
    /\ SetStatus("router", 1, FALSE, Claimed("notFound", status))
    /\ result' = Made("router", 1, "notFound")
    /\ pc' = "recover"
    /\ UNCHANGED <<ws, hooks, ran, local, panicking, fileVars, header, histVars>>

RoutePanics ==
    /\ Routed("panic")
    /\ panicking' = TRUE
    /\ pc' = "recover"
    /\ UNCHANGED <<ws, hooks, ran, local, status, result, fileVars, header,
                   histVars, setter>>

RouteMatched ==
    /\ Routed("found")
    /\ hooks' \in {h \in [Phases -> 0 .. MaxHooks] :
                      h["before"] + h["after"] + h["panic"] + h["finally"]
                          <= MaxHooks}
    /\ pc' = "parse"
    /\ UNCHANGED <<ws, appVars>>

\* ParamsFilter: parts of a multipart form that are large go to files
Parse ==
    /\ pc = "parse"
    /\ form' \in {"none", "memory", "disk"}
    /\ reached' = {"interceptors"}
    /\ pc' = "before"
    /\ UNCHANGED <<ws, hooks, ran, local, panicking, status, result, bound,
                   temps, registered, open, deferred, argKind, copyFailed,
                   header, last, threw, caught, setter>>

-----------------------------------------------------------------------------
(***************************************************************************)
(* InterceptorFilter: BEFORE interceptors, the action, AFTER interceptors; *)
(* the deferred calls are those of the PANIC interceptors, if there is a   *)
(* panic, which then goes on, and of the FINALLY interceptors.             *)
(***************************************************************************)
AfterPanicLost(ph) ==   \* mutant: FINALLY interceptors are not deferred
    IF ph \in {"before", "after"} THEN "panic" ELSE "cleanup"
AfterPanic(ph) ==
    CASE ph \in {"before", "after"} -> "panic"
      [] ph = "panic" -> "finally"
      [] ph = "finally" -> "cleanup"

\* a BEFORE interceptor that returns a result is the last one to be called
Calls(ph) == ran[ph] < hooks[ph] /\ (ph = "before" => local = None)

Intercept(ph, kind) ==
    LET nth == ran[ph] + 1
        r == Made(ph, nth, kind)
    IN  /\ pc = ph /\ Calls(ph)
        /\ ran' = [ran EXCEPT ![ph] = nth]
        /\ Application(ph, nth, kind)
        /\ \/ /\ local' = IF r = None THEN local ELSE r
              /\ last' = [last EXCEPT ![ph] = local']
              /\ UNCHANGED <<pc, panicking, threw>>
           \/ /\ panicking' = TRUE /\ threw' = threw \cup {ph}
              /\ local' = None /\ pc' = AfterPanic(ph)
              /\ UNCHANGED last
        /\ UNCHANGED <<ws, hooks, result, fileVars, header, reached, caught>>

Then(ph) ==
    CASE ph = "before" -> IF local = None THEN "bind" ELSE "finally"
      [] ph \in {"after", "panic"} -> "finally"
      [] ph = "finally" -> "cleanup"

KeptFirst == IF result = None THEN local ELSE result    \* mutant: the first wins
Kept == IF local = None THEN result ELSE local

PhaseEnds(ph) ==
    /\ pc = ph /\ ~Calls(ph)
    /\ result' = Kept
    /\ local' = None
    /\ pc' = Then(ph)
    /\ UNCHANGED <<ws, hooks, ran, panicking, status, fileVars, header,
                   histVars, setter>>

-----------------------------------------------------------------------------
(***************************************************************************)
(* ActionInvoker binds the arguments one by one and defers a Close for     *)
(* each that is an io.Closer.  An upload in memory is copied to a          *)
(* temporary file, which the binder of a slice's "name[]" elements notes   *)
(* in Params of its own; when the copy fails the argument is nil.          *)
(***************************************************************************)
Opens(kind) ==
    kind \in {"file", "files", "indexed"} \/ (kind = "bytes" /\ form = "disk")
Copies(kind) == form = "memory" /\ kind \in {"file", "files", "indexed"}
Noted(kind) == kind # "files"
Closer(kind) == kind = "file"

Bind(kind, fails) ==
    LET k == bound + 1
        With(S, b) == IF b THEN S \cup {k} ELSE S
    IN  /\ pc = "bind" /\ k \in Args
        /\ form = "none" => kind = "value"
        /\ fails => Copies(kind)
        /\ bound' = k
        /\ argKind' = [argKind EXCEPT ![k] = kind]
        /\ open' = With(open, Opens(kind))
        /\ deferred' = With(deferred, Closer(kind) /\ ~fails)
        /\ temps' = With(temps, Copies(kind))
        /\ registered' = With(registered, Copies(kind) /\ Noted(kind))
        /\ copyFailed' = With(copyFailed, fails)
        /\ UNCHANGED <<ws, hooks, pc, ran, local, panicking, status, result,
                       form, header, histVars, setter>>

\* a binder panics, or the action runs, returns or panics
BindPanics ==
    /\ pc = "bind"
    /\ panicking' = TRUE /\ threw' = threw \cup {"action"}
    /\ pc' = "unbind"
    /\ UNCHANGED <<ws, hooks, ran, local, status, result, fileVars, header, last,
                   reached, caught, setter>>

Action(kind) ==
    LET r == Made("action", 1, kind) IN
    /\ pc = "bind"
    /\ reached' = reached \cup {"action"}
    /\ Application("action", 1, kind)
    /\ \/ /\ result' = IF r = None THEN result ELSE r
          /\ last' = [last EXCEPT !["action"] = r]
          /\ UNCHANGED <<panicking, threw>>
       \/ /\ panicking' = TRUE /\ threw' = threw \cup {"action"}
          /\ UNCHANGED <<result, last>>
    /\ pc' = "unbind"
    /\ UNCHANGED <<ws, hooks, ran, local, fileVars, header, caught>>

ClosedOnReturn == IF panicking THEN open ELSE open \ deferred  \* mutant: no defer
StillOpen == open \ deferred

Unbind ==
    /\ pc = "unbind"
    /\ open' = StillOpen
    /\ pc' = IF panicking THEN "panic" ELSE "after"
    /\ UNCHANGED <<ws, hooks, ran, local, panicking, status, result, form, bound,
                   temps, registered, deferred, argKind, copyFailed, header,
                   histVars, setter>>

-----------------------------------------------------------------------------
\* ParamsFilter's deferred call
Cleanup ==
    /\ pc = "cleanup"
    /\ form' = IF form = "disk" THEN "none" ELSE form
    /\ temps' = temps \ registered
    /\ pc' = "recover"
    /\ UNCHANGED <<ws, hooks, ran, local, panicking, status, result, bound,
                   registered, open, deferred, argKind, copyFailed, header,
                   histVars, setter>>

\* PanicFilter's: a panic becomes an error, with the status that is there
Recover ==
    /\ pc = "recover"
    /\ IF panicking
         THEN /\ SetStatus("PanicFilter", 1, FALSE, Claimed("error", status))
              /\ result' = Made("PanicFilter", 1, "error")
         ELSE UNCHANGED <<status, setter, result>>
    /\ caught' = panicking
    /\ panicking' = FALSE
    /\ pc' = "apply"
    /\ UNCHANGED <<ws, hooks, ran, local, fileVars, header, last, threw, reached>>

WrittenTwice(fails) ==  \* mutant: goes on after ErrorResult.Apply
    IF fails THEN <<status, status>> ELSE <<status>>
Written(fails) == <<status>>

(***************************************************************************)
(* handleInternal: no result, a result that is written (a page that cannot *)
(* be encoded is written as an error), or one that panics, outside of      *)
(* PanicFilter: net/http drops the connection.  Nothing is written to the  *)
(* connection of a websocket, which has been taken over.                   *)
(***************************************************************************)
Apply ==
    /\ pc = "apply"
    /\ \/ /\ result.kind \notin {"none", "missingError"}
          /\ \E fails \in {FALSE, result.kind = "page"} :
                header' = IF ws THEN <<>> ELSE Written(fails)
          /\ pc' = "done"
       \/ /\ result = None
          /\ header' = IF ws \/ status = 0 THEN <<>> ELSE <<status>>
          /\ pc' = "done"
       \/ /\ result.kind \in {"page", "missingError"}
          /\ pc' = "aborted"
          /\ UNCHANGED header
    /\ UNCHANGED <<ws, hooks, ran, local, panicking, status, result, fileVars,
                   histVars, setter>>

-----------------------------------------------------------------------------
FilterStep ==
    \/ RouteMissing \/ RoutePanics \/ RouteMatched \/ Parse
    \/ \E ph \in Phases :
          \/ \E kind \in Kinds \cup {"none"} : Intercept(ph, kind)
          \/ PhaseEnds(ph)
    \/ \E kind \in ArgKinds, fails \in BOOLEAN : Bind(kind, fails)
    \/ BindPanics
    \/ \E kind \in Kinds \cup {"none"} : Action(kind)
    \/ Unbind \/ Cleanup \/ Recover \/ Apply

Next == Start \/ RouteRequest \/ (FilterStep /\ UNCHANGED routerVars)

Spec == Init /\ [][Next]_vars

-----------------------------------------------------------------------------
Results == {None} \cup [by : Phases \cup {"action", "router", "PanicFilter"},
                       nth : 1 .. MaxHooks + 1, kind : Kinds]

TypeOK ==
    /\ ws \in BOOLEAN /\ hooks \in [Phases -> 0 .. MaxHooks]
    /\ pc \in Phases \cup {"boot", "crashed", "route", "routed", "parse", "bind",
                            "unbind", "cleanup", "recover", "apply", "done",
                            "aborted"}
    /\ \A ph \in Phases : ran[ph] \in 0 .. hooks[ph]
    /\ local \in Results /\ result \in Results
    /\ panicking \in BOOLEAN /\ caught \in BOOLEAN
    /\ status \in {0, 200, 404, 500, Custom}
    /\ form \in {"none", "memory", "disk"} /\ bound \in 0 .. MaxArgs
    /\ temps \subseteq 1 .. bound /\ registered \subseteq 1 .. bound
    /\ open \subseteq 1 .. bound /\ deferred \subseteq 1 .. bound
    /\ copyFailed \subseteq 1 .. bound
    /\ argKind \in [Args -> ArgKinds \cup {"none"}]
    /\ header \in Seq({200, 404, 500, Custom})
    /\ last \in [Phases \cup {"action"} -> Results]
    /\ threw \subseteq Phases \cup {"action"}
    /\ reached \subseteq {"interceptors", "action"}

Filtered == pc \in {"apply", "done", "aborted"}

(***************************************************************************)
(* Whatever panics, no file of the request is left on disk or open when    *)
(* the filters have returned, but for these: the copy of a slice's         *)
(* "name[]" element stays on disk; and open, until it is collected, stays  *)
(* a file whose copy failed, that was read for a []byte, or in a slice.    *)
(***************************************************************************)
CleanedUp ==
    Filtered =>
        /\ form # "disk"
        /\ \A k \in temps : argKind[k] = "files"
        /\ \A k \in open : argKind[k] = "file" => k \in copyFailed

(***************************************************************************)
(* FINALLY interceptors are all called once the request has come to them,  *)
(* PANIC interceptors just when something inside panicked, the action only *)
(* after all BEFORE interceptors have let it, AFTER interceptors only when *)
(* it has returned -- unless an interceptor of the same kind panics.       *)
(***************************************************************************)
InterceptorsRun ==
    Filtered =>
        LET all(ph) == ran[ph] = hooks[ph] \/ ph \in threw
            inside == threw \cap {"before", "action", "after"}
        IN  /\ "interceptors" \in reached => all("finally")
            /\ inside # {} => all("panic")
            /\ inside = {} => ran["panic"] = 0
            /\ "action" \in reached => all("before") /\ last["before"] = None
            /\ ran["after"] > 0 => "action" \in reached \ threw
            /\ "action" \in reached \ threw => all("after")

(***************************************************************************)
(* Which result is applied: that of PanicFilter if anything panicked, else *)
(* the last one of the FINALLY interceptors, of the AFTER interceptors, of *)
(* the action, or of the BEFORE interceptors, in this order.  That of a    *)
(* PANIC interceptor takes its place too, and then makes room for the      *)
(* error of PanicFilter.                                                   *)
(***************************************************************************)
Ranked == <<last["finally"], last["after"], last["action"], last["before"]>>
FirstOf(s) ==
    LET some == {i \in DOMAIN s : s[i] # None}
    IN  IF some = {} THEN None
        ELSE s[CHOOSE i \in some : \A j \in some : i <= j]

ResultWinner ==
    Filtered =>
        IF caught THEN result = Made("PanicFilter", 1, "error")
        ELSE IF "interceptors" \in reached THEN result = FirstOf(Ranked)
        ELSE result = Made("router", 1, "notFound")

(***************************************************************************)
(* What the comment on InterceptorFunc guarantees: the result that a       *)
(* BEFORE interceptor returned is final.  It is not so: the FINALLY        *)
(* interceptors are deferred, and their results take its place.            *)
(***************************************************************************)
BeforeFinal ==
    Filtered /\ ~caught /\ last["before"] # None => result = last["before"]

(***************************************************************************)
(* A request gets one status line.  It is the one that belongs to the      *)
(* result, unless application code has set the status by itself or an      *)
(* earlier step had made a result, even one that was then replaced.        *)
(***************************************************************************)
StatusCauses ==
    /\ Len(header) <= 1
    /\ header # <<>> /\ result # None /\ header[1] # Code(result.kind) =>
           \/ setter.hand
           \/ <<setter.by, setter.nth>> # <<result.by, result.nth>>
    /\ Filtered /\ result.kind = "notFound" => status = 404 \/ setter.hand

(***************************************************************************)
(* What the comment on PanicFilter says: a panic becomes a page with       *)
(* status 500.  It is not so when a status was set before the panic, by    *)
(* making a result or by hand: RenderError leaves alone what is there.     *)
(***************************************************************************)
PanicGives500 == caught /\ header # <<>> => header = <<500>>
=============================================================================
