--------------------------- MODULE FilterChainProofs ---------------------------
(***************************************************************************)
(* Proofs about FilterChain, for every number of interceptors and          *)
(* arguments, every routes file and every request.  What the router makes  *)
(* of them is left to TLC.                                                 *)
(***************************************************************************)
EXTENDS FilterChain, TLAPS

(***************************************************************************)
(* The inductive invariant.  Untouched: nothing has happened before the    *)
(* interceptors.  Typed: what TypeOK does not say of the types.  Files:    *)
(* where a file can still be, by the step the request has come to.         *)
(* Throwing: a panic is on its way just when something has panicked, and   *)
(* what can have panicked by then.  Order: which interceptors and whether  *)
(* the action can have run.  Winner: the result that is kept so far is the *)
(* one the properties expect.  Maker and Claims: who can have made the     *)
(* results there are, and the status against them.                         *)
(***************************************************************************)
Early == {"boot", "crashed", "route", "routed", "parse"}
Late == {"recover", "apply", "done", "aborted"}
Entered == "interceptors" \in reached
Inside == threw \cap {"before", "action", "after"}

Untouched ==
    pc \in Early =>
        /\ ran = [ph \in Phases |-> 0] /\ local = None /\ result = None
        /\ ~panicking /\ threw = {} /\ reached = {}
        /\ status = 0 /\ setter.by = "nobody" /\ ~setter.hand
        /\ form = "none" /\ bound = 0
        /\ last = [who \in Phases \cup {"action"} |-> None]

Typed ==
    /\ ran \in [Phases -> Nat]
    /\ setter \in [by : Phases \cup {"action", "router", "PanicFilter", "nobody"},
                   nth : Nat, hand : BOOLEAN]
    /\ pc \notin {"done", "aborted"} => header = <<>>
    /\ header \in {<<>>, <<status>>}

Files ==
    /\ \A k \in temps \ registered : argKind[k] = "files"
    /\ \A k \in open \ deferred : argKind[k] = "file" => k \in copyFailed
    /\ pc \notin {"bind", "unbind"} => open \cap deferred = {}
    /\ pc \in Late => form # "disk" /\ temps \cap registered = {}

Throwing ==
    /\ pc \notin Late => (panicking <=> threw # {})
    /\ pc = "recover" /\ Entered => (panicking <=> threw # {})
    /\ pc \in Late /\ ~Entered => threw = {} /\ local = None
    /\ Filtered /\ Entered => (caught <=> threw # {})
    /\ pc \in {"before", "bind", "after"} => threw = {}
    /\ pc = "unbind" => threw \subseteq {"action"}
    /\ pc = "panic" => threw = Inside /\ Inside # {}
    /\ pc = "finally" => "finally" \notin threw
    /\ "panic" \in threw => Inside # {}
    /\ pc \notin Early \cup Late => Entered

Called(ph) == ran[ph] = hooks[ph] \/ ph \in threw
Returned == "action" \in reached \ threw

Order ==
    /\ pc \in Early \cup {"before", "bind"} => "action" \notin reached
    /\ pc \in {"unbind", "after"} => "action" \in reached \cup threw
    /\ pc \in {"before", "bind", "unbind"} => ran["after"] = 0
    /\ "action" \in reached => Called("before") /\ last["before"] = None
    /\ pc = "bind" => Called("before") /\ last["before"] = None
    /\ pc = "after" => Returned
    /\ ran["after"] > 0 => Returned
    /\ pc \in {"before", "bind", "unbind", "after"} => ran["panic"] = 0
    /\ Inside = {} => ran["panic"] = 0
    /\ pc = "panic" /\ Returned => "after" \in threw
    /\ pc \in {"finally", "cleanup"} \cup Late =>
          (Inside # {} => Called("panic")) /\ (Returned => Called("after"))
    /\ pc \in {"cleanup"} \cup Late /\ Entered => Called("finally")

Winner ==
    /\ threw = {} /\ Entered =>
          /\ Kept = FirstOf(Ranked)
          /\ pc \in {"before", "after", "finally"} => local = last[pc]
          /\ pc \notin Phases => local = None
          /\ pc \in {"before", "bind"} => last["action"] = None
          /\ pc \in {"before", "bind", "unbind"} => last["after"] = None
          /\ pc \in {"before", "bind", "unbind", "after"} => last["finally"] = None
    /\ pc = "recover" /\ ~Entered =>
          panicking \/ result = Made("router", 1, "notFound")
    /\ Filtered =>
          IF caught THEN result = Made("PanicFilter", 1, "error")
          ELSE ~Entered => result = Made("router", 1, "notFound")

\* by and nth can have made a result, or set the status
Before(by, nth) ==
    /\ by \in Phases => nth <= ran[by]
    /\ by = "action" => "action" \in reached
    /\ by = "PanicFilter" => Filtered
    /\ by = "router" => pc \in Late

Maker ==
    /\ Before(setter.by, setter.nth)
    /\ Before(result.by, result.nth) /\ Before(local.by, local.nth)

Claim(r) ==
    r # None =>
        /\ status # 0
        /\ <<setter.by, setter.nth>> = <<r.by, r.nth>> /\ ~setter.hand =>
              status = Code(r.kind)
        /\ r.kind = "notFound" => status = 404 \/ setter.hand

Claims == Claim(local) /\ Claim(result) /\ (status = Custom <=> setter.hand)

IInv == /\ TypeOK /\ Untouched /\ Typed /\ Files /\ Throwing /\ Order /\ Winner
        /\ Maker /\ Claims

(* The operators the filters are built from.                               *)

LEMMA MadeTypes ==
    ASSUME NEW by \in Phases \cup {"action", "router", "PanicFilter"},
           NEW nth \in 1 .. MaxHooks + 1, NEW kind \in Kinds \cup {"none"}
    PROVE  /\ Made(by, nth, kind) \in Results
           /\ Made(by, nth, kind) = None <=> kind = "none"
           /\ kind # "none" => /\ Made(by, nth, kind).by = by
                               /\ Made(by, nth, kind).nth = nth
                               /\ Made(by, nth, kind).kind = kind
  BY DEF Made, None, Results, Phases, Kinds

LEMMA RankedFirst ==
    ASSUME NEW r1, NEW r2, NEW r3, NEW r4
    PROVE  FirstOf(<<r1, r2, r3, r4>>) =
              IF r1 # None THEN r1 ELSE IF r2 # None THEN r2
              ELSE IF r3 # None THEN r3 ELSE r4
<1>. DEFINE R == <<r1, r2, r3, r4>>
            some == {i \in DOMAIN R : R[i] # None}
            n == CHOOSE i \in some : \A j \in some : i <= j
<1>1. DOMAIN R = 1 .. 4 /\ R[1] = r1 /\ R[2] = r2 /\ R[3] = r3 /\ R[4] = r4
  OBVIOUS
<1>2. FirstOf(R) = IF some = {} THEN None ELSE R[n]
  BY DEF FirstOf
<1>. HIDE DEF R
<1>3. \A i \in some : (\A j \in some : i <= j) => n = i
  <2>1. some \subseteq Nat
    BY <1>1
  <2>2. ASSUME NEW i \in some, \A j \in some : i <= j
        PROVE  n \in some /\ \A j \in some : n <= j
    BY <2>2
  <2>. HIDE DEF n
  <2>. QED
    BY <2>1, <2>2
<1>4. ASSUME NEW i \in 1 .. 4, R[i] # None, \A j \in 1 .. 4 : j < i => R[j] = None
      PROVE  FirstOf(R) = R[i]
  <2>1. i \in some /\ \A j \in some : i <= j
    BY <1>1, <1>4
  <2>2. n = i
    BY <1>3, <2>1
  <2>. HIDE DEF n, some
  <2>. QED
    BY <1>2, <2>1, <2>2
<1>5. (\A i \in 1 .. 4 : R[i] = None) => FirstOf(R) = None
  <2>1. (\A i \in 1 .. 4 : R[i] = None) => some = {}
    BY <1>1
  <2>. HIDE DEF n, some
  <2>. QED
    BY <1>2, <2>1
<1>6. FirstOf(R) = IF R[1] # None THEN R[1] ELSE IF R[2] # None THEN R[2]
                   ELSE IF R[3] # None THEN R[3] ELSE R[4]
  BY <1>4, <1>5
<1>. QED
  BY <1>1, <1>6 DEF R

(* Whoever sets the status: what is true of the results of others stays    *)
(* true, and it is true of the new result.                                 *)

LEMMA SetClaims ==
    ASSUME TypeOK, Typed, status = Custom <=> setter.hand,
           NEW by \in Phases \cup {"action", "router", "PanicFilter"},
           NEW nth \in 1 .. MaxHooks + 1, NEW kind \in Kinds \cup {"none"},
           NEW hand \in BOOLEAN, NEW s,
           s = IF hand THEN Custom ELSE Claimed(kind, status),
           <<setter.by, setter.nth>> # <<by, nth>>, SetStatus(by, nth, hand, s)
    PROVE  /\ status' \in {0, 200, 404, 500, Custom}
           /\ setter' \in [by : Phases \cup {"action", "router", "PanicFilter", "nobody"},
                           nth : Nat, hand : BOOLEAN]
           /\ setter' = setter \/ (setter'.by = by /\ setter'.nth = nth)
           /\ status' = Custom <=> setter'.hand
           /\ \A r \in Results : Claim(r) /\ <<r.by, r.nth>> # <<by, nth>> => Claim(r)'
           /\ kind # "none" => status' # 0 /\
                 Claim(Made(by, nth, kind))'
<1>1. /\ status' = s
      /\ setter' = IF s = status THEN setter
                   ELSE [by |-> by, nth |-> nth, hand |-> hand]
  BY DEF SetStatus
<1>2. /\ status \in {0, 200, 404, 500, Custom} /\ Custom \notin {0, 200, 404, 500}
  BY FilterAssumption DEF TypeOK
<1>3. /\ hand => s = Custom
      /\ ~hand /\ kind = "none" => s = status
      /\ ~hand /\ kind = "notFound" => s = 404
      /\ ~hand /\ kind \notin {"none", "notFound"} =>
            s = IF status = 0 THEN Code(kind) ELSE status
      /\ kind # "none" => Code(kind) \in {200, 404, 500}
      /\ kind = "notFound" => Code(kind) = 404
  BY DEF Claimed, Code, Kinds
<1>4. /\ setter' \in [by : Phases \cup {"action", "router", "PanicFilter", "nobody"},
                      nth : Nat, hand : BOOLEAN]
      /\ setter' = setter \/ (setter'.by = by /\ setter'.nth = nth)
  BY <1>1, FilterAssumption DEF Typed
<1>5. status' \in {0, 200, 404, 500, Custom} /\ (status' = Custom <=> setter'.hand)
  BY <1>1, <1>2, <1>3
<1>6. ASSUME NEW r \in Results, Claim(r), <<r.by, r.nth>> # <<by, nth>>
      PROVE  Claim(r)'
  BY <1>1, <1>2, <1>3, <1>6 DEF Claim
<1>7. kind # "none" => status' # 0 /\ Claim(Made(by, nth, kind))'
  BY <1>1, <1>2, <1>3, MadeTypes DEF Claim
<1>. QED
  BY <1>4, <1>5, <1>6, <1>7

(* So for the filters, which never set the status by hand.                 *)

FilterSets(by, kind) == SetStatus(by, 1, FALSE, Claimed(kind, status))

LEMMA FilterClaims ==
    ASSUME TypeOK, Typed, status = Custom <=> setter.hand,
           NEW by \in {"router", "PanicFilter"}, NEW kind \in Kinds,
           <<setter.by, setter.nth>> # <<by, 1>>, FilterSets(by, kind)
    PROVE  /\ status' \in {0, 200, 404, 500, Custom}
           /\ setter' \in [by : Phases \cup {"action", "router", "PanicFilter", "nobody"},
                           nth : Nat, hand : BOOLEAN]
           /\ setter' = setter \/ (setter'.by = by /\ setter'.nth = 1)
           /\ status' = Custom <=> setter'.hand
           /\ \A r \in Results : Claim(r) /\ <<r.by, r.nth>> # <<by, 1>> => Claim(r)'
           /\ status' # 0 /\ Claim(Made(by, 1, kind))'
<1>1. PICK hand \in BOOLEAN : hand = FALSE
  OBVIOUS
<1>2. SetStatus(by, 1, hand, Claimed(kind, status))
  BY <1>1, Zenon DEF FilterSets
<1>3. /\ Claimed(kind, status) = IF hand THEN Custom ELSE Claimed(kind, status)
      /\ by \in Phases \cup {"action", "router", "PanicFilter"}
      /\ 1 \in 1 .. MaxHooks + 1
      /\ kind \in Kinds \cup {"none"} /\ kind # "none"
  BY <1>1, FilterAssumption DEF Kinds
<1>. QED
  BY <1>2, <1>3, SetClaims

-----------------------------------------------------------------------------
LEMMA InitInv == Init => IInv
<1>. SUFFICES ASSUME Init PROVE IInv
  OBVIOUS
<1>. USE FilterAssumption DEF Init
<1>1. None \in Results /\ pc = "boot" /\ "boot" \notin Late
  BY DEF Results, Late
<1>2. TypeOK
  <2>1. /\ header \in Seq({200, 404, 500, Custom}) /\ bound \in 0 .. MaxArgs
        /\ hooks \in [Phases -> 0 .. MaxHooks] /\ \A ph \in Phases : ran[ph] \in 0 .. hooks[ph]
    OBVIOUS
  <2>. QED
    BY <1>1, <2>1 DEF TypeOK
<1>3. Untouched /\ Typed /\ Files /\ Throwing
  BY DEF Untouched, Typed, Files, Throwing, Late, Early, Inside, Filtered, Entered,
         Phases
<1>4. Order
  BY DEF Order, Early, Late, Inside, Called, Returned, Entered, Phases
<1>5. Winner /\ Maker /\ Claims
  BY DEF Winner, Entered, Filtered, Maker, Before, Claims, Claim, None, Phases
<1>. QED
  BY <1>2, <1>3, <1>4, <1>5 DEF IInv

(* The steps that leave the files, or the status, alone.                   *)

LEMMA FilesKept ==
    ASSUME Files, UNCHANGED fileVars,
           pc \in {"bind", "unbind"} => pc' \in {"bind", "unbind"},
           pc' \in Late => pc \in Late
    PROVE  Files'
  BY DEF Files, fileVars

LEMMA ClaimKept ==
    ASSUME UNCHANGED <<status, setter>>
    PROVE  \A r \in Results : Claim(r) => Claim(r)'
  BY DEF Claim

-----------------------------------------------------------------------------
(* Up to the interceptors.                                                 *)

LEMMA BootInv ==
    ASSUME IInv, Start \/ RouteRequest
    PROVE  IInv'
<1>1. /\ pc \in {"boot", "route"} /\ pc' \in {"crashed", "route", "routed"}
      /\ UNCHANGED <<ws, hooks, ran, local, panicking, status, result, form, bound,
                     temps, registered, open, deferred, argKind, copyFailed,
                     header, last, threw, reached, caught, setter>>
  BY DEF Start, RouteRequest, appVars, fileVars, histVars
<1>2. pc \in Early /\ pc' \in Early /\ pc' \notin Late /\ ~Filtered'
  BY <1>1 DEF Early, Late, Filtered
<1>3. TypeOK'
  BY <1>1 DEF IInv, TypeOK
<1>4. Untouched' /\ Typed' /\ Files'
  BY <1>1, <1>2, FilesKept DEF IInv, Untouched, Typed, fileVars
<1>5. Throwing' /\ Order'
  BY <1>1, <1>2 DEF IInv, Untouched, Throwing, Order, Inside, Entered, Called,
                    Returned, Phases
<1>6. Winner' /\ Maker' /\ Claims'
  BY <1>1, <1>2 DEF IInv, Untouched, Winner, Maker, Before, Claims, Claim,
                    Entered, Phases, None
<1>. QED
  BY <1>3, <1>4, <1>5, <1>6 DEF IInv

LEMMA RouteMissingInv == ASSUME IInv, RouteMissing PROVE IInv'
<1>1. /\ pc = "routed" /\ pc' = "recover"
      /\ SetStatus("router", 1, FALSE, Claimed("notFound", status))
      /\ result' = Made("router", 1, "notFound")
      /\ UNCHANGED <<ws, hooks, ran, local, panicking, form, bound, temps,
                     registered, open, deferred, argKind, copyFailed, header,
                     last, threw, reached, caught>>
  BY DEF RouteMissing, Routed, fileVars, histVars
<1>2. /\ pc \in Early /\ pc' \notin Early /\ pc' \in Late /\ pc \notin Late
      /\ ~Filtered' /\ "router" \notin Phases /\ 1 \in 1 .. MaxHooks + 1
  BY <1>1, FilterAssumption DEF Early, Late, Filtered, Phases
<1>3. /\ Made("router", 1, "notFound") \in Results
      /\ Made("router", 1, "notFound").by = "router"
  BY <1>2, MadeTypes DEF Kinds
<1>4. /\ ran = [ph \in Phases |-> 0] /\ local = None /\ ~panicking /\ threw = {}
      /\ reached = {} /\ form = "none" /\ bound = 0 /\ setter.by = "nobody"
  BY <1>2 DEF IInv, Untouched
<1>5. /\ status' \in {0, 200, 404, 500, Custom}
      /\ setter' \in [by : Phases \cup {"action", "router", "PanicFilter", "nobody"},
                      nth : Nat, hand : BOOLEAN]
      /\ setter' = setter \/ (setter'.by = "router" /\ setter'.nth = 1)
      /\ status' = Custom <=> setter'.hand
      /\ Claim(Made("router", 1, "notFound"))'
  <2>1. TypeOK /\ Typed /\ (status = Custom <=> setter.hand)
    BY DEF IInv, Claims
  <2>2. <<setter.by, setter.nth>> # <<"router", 1>> /\ "notFound" \in Kinds
    BY <1>4 DEF Kinds
  <2>3. FilterSets("router", "notFound")
    BY <1>1 DEF FilterSets
  <2>. QED
    BY <2>1, <2>2, <2>3, FilterClaims
<1>6. TypeOK'
  BY <1>1, <1>3, <1>5 DEF IInv, TypeOK
<1>7. Untouched' /\ Typed'
  BY <1>1, <1>2, <1>5 DEF IInv, Untouched, Typed
<1>8. Files'
  BY <1>1, <1>4 DEF IInv, TypeOK, Files
<1>9. Throwing' /\ Order'
  BY <1>1, <1>2, <1>4 DEF IInv, Throwing, Order, Inside, Entered, Called,
                          Returned, Phases
<1>10. Winner' /\ Maker'
  BY <1>1, <1>2, <1>3, <1>4, <1>5 DEF IInv, Winner, Maker, Before, Entered,
                                      Phases, None
<1>11. Claims'
  BY <1>1, <1>4, <1>5 DEF Claims, Claim
<1>. QED
  BY <1>6, <1>7, <1>8, <1>9, <1>10, <1>11 DEF IInv

LEMMA RoutePanicsInv == ASSUME IInv, RoutePanics PROVE IInv'
<1>1. /\ pc = "routed" /\ pc' = "recover" /\ panicking' = TRUE
      /\ UNCHANGED <<ws, hooks, ran, local, status, result, form, bound, temps,
                     registered, open, deferred, argKind, copyFailed, header,
                     last, threw, reached, caught, setter>>
  BY DEF RoutePanics, Routed, fileVars, histVars
<1>2. /\ pc \in Early /\ pc' \notin Early /\ pc' \in Late /\ pc \notin Late
      /\ ~Filtered'
  BY <1>1 DEF Early, Late, Filtered
<1>3. /\ ran = [ph \in Phases |-> 0] /\ local = None /\ threw = {}
      /\ reached = {} /\ form = "none" /\ bound = 0 /\ result = None
      /\ setter.by = "nobody"
  BY <1>2 DEF IInv, Untouched
<1>4. TypeOK'
  BY <1>1 DEF IInv, TypeOK
<1>5. Untouched' /\ Typed'
  BY <1>1, <1>2 DEF IInv, Untouched, Typed
<1>6. Files'
  BY <1>1, <1>3 DEF IInv, TypeOK, Files
<1>7. Throwing' /\ Order'
  BY <1>1, <1>2, <1>3 DEF IInv, Throwing, Order, Inside, Entered, Called,
                          Returned, Phases
<1>8. Winner' /\ Maker' /\ Claims'
  BY <1>1, <1>2, <1>3 DEF IInv, Winner, Maker, Before, Claims, Claim, Entered,
                          Phases, None
<1>. QED
  BY <1>4, <1>5, <1>6, <1>7, <1>8 DEF IInv

LEMMA RouteMatchedInv == ASSUME IInv, RouteMatched PROVE IInv'
<1>1. /\ pc = "routed" /\ pc' = "parse" /\ hooks' \in [Phases -> 0 .. MaxHooks]
      /\ UNCHANGED <<ws, ran, local, panicking, status, result, form, bound,
                     temps, registered, open, deferred, argKind, copyFailed,
                     header, last, threw, reached, caught, setter>>
  BY DEF RouteMatched, Routed, appVars, fileVars, histVars
<1>2. pc \in Early /\ pc' \in Early /\ pc' \notin Late /\ ~Filtered'
  BY <1>1 DEF Early, Late, Filtered
<1>3. ran = [ph \in Phases |-> 0]
  BY <1>2 DEF IInv, Untouched
<1>4. TypeOK'
  BY <1>1, <1>3, FilterAssumption DEF IInv, TypeOK
<1>5. Untouched' /\ Typed' /\ Files'
  BY <1>1, <1>2, FilesKept DEF IInv, Untouched, Typed, fileVars
<1>6. Throwing' /\ Order'
  BY <1>1, <1>2 DEF IInv, Untouched, Throwing, Order, Inside, Entered, Called,
                    Returned, Phases
<1>7. Winner' /\ Maker' /\ Claims'
  BY <1>1, <1>2 DEF IInv, Untouched, Winner, Maker, Before, Claims, Claim,
                    Entered, Phases, None
<1>. QED
  BY <1>4, <1>5, <1>6, <1>7 DEF IInv

LEMMA ParseInv == ASSUME IInv, Parse PROVE IInv'
<1>1. /\ pc = "parse" /\ pc' = "before" /\ reached' = {"interceptors"}
      /\ form' \in {"none", "memory", "disk"}
      /\ UNCHANGED <<ws, hooks, ran, local, panicking, status, result, bound,
                     temps, registered, open, deferred, argKind, copyFailed,
                     header, last, threw, caught, setter>>
  BY DEF Parse
<1>2. /\ pc \in Early /\ pc' \notin Early /\ pc' \notin Late /\ ~Filtered'
      /\ pc' \notin {"bind", "unbind"}
  BY <1>1 DEF Early, Late, Filtered
<1>3. /\ ran = [ph \in Phases |-> 0] /\ local = None /\ result = None
      /\ ~panicking /\ threw = {} /\ reached = {} /\ setter.by = "nobody"
      /\ last = [who \in Phases \cup {"action"} |-> None]
  BY <1>2 DEF IInv, Untouched
<1>4. TypeOK'
  BY <1>1 DEF IInv, TypeOK, Phases
<1>5. Untouched' /\ Typed' /\ Files'
  BY <1>1, <1>2 DEF IInv, Untouched, Typed, Files
<1>6. Throwing' /\ Order'
  BY <1>1, <1>2, <1>3 DEF IInv, Throwing, Order, Inside, Entered, Called,
                          Returned, Phases
<1>7. Winner'
  <2>1. FirstOf(Ranked)' = FirstOf(Ranked) /\ FirstOf(Ranked) = None
    BY <1>1, <1>3, RankedFirst DEF Ranked, Phases
  <2>. QED
    BY <1>1, <1>2, <1>3, <2>1 DEF Winner, Entered, Kept, Phases
<1>8. Maker' /\ Claims'
  BY <1>1, <1>2, <1>3 DEF IInv, Maker, Before, Claims, Claim, Phases, None
<1>. QED
  BY <1>4, <1>5, <1>6, <1>7, <1>8 DEF IInv

-----------------------------------------------------------------------------
(* The interceptors.  Each makes a result of its own, because it has a     *)
(* number of its own.                                                      *)

LEMMA Applies ==
    ASSUME IInv, NEW by \in Phases \cup {"action"},
           NEW nth \in 1 .. MaxHooks + 1, NEW kind \in Kinds \cup {"none"},
           by \in Phases => nth > ran[by],
           by = "action" => "action" \notin reached,
           Application(by, nth, kind)
    PROVE  /\ status' \in {0, 200, 404, 500, Custom}
           /\ setter' \in [by : Phases \cup {"action", "router", "PanicFilter", "nobody"},
                           nth : Nat, hand : BOOLEAN]
           /\ setter' = setter \/ (setter'.by = by /\ setter'.nth = nth)
           /\ status' = Custom <=> setter'.hand
           /\ Claim(local) => Claim(local)' \/ local' # local
           /\ Claim(result) => Claim(result)' \/ result' # result
           /\ Claim(Made(by, nth, kind))'
<1>1. PICK hand \in BOOLEAN :
         SetStatus(by, nth, hand, IF hand THEN Custom ELSE Claimed(kind, status))
  BY DEF Application
<1>2. <<setter.by, setter.nth>> # <<by, nth>>
  BY DEF IInv, Maker, Before, Typed, Phases
<1>3. /\ local # None => <<local.by, local.nth>> # <<by, nth>>
      /\ result # None => <<result.by, result.nth>> # <<by, nth>>
  BY DEF IInv, Maker, Before, TypeOK, Results, Phases
<1>4. TypeOK /\ Typed /\ (status = Custom <=> setter.hand)
  BY DEF IInv, Claims
<1>5. /\ status' \in {0, 200, 404, 500, Custom}
      /\ setter' \in [by : Phases \cup {"action", "router", "PanicFilter", "nobody"},
                      nth : Nat, hand : BOOLEAN]
      /\ setter' = setter \/ (setter'.by = by /\ setter'.nth = nth)
      /\ status' = Custom <=> setter'.hand
      /\ \A r \in Results : Claim(r) /\ <<r.by, r.nth>> # <<by, nth>> => Claim(r)'
      /\ kind # "none" => status' # 0 /\ Claim(Made(by, nth, kind))'
  BY <1>1, <1>2, <1>4, SetClaims
<1>6. Claim(Made(by, nth, kind))'
  BY <1>5 DEF Made, Claim
<1>7. /\ Claim(local) => Claim(local)' \/ local' # local
      /\ Claim(result) => Claim(result)' \/ result' # result
  BY <1>3, <1>4, <1>5 DEF TypeOK, Claim
<1>. QED
  BY <1>5, <1>6, <1>7

LEMMA InterceptInv ==
    ASSUME IInv, NEW ph \in Phases, NEW kind \in Kinds \cup {"none"},
           Intercept(ph, kind)
    PROVE  IInv'
<1>1. /\ pc = ph /\ Calls(ph) /\ ran' = [ran EXCEPT ![ph] = ran[ph] + 1]
      /\ Application(ph, ran[ph] + 1, kind)
      /\ \/ /\ local' = IF Made(ph, ran[ph] + 1, kind) = None THEN local
                        ELSE Made(ph, ran[ph] + 1, kind)
            /\ last' = [last EXCEPT ![ph] = local']
            /\ UNCHANGED <<pc, panicking, threw>>
         \/ /\ panicking' = TRUE /\ threw' = threw \cup {ph}
            /\ local' = None /\ pc' = AfterPanic(ph)
            /\ UNCHANGED last
      /\ UNCHANGED <<ws, hooks, result, form, bound, temps, registered, open,
                     deferred, argKind, copyFailed, header, reached, caught>>
  BY DEF Intercept, fileVars
<1>2. PICK nth \in 1 .. MaxHooks + 1 : nth = ran[ph] + 1
  BY <1>1, FilterAssumption DEF IInv, TypeOK, Typed, Calls
<1>3. PICK r \in Results :
         /\ r = Made(ph, nth, kind) /\ (r = None <=> kind = "none")
         /\ r # None => r.by = ph /\ r.nth = nth
  BY <1>2, MadeTypes
<1>4. nth \in 0 .. hooks[ph] /\ nth > ran[ph] /\ ran[ph] \in Nat
  BY <1>1, <1>2, FilterAssumption DEF IInv, TypeOK, Typed, Calls
<1>5. /\ status' \in {0, 200, 404, 500, Custom}
      /\ setter' \in [by : Phases \cup {"action", "router", "PanicFilter", "nobody"},
                      nth : Nat, hand : BOOLEAN]
      /\ setter' = setter \/ (setter'.by = ph /\ setter'.nth = nth)
      /\ status' = Custom <=> setter'.hand
      /\ Claim(local) => Claim(local)' \/ local' # local
      /\ Claim(result) => Claim(result)' \/ result' # result
      /\ Claim(r)'
  BY <1>1, <1>2, <1>3, <1>4, Applies DEF Phases
<1>6. /\ pc \notin Early \cup Late \cup {"bind", "unbind", "cleanup"} /\ ~Filtered /\ Entered
      /\ pc' \notin Early \cup Late \cup {"bind", "unbind"} /\ ~Filtered'
      /\ pc' = "cleanup" => ph = "finally" /\ ph \in threw'
  BY <1>1 DEF Early, Late, Filtered, Phases, AfterPanic, IInv, Throwing
<1>7. /\ TypeOK'
      /\ \A p \in Phases : ran'[p] = IF p = ph THEN nth ELSE ran[p]
      /\ ran' \in [Phases -> Nat]
  <2>1. /\ ran' \in [Phases -> Nat]
        /\ \A p \in Phases : ran'[p] = IF p = ph THEN nth ELSE ran[p]
    BY <1>1, <1>2, <1>4 DEF IInv, Typed
  <2>2. local' \in Results /\ last' \in [Phases \cup {"action"} -> Results]
    <3>1. None \in Results
      BY DEF Results
    <3>2. local' \in {local, r, None} /\ local \in Results
      BY <1>1, <1>2, <1>3 DEF IInv, TypeOK
    <3>3. last' = last \/ last' = [last EXCEPT ![ph] = local']
      BY <1>1
    <3>4. local' \in Results
      BY <3>1, <3>2
    <3>. QED
      BY <3>3, <3>4 DEF IInv, TypeOK
  <2>3. pc' \in Phases \cup {"cleanup"} /\ panicking' \in BOOLEAN
        /\ threw' \subseteq Phases \cup {"action"}
    BY <1>1 DEF IInv, TypeOK, AfterPanic, Phases
  <2>. QED
    BY <1>1, <1>4, <1>5, <2>1, <2>2, <2>3 DEF IInv, TypeOK
<1>8. Untouched' /\ Typed' /\ Files'
  <2>1. Files'
    BY <1>1, <1>6, FilesKept DEF IInv, fileVars
  <2>2. header = <<>>
    BY <1>6 DEF IInv, Typed, Late
  <2>. QED
    BY <1>1, <1>5, <1>6, <1>7, <2>1, <2>2 DEF Untouched, Typed
<1>9. Throwing'
  BY <1>1, <1>6 DEF IInv, Throwing, AfterPanic, Inside, Entered, Phases
<1>10. Order'
  BY <1>1, <1>4, <1>6, <1>7 DEF IInv, TypeOK, Throwing, Order, Calls, Called,
     Returned, Inside, AfterPanic, Entered, Phases
<1>11. Winner'
  <2>1. CASE threw' # {}
    BY <1>6, <2>1 DEF Winner, Late
  <2>2. CASE threw' = {}
    <3>1. /\ local' = IF r = None THEN local ELSE r
          /\ last' = [last EXCEPT ![ph] = local']
          /\ UNCHANGED <<pc, panicking, threw, result>> /\ threw = {}
      BY <1>1, <1>2, <1>3, <2>2
    <3>2. ph # "panic"
      BY <1>1, <3>1 DEF IInv, Throwing
    <3>3. /\ Kept = FirstOf(Ranked) /\ local = last[ph]
          /\ ph = "before" => last["action"] = None
          /\ ph = "before" => last["after"] = None
          /\ ph \in {"before", "after"} => last["finally"] = None
          /\ last \in [Phases \cup {"action"} -> Results]
      BY <1>1, <1>6, <3>1, <3>2 DEF IInv, Winner, TypeOK, Phases
    <3>5. Kept' = FirstOf(Ranked)'
      BY <1>1, <3>1, <3>2, <3>3, RankedFirst DEF Kept, Ranked, Phases
    <3>. QED
      BY <1>1, <1>6, <3>1, <3>2, <3>3, <3>5 DEF Winner, Phases, Late
  <2>. QED
    BY <2>1, <2>2
<1>12. Maker'
  <2>1. \A b, m : (b \in Phases => m \in Nat) /\ Before(b, m) => Before(b, m)'
    BY <1>1, <1>4, <1>6, <1>7 DEF Before
  <2>2. Before(ph, nth)'
    BY <1>6, <1>7 DEF Before, Phases
  <2>3. Before(setter.by, setter.nth)'
    BY <1>5, <2>1, <2>2 DEF IInv, Maker, Typed
  <2>4. Before(result.by, result.nth)'
    BY <1>1, <2>1 DEF IInv, Maker, TypeOK, Results, None, Phases
  <2>5. Before(local.by, local.nth)'
    <3>1. Before(None.by, None.nth)'
      BY DEF Before, None, Phases
    <3>. QED
      BY <1>1, <1>2, <1>3, <2>1, <2>2, <3>1 DEF IInv, Maker, TypeOK, Results, None, Phases
  <2>. QED
    BY <2>3, <2>4, <2>5 DEF Maker
<1>13. Claims'
  <2>1. local' \in {local, r, None}
    BY <1>1, <1>2, <1>3
  <2>2. Claim(local)'
    BY <1>5, <2>1 DEF IInv, Claims, Claim
  <2>3. Claim(result)'
    BY <1>1, <1>5 DEF IInv, Claims
  <2>. QED
    BY <1>5, <2>2, <2>3 DEF Claims
<1>. QED
  BY <1>7, <1>8, <1>9, <1>10, <1>11, <1>12, <1>13 DEF IInv

LEMMA PhaseEndsInv == ASSUME IInv, NEW ph \in Phases, PhaseEnds(ph) PROVE IInv'
<1>1. /\ pc = ph /\ ~Calls(ph) /\ result' = Kept /\ local' = None /\ pc' = Then(ph)
      /\ UNCHANGED <<ws, hooks, ran, panicking, status, form, bound, temps,
                     registered, open, deferred, argKind, copyFailed, header,
                     last, threw, reached, caught, setter>>
  BY DEF PhaseEnds, fileVars, histVars
<1>2. /\ pc \notin Early \cup Late \cup {"bind", "unbind", "cleanup"} /\ ~Filtered
      /\ Entered /\ Entered'
      /\ pc' \in {"bind", "finally", "cleanup"}
      /\ pc' \notin Early \cup Late \cup {"unbind"} /\ ~Filtered'
      /\ pc' = "bind" => ph = "before" /\ local = None
      /\ pc' = "cleanup" => ph = "finally"
  BY <1>1 DEF Early, Late, Filtered, Phases, Then, IInv, Throwing, Entered
<1>3. Kept \in {local, result} /\ local \in Results /\ result \in Results /\ None \in Results
  BY DEF Kept, IInv, TypeOK, Results
<1>4. TypeOK'
  <2>1. pc' \in Phases \cup {"bind", "cleanup"}
    BY <1>2 DEF Phases
  <2>2. local' \in Results /\ result' \in Results
    BY <1>1, <1>3
  <2>3. UNCHANGED <<ws, hooks, ran, panicking, status, form, bound, temps,
                    registered, open, deferred, argKind, copyFailed, header,
                    last, threw, reached, caught>>
    BY <1>1
  <2>. QED
    BY <2>1, <2>2, <2>3 DEF IInv, TypeOK
<1>5. Untouched' /\ Typed'
  BY <1>1, <1>2 DEF IInv, Untouched, Typed, Late
<1>6. Files'
  BY <1>1, <1>2 DEF IInv, Files
<1>7. Throwing'
  BY <1>1, <1>2 DEF IInv, Throwing, Inside, Entered, Phases, Then
<1>8. ran[ph] = hooks[ph] \/ (ph = "before" /\ local # None)
  BY <1>1 DEF Calls, IInv, TypeOK
<1>9. Order'
  BY <1>1, <1>2, <1>8 DEF IInv, Throwing, Order, Winner, Called, Returned,
     Inside, Entered, Then, Phases
<1>10. Winner'
  <2>1. Kept' = Kept /\ FirstOf(Ranked)' = FirstOf(Ranked)
    BY <1>1 DEF Kept, Ranked
  <2>2. /\ pc' = "finally" /\ threw = {} => ph # "finally" /\ ph # "panic"
        /\ pc' = "finally" /\ threw = {} => last["finally"] = None
    BY <1>1, <1>2 DEF IInv, Throwing, Winner, Then, Phases
  <2>. QED
    BY <1>1, <1>2, <2>1, <2>2 DEF IInv, Winner, Phases, Late
<1>11. Maker'
  <2>1. \A b, m : Before(b, m) => Before(b, m)'
    BY <1>1, <1>2 DEF Before
  <2>2. Before(None.by, None.nth)'
    BY DEF Before, None, Phases
  <2>. QED
    BY <1>1, <1>3, <2>1, <2>2 DEF IInv, Maker
<1>12. Claims'
  <2>1. Claim(result)'
    BY <1>1, <1>3, ClaimKept DEF IInv, Claims
  <2>2. Claim(local)'
    BY <1>1 DEF Claim
  <2>. QED
    BY <1>1, <2>1, <2>2 DEF IInv, Claims
<1>. QED
  BY <1>4, <1>5, <1>6, <1>7, <1>9, <1>10, <1>11, <1>12 DEF IInv

-----------------------------------------------------------------------------
(* The action and its arguments.                                           *)

LEMMA BindInv ==
    ASSUME IInv, NEW kind \in ArgKinds, NEW fails \in BOOLEAN, Bind(kind, fails)
    PROVE  IInv'
<1>1. /\ pc = "bind" /\ bound + 1 \in Args /\ bound' = bound + 1
      /\ fails => Copies(kind)
      /\ argKind' = [argKind EXCEPT ![bound + 1] = kind]
      /\ open' = IF Opens(kind) THEN open \cup {bound + 1} ELSE open
      /\ deferred' = IF Closer(kind) /\ ~fails THEN deferred \cup {bound + 1}
                     ELSE deferred
      /\ temps' = IF Copies(kind) THEN temps \cup {bound + 1} ELSE temps
      /\ registered' = IF Copies(kind) /\ Noted(kind)
                       THEN registered \cup {bound + 1} ELSE registered
      /\ copyFailed' = IF fails THEN copyFailed \cup {bound + 1} ELSE copyFailed
      /\ UNCHANGED <<ws, hooks, pc, ran, local, panicking, status, result, form,
                     header, last, threw, reached, caught, setter>>
  BY DEF Bind, histVars
<1>2. /\ bound \in 0 .. MaxArgs /\ bound' \in 0 .. MaxArgs
      /\ \A k \in 1 .. bound : k \in 1 .. bound' /\ k # bound + 1
      /\ bound + 1 \in 1 .. bound'
  BY <1>1, FilterAssumption DEF IInv, TypeOK, Args
<1>3. TypeOK'
  <2>1. argKind' \in [Args -> ArgKinds \cup {"none"}]
    BY <1>1 DEF IInv, TypeOK
  <2>2. /\ temps' \subseteq 1 .. bound' /\ registered' \subseteq 1 .. bound'
        /\ open' \subseteq 1 .. bound' /\ deferred' \subseteq 1 .. bound'
        /\ copyFailed' \subseteq 1 .. bound'
    BY <1>1, <1>2 DEF IInv, TypeOK
  <2>. QED
    BY <1>1, <1>2, <2>1, <2>2 DEF IInv, TypeOK
<1>4. pc \notin Early \cup Late
  BY <1>1 DEF Early, Late
<1>5. Files'
  <2>1. \A k \in 1 .. bound : argKind'[k] = argKind[k]
    BY <1>1, <1>2, FilterAssumption DEF IInv, TypeOK, Args
  <2>2. argKind'[bound + 1] = kind
    BY <1>1 DEF IInv, TypeOK
  <2>3. ASSUME NEW k \in temps' \ registered' PROVE argKind'[k] = "files"
    BY <1>1, <1>2, <2>1, <2>2 DEF IInv, TypeOK, Files, Noted
  <2>4. ASSUME NEW k \in open' \ deferred', argKind'[k] = "file"
        PROVE  k \in copyFailed'
    BY <1>1, <1>2, <2>1, <2>2, <2>4 DEF IInv, TypeOK, Files, Closer
  <2>. QED
    BY <1>1, <1>4, <2>3, <2>4 DEF Files
<1>6. Untouched' /\ Typed' /\ Throwing' /\ Order'
  BY <1>1, <1>4 DEF IInv, Untouched, Typed, Throwing, Order, Inside, Entered,
     Filtered, Called, Returned
<1>7. Winner' /\ Maker' /\ Claims'
  BY <1>1 DEF IInv, Winner, Kept, Ranked, Entered, Filtered, Maker, Before, Claims, Claim
<1>. QED
  BY <1>3, <1>5, <1>6, <1>7 DEF IInv

LEMMA BindPanicsInv == ASSUME IInv, BindPanics PROVE IInv'
<1>1. /\ pc = "bind" /\ panicking' = TRUE /\ threw' = threw \cup {"action"}
      /\ pc' = "unbind"
      /\ UNCHANGED <<ws, hooks, ran, local, status, result, form, bound, temps,
                     registered, open, deferred, argKind, copyFailed, header,
                     last, reached, caught, setter>>
  BY DEF BindPanics, fileVars
<1>2. /\ pc \notin Early \cup Late /\ pc' \notin Early \cup Late
      /\ ~Filtered /\ ~Filtered' /\ threw = {} /\ Entered
  BY <1>1 DEF Early, Late, Filtered, IInv, Throwing
<1>3. TypeOK'
  BY <1>1 DEF IInv, TypeOK
<1>4. Untouched' /\ Typed' /\ Files'
  BY <1>1, <1>2, FilesKept DEF IInv, Untouched, Typed, fileVars
<1>5. Throwing' /\ Order'
  BY <1>1, <1>2 DEF IInv, Throwing, Order, Inside, Entered, Called, Returned, Phases
<1>6. Winner'
  BY <1>1, <1>2 DEF Winner, Late
<1>7. Maker' /\ Claims'
  BY <1>1, <1>2 DEF IInv, Maker, Before, Claims, Claim
<1>. QED
  BY <1>3, <1>4, <1>5, <1>6, <1>7 DEF IInv

LEMMA ActionInv ==
    ASSUME IInv, NEW kind \in Kinds \cup {"none"}, Action(kind)
    PROVE  IInv'
<1>1. PICK r : r = Made("action", 1, kind)
  OBVIOUS
<1>2. /\ pc = "bind" /\ reached' = reached \cup {"action"}
      /\ Application("action", 1, kind)
      /\ \/ /\ result' = IF r = None THEN result ELSE r
            /\ last' = [last EXCEPT !["action"] = r]
            /\ UNCHANGED <<panicking, threw>>
         \/ /\ panicking' = TRUE /\ threw' = threw \cup {"action"}
            /\ UNCHANGED <<result, last>>
      /\ pc' = "unbind"
      /\ UNCHANGED <<ws, hooks, ran, local, form, bound, temps, registered, open,
                     deferred, argKind, copyFailed, header, caught>>
  BY <1>1 DEF Action, fileVars
<1>3. /\ 1 \in 1 .. MaxHooks + 1 /\ "action" \notin Phases
      /\ pc \notin Early \cup Late /\ pc' \notin Early \cup Late
      /\ ~Filtered /\ ~Filtered' /\ Entered /\ Entered' /\ threw = {} /\ "action" \notin reached
  BY <1>2, FilterAssumption DEF Phases, Early, Late, Filtered, Entered, IInv,
     Throwing, Order
<1>4. /\ r \in Results /\ (r = None <=> kind = "none")
      /\ r # None => r.by = "action" /\ r.nth = 1
  BY <1>1, <1>3, MadeTypes
<1>5. /\ status' \in {0, 200, 404, 500, Custom}
      /\ setter' \in [by : Phases \cup {"action", "router", "PanicFilter", "nobody"},
                      nth : Nat, hand : BOOLEAN]
      /\ setter' = setter \/ (setter'.by = "action" /\ setter'.nth = 1)
      /\ status' = Custom <=> setter'.hand
      /\ Claim(local) => Claim(local)' \/ local' # local
      /\ Claim(result) => Claim(result)' \/ result' # result
      /\ Claim(r)'
  BY <1>1, <1>2, <1>3, Applies
<1>6. result' \in {result, r} /\ result \in Results
  BY <1>2 DEF IInv, TypeOK
<1>7. TypeOK'
  <2>1. last' \in [Phases \cup {"action"} -> Results]
    BY <1>2, <1>4 DEF IInv, TypeOK
  <2>2. /\ panicking' \in BOOLEAN /\ threw' \subseteq Phases \cup {"action"}
        /\ reached' \subseteq {"interceptors", "action"}
    BY <1>2 DEF IInv, TypeOK
  <2>. QED
    BY <1>2, <1>4, <1>5, <1>6, <2>1, <2>2 DEF IInv, TypeOK
<1>8. Untouched' /\ Typed' /\ Files'
  BY <1>2, <1>3, <1>5, FilesKept DEF IInv, Untouched, Typed, fileVars
<1>9. Throwing'
  BY <1>2, <1>3 DEF IInv, Throwing, Inside
<1>10. Order'
  BY <1>2, <1>3 DEF IInv, TypeOK, Order, Inside, Called, Returned, Phases
<1>11. Winner'
  <2>1. CASE threw' # {}
    BY <1>2, <1>3, <2>1 DEF Winner, Late
  <2>2. CASE threw' = {}
    <3>1. /\ result' = IF r = None THEN result ELSE r
          /\ last' = [last EXCEPT !["action"] = r]
      BY <1>2, <2>2
    <3>2. /\ Kept = FirstOf(Ranked) /\ local = None
          /\ last["action"] = None /\ last["after"] = None /\ last["finally"] = None
          /\ last["before"] = None
          /\ last \in [Phases \cup {"action"} -> Results]
      BY <1>2, <1>3 DEF IInv, Winner, Order, TypeOK, Phases
    <3>3. result = None
      BY <3>2, RankedFirst DEF Kept, Ranked
    <3>4. Kept' = FirstOf(Ranked)'
      BY <1>2, <3>1, <3>2, <3>3, RankedFirst DEF Kept, Ranked, Phases
    <3>. QED
      BY <1>2, <1>3, <3>1, <3>2, <3>4 DEF Winner, Phases, Late
  <2>. QED
    BY <2>1, <2>2
<1>12. Maker'
  <2>1. \A b, m : Before(b, m) => Before(b, m)'
    BY <1>2, <1>3 DEF Before
  <2>2. Before("action", 1)'
    BY <1>2, <1>3 DEF Before
  <2>3. Before(None.by, None.nth)'
    BY DEF Before, None, Phases
  <2>. QED
    BY <1>2, <1>4, <1>5, <1>6, <2>1, <2>2, <2>3 DEF IInv, Maker
<1>13. Claims'
  <2>1. Claim(result)'
    BY <1>5, <1>6 DEF IInv, Claims, Claim
  <2>2. Claim(local)'
    BY <1>2, <1>5 DEF IInv, Claims
  <2>. QED
    BY <1>5, <2>1, <2>2 DEF Claims
<1>. QED
  BY <1>7, <1>8, <1>9, <1>10, <1>11, <1>12, <1>13 DEF IInv

LEMMA UnbindInv == ASSUME IInv, Unbind PROVE IInv'
<1>1. /\ pc = "unbind" /\ open' = open \ deferred
      /\ pc' = IF panicking THEN "panic" ELSE "after"
      /\ UNCHANGED <<ws, hooks, ran, local, panicking, status, result, form, bound,
                     temps, registered, deferred, argKind, copyFailed, header,
                     last, threw, reached, caught, setter>>
  BY DEF Unbind, StillOpen, histVars
<1>2. /\ pc \notin Early \cup Late /\ pc' \notin Early \cup Late \cup {"bind", "unbind"}
      /\ ~Filtered /\ ~Filtered' /\ Entered
  BY <1>1 DEF Early, Late, Filtered, IInv, Throwing
<1>3. TypeOK'
  BY <1>1 DEF IInv, TypeOK, Phases
<1>4. Untouched' /\ Typed' /\ Files'
  BY <1>1, <1>2 DEF IInv, Untouched, Typed, Files
<1>5. Throwing' /\ Order'
  BY <1>1, <1>2 DEF IInv, Throwing, Order, Inside, Entered, Called, Returned, Phases
<1>6. Winner' /\ Maker' /\ Claims'
  BY <1>1, <1>2 DEF IInv, Winner, Throwing, Kept, Ranked, Entered, Maker, Before,
                    Claims, Claim, Phases
<1>. QED
  BY <1>3, <1>4, <1>5, <1>6 DEF IInv

-----------------------------------------------------------------------------
(* The way back through the filters.                                       *)

LEMMA CleanupInv == ASSUME IInv, Cleanup PROVE IInv'
<1>1. /\ pc = "cleanup" /\ pc' = "recover"
      /\ form' = IF form = "disk" THEN "none" ELSE form
      /\ temps' = temps \ registered
      /\ UNCHANGED <<ws, hooks, ran, local, panicking, status, result, bound,
                     registered, open, deferred, argKind, copyFailed, header,
                     last, threw, reached, caught, setter>>
  BY DEF Cleanup, histVars
<1>2. /\ pc \notin Early \cup Late /\ pc' \notin Early /\ pc' \in Late
      /\ ~Filtered /\ ~Filtered' /\ Entered /\ Entered'
  BY <1>1 DEF Early, Late, Filtered, IInv, Throwing, Entered
<1>3. TypeOK'
  BY <1>1 DEF IInv, TypeOK
<1>4. Untouched' /\ Typed' /\ Files'
  BY <1>1, <1>2 DEF IInv, Untouched, Typed, Files
<1>5. Throwing' /\ Order'
  BY <1>1, <1>2 DEF IInv, Throwing, Order, Inside, Entered, Called, Returned, Phases
<1>6. Winner' /\ Maker' /\ Claims'
  BY <1>1, <1>2 DEF IInv, Winner, Kept, Ranked, Entered, Maker, Before, Claims,
                    Claim, Phases
<1>. QED
  BY <1>3, <1>4, <1>5, <1>6 DEF IInv

LEMMA RecoverInv == ASSUME IInv, Recover PROVE IInv'
<1>1. PICK r : r = Made("PanicFilter", 1, "error")
  OBVIOUS
<1>2. /\ pc = "recover" /\ pc' = "apply" /\ caught' = panicking /\ panicking' = FALSE
      /\ panicking => FilterSets("PanicFilter", "error") /\ result' = r
      /\ ~panicking => UNCHANGED <<status, setter, result>>
      /\ UNCHANGED <<ws, hooks, ran, local, form, bound, temps, registered, open,
                     deferred, argKind, copyFailed, header, last, threw, reached>>
  BY <1>1 DEF Recover, FilterSets, fileVars
<1>3. /\ pc \notin Early /\ pc' \notin Early /\ pc \in Late /\ pc' \in Late
      /\ ~Filtered /\ Filtered' /\ "PanicFilter" \notin Phases
  BY <1>2 DEF Early, Late, Filtered, Phases
<1>4. /\ r \in Results /\ r # None /\ r.by = "PanicFilter" /\ r.nth = 1
      /\ r.kind = "error"
  BY <1>1, FilterAssumption, MadeTypes DEF Kinds
<1>5. /\ status' \in {0, 200, 404, 500, Custom}
      /\ setter' \in [by : Phases \cup {"action", "router", "PanicFilter", "nobody"},
                      nth : Nat, hand : BOOLEAN]
      /\ setter' = setter \/ (setter'.by = "PanicFilter" /\ setter'.nth = 1)
      /\ status' = Custom <=> setter'.hand
      /\ Claim(local)' /\ Claim(result)'
  <2>1. CASE panicking
    <3>1. TypeOK /\ Typed /\ (status = Custom <=> setter.hand) /\ Claim(local)
      BY DEF IInv, Claims
    <3>2. <<setter.by, setter.nth>> # <<"PanicFilter", 1>> /\ "error" \in Kinds
      BY <1>3 DEF IInv, Maker, Before, Kinds
    <3>3. local # None => <<local.by, local.nth>> # <<"PanicFilter", 1>>
      BY <1>3 DEF IInv, Maker, Before
    <3>4. /\ status' \in {0, 200, 404, 500, Custom}
          /\ setter' \in [by : Phases \cup {"action", "router", "PanicFilter", "nobody"},
                          nth : Nat, hand : BOOLEAN]
          /\ setter' = setter \/ (setter'.by = "PanicFilter" /\ setter'.nth = 1)
          /\ status' = Custom <=> setter'.hand
          /\ \A s \in Results : Claim(s) /\ <<s.by, s.nth>> # <<"PanicFilter", 1>> => Claim(s)'
          /\ Claim(r)'
      BY <1>1, <1>2, <2>1, <3>1, <3>2, FilterClaims
    <3>5. Claim(local)'
      BY <1>2, <3>1, <3>3, <3>4 DEF TypeOK, Claim
    <3>6. Claim(result)'
      BY <1>2, <2>1, <3>4 DEF Claim
    <3>. QED
      BY <3>4, <3>5, <3>6
  <2>2. CASE ~panicking
    BY <1>2, <2>2 DEF IInv, TypeOK, Typed, Claims, Claim
  <2>. QED
    BY <2>1, <2>2
<1>6. result' \in {result, r}
  BY <1>2
<1>7. TypeOK'
  <2>1. result' \in Results /\ panicking' \in BOOLEAN /\ caught' \in BOOLEAN
    BY <1>2, <1>4, <1>6 DEF IInv, TypeOK
  <2>. QED
    BY <1>2, <1>5, <2>1 DEF IInv, TypeOK
<1>8. Untouched' /\ Typed' /\ Files'
  BY <1>2, <1>3, <1>5, FilesKept DEF IInv, Untouched, Typed, fileVars
<1>9. Throwing' /\ Order'
  BY <1>2, <1>3 DEF IInv, Throwing, Order, Inside, Entered, Called, Returned, Phases
<1>10. Winner'
  <2>1. Entered /\ threw = {} => /\ Kept' = Kept /\ FirstOf(Ranked)' = FirstOf(Ranked)
    BY <1>2 DEF Kept, Ranked, IInv, Throwing
  <2>. QED
    BY <1>1, <1>2, <1>3, <2>1 DEF IInv, Throwing, Winner, Entered, Phases
<1>11. Maker'
  <2>1. \A b, m : Before(b, m) => Before(b, m)'
    BY <1>2, <1>3 DEF Before
  <2>2. Before("PanicFilter", 1)'
    BY <1>2, <1>3 DEF Before
  <2>. QED
    BY <1>2, <1>4, <1>5, <1>6, <2>1, <2>2 DEF IInv, Maker
<1>12. Claims'
  BY <1>5 DEF Claims
<1>. QED
  BY <1>7, <1>8, <1>9, <1>10, <1>11, <1>12 DEF IInv

LEMMA ApplyInv == ASSUME IInv, Apply PROVE IInv'
<1>1. /\ pc = "apply" /\ pc' \in {"done", "aborted"}
      /\ header' \in {<<>>, <<status>>, header}
      /\ header' = <<status>> => status # 0
      /\ UNCHANGED <<ws, hooks, ran, local, panicking, status, result, form, bound,
                     temps, registered, open, deferred, argKind, copyFailed,
                     last, threw, reached, caught, setter>>
  BY DEF Apply, Written, fileVars, histVars, IInv, Claims, Claim, None
<1>2. /\ pc \notin Early /\ pc' \notin Early /\ pc \in Late /\ pc' \in Late
      /\ Filtered /\ Filtered'
  BY <1>1 DEF Early, Late, Filtered
<1>3. TypeOK'
  <2>1. status # 0 => <<status>> \in Seq({200, 404, 500, Custom})
    BY DEF IInv, TypeOK
  <2>2. header \in Seq({200, 404, 500, Custom}) /\ <<>> \in Seq({200, 404, 500, Custom})
    BY DEF IInv, TypeOK
  <2>3. header' \in Seq({200, 404, 500, Custom})
    <3>1. CASE header' = <<status>>
      BY <1>1, <2>1, <3>1
    <3>2. CASE header' = <<>> \/ header' = header
      BY <2>2, <3>2
    <3>. QED
      BY <1>1, <3>1, <3>2
  <2>. QED
    BY <1>1, <2>3 DEF IInv, TypeOK
<1>4. Untouched' /\ Typed' /\ Files'
  BY <1>1, <1>2, FilesKept DEF IInv, Untouched, Typed, fileVars
<1>5. Throwing' /\ Order'
  BY <1>1, <1>2 DEF IInv, Throwing, Order, Inside, Entered, Called, Returned, Phases
<1>6. Winner' /\ Maker' /\ Claims'
  BY <1>1, <1>2 DEF IInv, Winner, Kept, Ranked, Entered, Maker, Before, Claims,
                    Claim, Phases
<1>. QED
  BY <1>3, <1>4, <1>5, <1>6 DEF IInv

-----------------------------------------------------------------------------
LEMMA NextInv == ASSUME IInv, Next PROVE IInv'
<1>1. CASE Start \/ RouteRequest
  BY <1>1, BootInv
<1>2. CASE RouteMissing \/ RoutePanics \/ RouteMatched \/ Parse
  BY <1>2, RouteMissingInv, RoutePanicsInv, RouteMatchedInv, ParseInv
<1>3. ASSUME NEW ph \in Phases,
             (\E kind \in Kinds \cup {"none"} : Intercept(ph, kind)) \/ PhaseEnds(ph)
      PROVE  IInv'
  BY <1>3, InterceptInv, PhaseEndsInv
<1>4. ASSUME NEW kind \in ArgKinds, NEW fails \in BOOLEAN, Bind(kind, fails)
      PROVE  IInv'
  BY <1>4, BindInv
<1>5. ASSUME NEW kind \in Kinds \cup {"none"}, Action(kind) PROVE IInv'
  BY <1>5, ActionInv
<1>6. CASE BindPanics \/ Unbind \/ Cleanup \/ Recover \/ Apply
  BY <1>6, BindPanicsInv, UnbindInv, CleanupInv, RecoverInv, ApplyInv
<1>. QED
  BY <1>1, <1>2, <1>3, <1>4, <1>5, <1>6 DEF Next, FilterStep

LEMMA StutterInv == ASSUME IInv, UNCHANGED vars PROVE IInv'
<1>. USE DEF vars, appVars, fileVars, histVars
<1>1. TypeOK' /\ Untouched' /\ Typed' /\ Files'
  BY DEF IInv, TypeOK, Untouched, Typed, Files
<1>2. Throwing' /\ Order'
  BY DEF IInv, Throwing, Order, Inside, Entered, Filtered, Called, Returned
<1>3. Winner' /\ Maker' /\ Claims'
  BY DEF IInv, Winner, Kept, Ranked, Entered, Filtered, Maker, Before, Claims, Claim
<1>. QED
  BY <1>1, <1>2, <1>3 DEF IInv

LEMMA InductiveInv == Spec => []IInv
<1>1. IInv /\ [Next]_vars => IInv'
  BY NextInv, StutterInv
<1>. QED
  BY InitInv, <1>1, PTL DEF Spec

(* Every variable keeps its type; no interceptor is called that is not     *)
(* registered, and a status line holds a status.                           *)
THEOREM TypeCorrect == Spec => []TypeOK
<1>1. IInv => TypeOK
  BY DEF IInv
<1>. QED
  BY <1>1, InductiveInv, PTL

(* Wherever a request panics, the filters leave no form on disk, and no    *)
(* file but those of a slice's elements and those whose copy failed.       *)
THEOREM AlwaysCleanedUp == Spec => []CleanedUp
<1>1. IInv => CleanedUp
  BY DEF IInv, Files, CleanedUp, Filtered, Late
<1>. QED
  BY <1>1, InductiveInv, PTL

(* FINALLY interceptors are all called, PANIC interceptors just when       *)
(* something inside panicked, and the action and the AFTER interceptors    *)
(* only after what precedes them, however many interceptors there are.     *)
THEOREM InterceptorsInOrder == Spec => []InterceptorsRun
<1>1. ASSUME IInv PROVE InterceptorsRun
  <2>. SUFFICES ASSUME Filtered PROVE InterceptorsRun
    BY DEF InterceptorsRun
  <2>1. pc \in Late
    BY DEF Filtered, Late
  <2>. QED
    BY <1>1, <2>1 DEF IInv, Throwing, Order, Called, Returned, Inside, Entered,
                      Late, InterceptorsRun
<1>. QED
  BY <1>1, InductiveInv, PTL

(* The result that is applied is PanicFilter's if anything panicked, else  *)
(* the last of the FINALLY or AFTER interceptors, of the action, or of the *)
(* BEFORE interceptors, or the router's.                                   *)
THEOREM WinnerApplied == Spec => []ResultWinner
<1>1. ASSUME IInv PROVE ResultWinner
  <2>1. Filtered => pc \in Late /\ pc \notin Phases
    BY DEF Filtered, Late, Phases
  <2>2. Filtered /\ ~caught /\ Entered => local = None /\ Kept = FirstOf(Ranked)
    BY <1>1, <2>1 DEF IInv, Throwing, Winner
  <2>. QED
    BY <1>1, <2>2 DEF IInv, Winner, ResultWinner, Entered, Kept
<1>. QED
  BY <1>1, InductiveInv, PTL

(* A request gets one status line at most, that of its result unless       *)
(* application code has set the status by hand, or something had made a    *)
(* result before.                                                          *)
THEOREM StatusExplained == Spec => []StatusCauses
<1>1. ASSUME IInv PROVE StatusCauses
  <2>1. /\ Len(header) <= 1
        /\ header # <<>> => header[1] = status
    <3>1. header = <<>> \/ header = <<status>>
      BY <1>1 DEF IInv, Typed
    <3>2. CASE header = <<>>
      BY <3>2
    <3>3. CASE header = <<status>>
      BY <3>3
    <3>. QED
      BY <3>1, <3>2, <3>3
  <2>2. Claim(result)
    BY <1>1 DEF IInv, Claims
  <2>3. None.kind # "notFound"
    BY DEF None
  <2>. QED
    BY <2>1, <2>2, <2>3 DEF Claim, StatusCauses
<1>. QED
  BY <1>1, InductiveInv, PTL
=============================================================================
