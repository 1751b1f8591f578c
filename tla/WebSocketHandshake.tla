-------------------------- MODULE WebSocketHandshake --------------------------
(***************************************************************************)
(* The opening handshake of net/websocket: a client sends a request, the   *)
(* server reads it, asks its Handshake function and answers, the client    *)
(* checks the answer.  Either end may be another implementation: a request *)
(* or an answer then has at most one defect.                               *)
(***************************************************************************)
EXTENDS Sequences, SequencesExt

CONSTANTS
    Protocols, NoProtocol,
    Offers,         \* lists of protocols a client asks for
    Configured      \* lists a Server's Config may start with

ASSUME HandshakeAssumption ==
    /\ NoProtocol \notin Protocols
    /\ Offers \subseteq Seq(Protocols) /\ Configured \subseteq Seq(Protocols)

VARIABLE hs     \* the handshake: its stage and what the ends know

\* what makes ReadHandshake refuse a request, by the status it answers with
Refusals == [method |-> 405, upgrade |-> 400, key |-> 400, version |-> 400,
             url |-> 400, none |-> 101]
\* NewConfig, DialConfig and hybiClientHandshake give up before a request, or
\* generateNonce panics
DialErrors == {"location", "origin", "scheme", "dial", "version", "header",
               "nonce"}
\* hybiClientHandshake's checks of an answer but for the protocol
ReplyDefects == {"status", "upgrade", "accept", "extensions", "none"}
\* Handler.ServeHTTP; a Server with no Handshake; a Server with one of its own
Servers == {"handler", "bare", "chooser"}

HandshakeInit == hs = [stage |-> "dial"]

\* the client is this package: its requests have an Origin and no defect
DialConfig ==
    /\ hs.stage = "dial"
    /\ \/ \E e \in DialErrors : hs' = [stage |-> "failed", why |-> e]
       \/ \E o \in Offers : hs' = [stage |-> "sent", offered |-> o,
                                   defect |-> "none", origin |-> "ok"]

\* another client
Request ==
    /\ hs.stage = "dial"
    /\ \E o \in Offers, d \in DOMAIN Refusals, r \in {"ok", "bad", "none"} :
          hs' = [stage |-> "sent", offered |-> o, defect |-> d, origin |-> r]

-----------------------------------------------------------------------------
\* c.Protocol: what was configured, then what was offered
ReadProtocol(configured, offered) == configured \o offered

\* what the Handshake function may make of the request: its error and the
\* protocols it leaves in the Config
Handshake(server, origin, protocol) ==
    CASE server = "handler" -> {[ok |-> origin = "ok", protocol |-> protocol]}
      [] server = "bare"    -> {[ok |-> TRUE, protocol |-> protocol]}
      [] OTHER -> [ok : BOOLEAN,
                   protocol : {protocol, <<>>} \cup {<<p>> : p \in Protocols}]

AcceptsAny(protocol) == TRUE            \* mutant: the first one is taken
AcceptHandshake(protocol) == Len(protocol) <= 1

Status(code, answer) ==
    CASE code # 101                           -> code
      [] ~answer.ok                           -> 403
      [] ~AcceptHandshake(answer.protocol)    -> 400
      [] OTHER                                -> 101

Named(protocol) == IF protocol = <<>> THEN NoProtocol ELSE Head(protocol)

\* newServerConn, for one Server and one request.  The Handler runs with a
\* Conn if the status is 101; serveWebSocket closes the connection if not
NewServerConn ==
    /\ hs.stage = "sent"
    /\ \E server \in Servers, configured \in Configured :
         /\ server = "handler" => configured = <<>>
         /\ \E answer \in Handshake(server, hs.origin,
                                    ReadProtocol(configured, hs.offered)) :
              LET status == Status(Refusals[hs.defect], answer)
              IN  hs' = [stage |-> "answered", offered |-> hs.offered,
                         request |-> hs, server |-> server,
                         configured |-> configured, config |-> answer.protocol,
                         status |-> status, defect |-> "none",
                         protocol |-> Named(answer.protocol)]

\* serveWebSocket panics, having no connection to answer on; or no answer, or
\* a part of one, gets out, and the connection is closed without a Handler
AnswerFails ==
    /\ hs.stage = "sent"
    /\ \E e \in {"hijack", "write"} : hs' = [stage |-> "failed", why |-> e]

\* another server, which answers as it likes
Reply ==
    /\ hs.stage = "sent"
    /\ \E d \in ReplyDefects, p \in Protocols \cup {NoProtocol} :
          hs' = [stage |-> "answered", offered |-> hs.offered, request |-> hs,
                 server |-> "other", configured |-> <<>>,
                 config |-> IF p = NoProtocol THEN <<>> ELSE <<p>>,
                 status |-> IF d = "status" THEN 200 ELSE 101,
                 defect |-> d, protocol |-> p]

\* the client's checks
Accepted ==
    /\ hs.status = 101 /\ hs.defect = "none"
    /\ hs.protocol = NoProtocol \/ Contains(hs.offered, hs.protocol)

\* config.Protocol afterwards
ClientProtocol == IF hs.protocol = NoProtocol THEN hs.offered
                  ELSE <<hs.protocol>>

NewClient ==
    /\ hs.stage = "answered"
    /\ hs' = [stage |-> IF Accepted THEN "open" ELSE "failed"]

HandshakeNext ==
    DialConfig \/ Request \/ NewServerConn \/ AnswerFails \/ Reply \/ NewClient

-----------------------------------------------------------------------------
(***************************************************************************)
(* This server and a client agree.  A server that answers with 101, and so *)
(* runs its Handler, has a client that goes on -- unless it names a        *)
(* protocol its Config or Handshake made up; a client that sees a          *)
(* connection has a server that runs its Handler.  The Config of both ends *)
(* then has the same protocol, unless the server named none: the client's  *)
(* keeps all it had offered.  A sound request with an Origin is served by  *)
(* a Handler exactly when it offers one protocol at most, for no one then  *)
(* chooses; and by a Server without a Handshake when the configured and    *)
(* the offered protocols are one at most.                                  *)
(***************************************************************************)
HandshakeAgrees ==
    hs.stage = "answered" /\ hs.server # "other" =>
        /\ hs.status = 101 =>
             /\ Accepted \/ ~Contains(hs.offered, Head(hs.config))
             /\ Accepted =>
                  (ClientProtocol = hs.config
                   <=> hs.config # <<>> \/ hs.offered = <<>>)
        /\ Accepted => hs.status = 101 /\ Len(hs.config) <= 1
        /\ hs.request.defect = "none" /\ hs.request.origin = "ok"
           /\ hs.server # "chooser" =>
             (hs.status = 101
              <=> Len(hs.configured) + Len(hs.offered) <= 1)
=============================================================================
