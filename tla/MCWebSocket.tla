----------------------------- MODULE MCWebSocket -----------------------------
(***************************************************************************)
(* WebSocket for TLC: what the peer may send and the lists of protocols.   *)
(* One frame has no mask: a server refuses it, and a client any other.     *)
(***************************************************************************)
EXTENDS WebSocket

CONSTANTS p, q, r, w, c

F(kind, masked, len) == [kind |-> kind, masked |-> masked, len |-> len]

MCFrames == {F("text", TRUE, 2), F("continuation", TRUE, 1), F("ping", TRUE, 2),
             F("pong", TRUE, 0), F("close", TRUE, 0), F("reserved", TRUE, 0),
             F("binary", FALSE, 1)}
MCOffers == {<<>>, <<p>>, <<q>>, <<p, q>>}
MCConfigured == {<<>>, <<p>>}
=============================================================================
