---------------------------- MODULE MCWebSocket ----------------------------
(* "GET /echo HTTP/1.1" (the second byte is an E, 69), the Host, Upgrade   *)
(* and Connection headers and the key in two orders.                       *)
EXTENDS WebSocket
MCRequests == {[len |-> 130, second |-> 69, upgrade |-> 62, key |-> 128],
               [len |-> 130, second |-> 69, upgrade |-> 128, key |-> 87]}
=============================================================================
