----------------------------- MODULE WebSocket -----------------------------
(***************************************************************************)
(* How a WSockConnection of a server becomes a WebSocket                   *)
(* (src/include/websocket/wsock_connection.hpp and wsock_factory.hpp): the *)
(* client's upgrade request arrives in pieces, TcpSocket asks              *)
(* handle_package() for the length of the next package and hands that many *)
(* bytes to the factory, which parses them as a request and answers.       *)
(* handle_package() reads a frame header, whatever the connection's state. *)
(*                                                                         *)
(* Of a request the model keeps its length, its second byte and where the  *)
(* two headers that matter end.                                            *)
(***************************************************************************)
EXTENDS Naturals

CONSTANT Requests   \* records [len, second, upgrade, key]; path and key are good

VARIABLES
  request,        \* what the client sends
  arrived,        \* bytes of it that have arrived
  taken,          \* bytes handed to the factory
  is_websocket,
  answer,         \* status code of the response, or 0
  closed
vars == <<request, arrived, taken, is_websocket, answer, closed>>

Init == /\ request \in Requests /\ arrived = 0 /\ taken = 0
        /\ is_websocket = FALSE /\ answer = 0 /\ closed = FALSE

(* The second byte of a text has no mask bit: 2 bytes and the length, or   *)
(* none yet while less than a MinFrameHead has arrived.  The extended      *)
(* lengths behind 126 and 127 are left out: no request has "~" or DEL for  *)
(* its second byte.                                                        *)
MinFrameHead == 16
get_message_length(second, len) ==
  IF len < MinFrameHead THEN 0
  ELSE 2 + (IF second >= 128 THEN 4 ELSE 0) + (second % 128)

handle_package(second, len) ==
  LET wsLen == get_message_length(second, len) IN IF wsLen > len THEN 0 ELSE wsLen

(* upgrade_websocket() and write(): 101, or an error and close().          *)
upgrade_websocket(len) ==
  IF request.key <= len THEN /\ answer' = 101 /\ is_websocket' = TRUE /\ UNCHANGED closed
  ELSE answer' = 400 /\ closed' = TRUE /\ UNCHANGED is_websocket

(* WSockFactory::handle_data() in WSOCK_INIT: what it is handed is taken   *)
(* for the whole request.                                                  *)
handle_data(len) ==
  IF request.upgrade <= len THEN upgrade_websocket(len)
  ELSE answer' = 404 /\ closed' = TRUE /\ UNCHANGED is_websocket

Arrive(n) == /\ ~closed /\ arrived + n <= request.len /\ arrived' = arrived + n
             /\ UNCHANGED <<request, taken, is_websocket, answer, closed>>

process_data ==
  LET pkgLen == handle_package(request.second, arrived)
  IN /\ ~closed /\ ~is_websocket /\ pkgLen > 0
     /\ taken' = pkgLen /\ handle_data(pkgLen)
     /\ UNCHANGED <<request, arrived>>

Next == (\E n \in 1 .. request.len : Arrive(n)) \/ process_data

Spec == Init /\ [][Next]_vars

(* A good upgrade request is only ever answered with 101: the server side  *)
(* of the protocol, as README.md:97 announces it.                          *)
GoodRequestUpgrades == answer # 0 => answer = 101
=============================================================================
