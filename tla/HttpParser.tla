----------------------------- MODULE HttpParser -----------------------------
(***************************************************************************)
(* http_parser_execute() of src/include/http/http_parser.hpp, byte by byte.*)
(*                                                                         *)
(* A peer's stream is cut into buffers where the network happens to cut it.*)
(* Feed is one turn of the loop over the bytes of a buffer, EndBuffer the  *)
(* end of one call and the start of the next, Eof the call with length 0.  *)
(*                                                                         *)
(* The bytes are abstracted to lumps: a lump is a run of bytes that the    *)
(* parser treats alike, such as a method, the tail of a header name        *)
(* ("nection" after "c", "on") or a digit.  No buffer ends inside a lump,  *)
(* but names, values and start lines all consist of several.  nread counts *)
(* lumps.  The numbers are kept as numbers: content_length has MaxU for    *)
(* ULLONG_MAX, and digits are 0 and 1.                                     *)
(***************************************************************************)
EXTENDS HttpParserUrl, FiniteSetsExt

CONSTANTS
  MaxU,               \* ULLONG_MAX
  max_header_size,    \* lumps of header the parser accepts
  MaxBody,            \* bound on the body that only the end of stream ends
  Types,              \* the parser types that are used
  Answers,            \* what on_headers_complete returns: 0, 1, 2, or an error
  StartLines, HeaderLines, ChunkLines   \* what peers send, as sequences of lumps

ASSUME HttpAssumption ==
  /\ Types \subseteq {"HTTP_REQUEST", "HTTP_RESPONSE", "HTTP_BOTH"}
  /\ MaxU \in Nat /\ MaxU > 1 /\ max_header_size \in Nat

VARIABLES
  parser,     \* struct http_parser
  mark,       \* the five local marks: bytes since the mark, -1 if it is not set
  script,     \* what the peer is about to send
  (* Observers, not state of the code: *)
  whole,      \* the marks of a parser that gets the stream in one buffer
  got,        \* bytes handed over of the present element
  ended,      \* [got, whole] of the elements that the last byte ended
  last,       \* the last callback, "disorder" once one came out of turn
  line,       \* the header line read so far
  said,       \* what the header lines of this message say, see HeaderSays
  body        \* [got, due]: body bytes handed over, body bytes announced
vars == <<parser, mark, script, whole, got, ended, last, line, said, body>>

Element == {"header_field", "header_value", "url", "body", "status"}
NoMark == [e \in Element |-> -1]

BodyState == {"s_chunk_data", "s_chunk_data_almost_done", "s_chunk_data_done",
              "s_body_identity", "s_body_identity_eof", "s_message_done"}
PARSING_HEADER(s) == s \notin BodyState
UrlState == {"s_req_schema", "s_req_schema_slash", "s_req_schema_slash_slash",
             "s_req_server_start", "s_req_server", "s_req_server_with_at", "s_req_path",
             "s_req_query_string_start", "s_req_query_string", "s_req_fragment_start",
             "s_req_fragment"}

Method == {"GET", "CONNECT"}
StatusCode == {"101", "200", "204"}
Digit(ch) == IF ch = "1" THEN 1 ELSE 0

TOKEN(ch) == ch \in {"c", "on", "nection", "tent-length", "t", "ransfer-encoding", "u", "pgrade",
                     "p", "roxy-connection", "k", "eep-alive", "lose", "hunked", "a", "0", "1"}

----------------------------------------------------------------------------
(* The macros: a step returns the parser with its effects in order.        *)
To(p, s) == [p EXCEPT !.state = s]
SET_ERRNO(p, e) == [p EXCEPT !.http_errno = e]
MARK(p, e) == [p EXCEPT !.effects = Append(@, [do |-> "mark", of |-> e, extra |-> 0])]
CALLBACK_DATA(p, e) == [p EXCEPT !.effects = Append(@, [do |-> "data", of |-> e, extra |-> 0])]
CALLBACK_NOTIFY(p, n) == [p EXCEPT !.effects = Append(@, [do |-> "notify", of |-> n, extra |-> 0])]
ASSERT(p, good, next) == IF good THEN next ELSE SET_ERRNO(p, "assert")

http_message_needs_eof(p) ==
  /\ p.type # "HTTP_REQUEST"
  /\ p.status_code \notin {"101", "204"}
  /\ "F_SKIPBODY" \notin p.flags
  /\ "F_CHUNKED" \notin p.flags
  /\ p.content_length = MaxU

http_should_keep_alive(p) ==
  /\ IF p.http11 THEN "F_CONNECTION_CLOSE" \notin p.flags
     ELSE "F_CONNECTION_KEEP_ALIVE" \in p.flags
  /\ ~http_message_needs_eof(p)

(* Mutant: keep-alive is not looked at.                                    *)
NewMessageAlways(p) == IF p.type = "HTTP_REQUEST" THEN "s_start_req" ELSE "s_start_res"
NEW_MESSAGE(p) ==
  IF ~http_should_keep_alive(p) THEN "s_dead"
  ELSE IF p.type = "HTTP_REQUEST" THEN "s_start_req" ELSE "s_start_res"

http_parser_init(t, answer) ==
  [type |-> t,
   state |-> CASE t = "HTTP_REQUEST" -> "s_start_req"
               [] t = "HTTP_RESPONSE" -> "s_start_res"
               [] OTHER -> "s_start_req_or_res",
   header_state |-> "h_general", flags |-> {}, content_length |-> 0, method |-> "none",
   http11 |-> FALSE, status_code |-> "none", upgrade |-> FALSE, nread |-> 0,
   http_errno |-> "HPE_OK", on_headers_complete |-> answer, left |-> FALSE, effects |-> <<>>]

----------------------------------------------------------------------------
(* The start line                                                          *)
Fresh(p) == [p EXCEPT !.flags = {}, !.content_length = MaxU]

StartReq(p, ch) ==
  IF ch \in {"CR", "LF"} THEN p
  ELSE IF ch \notin Method THEN SET_ERRNO(Fresh(p), "HPE_INVALID_METHOD")
  ELSE CALLBACK_NOTIFY(To([Fresh(p) EXCEPT !.method = ch], "s_req_method"), "message_begin")

StartRes(p, ch) ==
  IF ch \in {"CR", "LF"} THEN p
  ELSE IF ch # "H" THEN SET_ERRNO(Fresh(p), "HPE_INVALID_CONSTANT")
  ELSE CALLBACK_NOTIFY(To(Fresh(p), "s_res_H"), "message_begin")

StartReqOrRes(p, ch) ==
  IF ch \in {"CR", "LF"} THEN p
  ELSE IF ch = "H" THEN CALLBACK_NOTIFY(To(Fresh(p), "s_res_or_resp_H"), "message_begin")
  ELSE StartReq(To([Fresh(p) EXCEPT !.type = "HTTP_REQUEST"], "s_start_req"), ch)

(* "TTP/" makes it a response, "EAD" a HEAD request.                       *)
ResOrRespH(p, ch) ==
  IF ch = "TTP/" THEN To([p EXCEPT !.type = "HTTP_RESPONSE"], "s_res_http_major")
  ELSE IF ch = "EAD" THEN To([p EXCEPT !.type = "HTTP_REQUEST", !.method = "HEAD"], "s_req_method")
  ELSE SET_ERRNO(p, "HPE_INVALID_CONSTANT")

ReqMethod(p, ch) == IF ch = "SP" THEN To(p, "s_req_spaces_before_url")
                    ELSE SET_ERRNO(p, "HPE_INVALID_METHOD")

ReqUrl(p, ch) ==
  LET from == IF p.state # "s_req_spaces_before_url" THEN p.state
              ELSE IF p.method = "CONNECT" THEN "s_req_server_start" ELSE p.state
      next == parse_url_char(from, ch)
      q == IF p.state = "s_req_spaces_before_url" THEN MARK(p, "url") ELSE p
      early == p.state \in {"s_req_schema", "s_req_schema_slash", "s_req_schema_slash_slash",
                            "s_req_server_start"}
  IN IF p.state = "s_req_spaces_before_url" /\ ch = "SP" THEN p
     ELSE IF early /\ ch \in {"SP", "CR", "LF"} THEN SET_ERRNO(p, "HPE_INVALID_URL")
     ELSE IF p.state # "s_req_spaces_before_url" /\ ch = "SP"
          THEN CALLBACK_DATA(To(p, "s_req_http_start"), "url")
     ELSE IF p.state # "s_req_spaces_before_url" /\ ch \in {"CR", "LF"}
          THEN CALLBACK_DATA(To([p EXCEPT !.http11 = FALSE],
                                IF ch = "CR" THEN "s_req_line_almost_done"
                                ELSE "s_header_field_start"), "url")
     ELSE IF next = "s_dead" THEN SET_ERRNO(To(q, next), "HPE_INVALID_URL")
     ELSE To(q, next)

(* "HTTP/", a major and a minor number, in a request and in a response.    *)
ReqVersion(p, ch) ==
  CASE p.state = "s_req_http_start" /\ ch = "SP" -> p
    [] p.state = "s_req_http_start" /\ ch = "H" -> To(p, "s_req_http_H")
    [] p.state = "s_req_http_H" /\ ch = "TTP/" -> To(p, "s_req_http_major")
    [] p.state = "s_req_http_major" /\ ch = "1." -> To(p, "s_req_http_minor")
    [] p.state = "s_req_http_minor" /\ IS_NUMBER(ch) ->
         To([p EXCEPT !.http11 = (ch = "1")], "s_req_http_end")
    [] p.state = "s_req_http_end" /\ ch = "CR" -> To(p, "s_req_line_almost_done")
    [] p.state = "s_req_http_end" /\ ch = "LF" -> To(p, "s_header_field_start")
    [] OTHER -> SET_ERRNO(p, IF p.state = "s_req_http_start" THEN "HPE_INVALID_CONSTANT"
                             ELSE IF p.state = "s_req_http_H" THEN "HPE_STRICT"
                             ELSE "HPE_INVALID_VERSION")
ResVersion(p, ch) ==
  CASE p.state = "s_res_H" /\ ch = "TTP/" -> To(p, "s_res_http_major")
    [] p.state = "s_res_http_major" /\ ch = "1." -> To(p, "s_res_http_minor")
    [] p.state = "s_res_http_minor" /\ IS_NUMBER(ch) ->
         To([p EXCEPT !.http11 = (ch = "1")], "s_res_http_end")
    [] p.state = "s_res_http_end" /\ ch = "SP" -> To(p, "s_res_first_status_code")
    [] OTHER -> SET_ERRNO(p, IF p.state = "s_res_H" THEN "HPE_STRICT" ELSE "HPE_INVALID_VERSION")

ResStatus(p, ch) ==
  CASE ch = "CR" -> CALLBACK_DATA(To(p, "s_res_line_almost_done"), "status")
    [] ch = "LF" -> CALLBACK_DATA(To(p, "s_header_field_start"), "status")
    [] OTHER -> p
ResStatusStart(p, ch) ==
  LET q == MARK(To(p, "s_res_status"), "status")
  IN IF ch \in {"CR", "LF"} THEN ResStatus(q, ch) ELSE q
ResCode(p, ch) ==
  CASE p.state = "s_res_first_status_code" /\ ch = "SP" -> p
    [] p.state = "s_res_first_status_code" /\ ch \in StatusCode ->
         To([p EXCEPT !.status_code = ch], "s_res_status_code")
    [] p.state = "s_res_status_code" /\ ch = "SP" -> To(p, "s_res_status_start")
    [] p.state = "s_res_status_code" /\ ch \in {"CR", "LF"} -> ResStatusStart(p, ch)
    [] OTHER -> SET_ERRNO(p, "HPE_INVALID_STATUS")

LineAlmostDone(p, ch) ==
  IF ch = "LF" THEN To(p, "s_header_field_start")
  ELSE SET_ERRNO(p, IF p.state = "s_res_line_almost_done" THEN "HPE_STRICT" ELSE "HPE_LF_EXPECTED")

----------------------------------------------------------------------------
(* The end of the headers and the body                                     *)
MessageComplete(p) ==
  [CALLBACK_NOTIFY(To(p, NEW_MESSAGE(p)), "message_complete") EXCEPT !.left = p.upgrade]

HeadersDone(p0) ==
  LET p == [p0 EXCEPT !.nread = 0]
      hasBody == "F_CHUNKED" \in p.flags \/ p.content_length \notin {0, MaxU}
      leaves == p.upgrade /\ (p.method = "CONNECT" \/ "F_SKIPBODY" \in p.flags \/ ~hasBody)
      Complete == CALLBACK_NOTIFY(To(p, NEW_MESSAGE(p)), "message_complete")
  IN IF leaves THEN [Complete EXCEPT !.left = TRUE]
     ELSE IF "F_SKIPBODY" \in p.flags THEN Complete
     ELSE IF "F_CHUNKED" \in p.flags THEN To(p, "s_chunk_size_start")
     ELSE IF p.content_length = 0 THEN Complete
     ELSE IF p.content_length # MaxU THEN To(p, "s_body_identity")
     ELSE IF ~http_message_needs_eof(p) THEN Complete
     ELSE To(p, "s_body_identity_eof")

HeadersAlmostDone(p, ch) ==
  LET switch == {"F_UPGRADE", "F_CONNECTION_UPGRADE"} \subseteq p.flags
      a == p.on_headers_complete
      q == [To(p, "s_headers_done") EXCEPT
              !.upgrade = IF a = 2 THEN TRUE
                          ELSE IF switch THEN p.type = "HTTP_REQUEST" \/ p.status_code = "101"
                          ELSE p.method = "CONNECT",
              !.flags = IF a \in {1, 2} THEN @ \cup {"F_SKIPBODY"} ELSE @]
  IN IF ch # "LF" THEN SET_ERRNO(p, "HPE_STRICT")
     ELSE IF "F_TRAILING" \in p.flags
          THEN MessageComplete(CALLBACK_NOTIFY(To(p, "s_message_done"), "chunk_complete"))
     ELSE IF {"F_CHUNKED", "F_CONTENTLENGTH"} \subseteq p.flags
          THEN SET_ERRNO(p, "HPE_UNEXPECTED_CONTENT_LENGTH")
     ELSE IF a \notin {0, 1, 2} THEN SET_ERRNO(CALLBACK_NOTIFY(q, "headers_complete"), "HPE_CB_headers_complete")
     ELSE HeadersDone(CALLBACK_NOTIFY(q, "headers_complete"))

(* One byte of a body of known length; the last one is handed over at once.*)
BodyIdentity(p) ==
  LET q == [MARK(p, "body") EXCEPT !.content_length = @ - 1]
      out == [q EXCEPT !.effects = Append(@, [do |-> "data", of |-> "body", extra |-> 1])]
  IN ASSERT(p, p.content_length \notin {0, MaxU},
       IF q.content_length = 0 THEN MessageComplete(To(out, "s_message_done")) ELSE q)

Unhex(ch) == IF IS_NUMBER(ch) THEN Digit(ch) ELSE -1

ChunkSize(p, ch) ==
  IF p.state = "s_chunk_size_start"
  THEN ASSERT(p, p.nread = 1 /\ "F_CHUNKED" \in p.flags,
         IF Unhex(ch) = -1 THEN SET_ERRNO(p, "HPE_INVALID_CHUNK_SIZE")
         ELSE To([p EXCEPT !.content_length = Unhex(ch)], "s_chunk_size"))
  ELSE IF ch = "CR" THEN To(p, "s_chunk_size_almost_done")
  ELSE IF p.state = "s_chunk_parameters" THEN p
  ELSE IF ch \in {";", "SP"} THEN To(p, "s_chunk_parameters")
  ELSE IF Unhex(ch) = -1 THEN SET_ERRNO(p, "HPE_INVALID_CHUNK_SIZE")
  ELSE IF (MaxU - 16) \div 16 < p.content_length THEN SET_ERRNO(p, "HPE_INVALID_CONTENT_LENGTH")
  ELSE [p EXCEPT !.content_length = (16 * @ + Unhex(ch)) % (MaxU + 1)]

ChunkSizeAlmostDone(p, ch) ==
  LET q == [p EXCEPT !.nread = 0,
                     !.flags = IF p.content_length = 0 THEN @ \cup {"F_TRAILING"} ELSE @]
  IN IF ch # "LF" THEN SET_ERRNO(p, "HPE_STRICT")
     ELSE CALLBACK_NOTIFY(To(q, IF p.content_length = 0 THEN "s_header_field_start"
                                ELSE "s_chunk_data"), "chunk_header")

ChunkData(p) ==
  LET q == [MARK(p, "body") EXCEPT !.content_length = @ - 1]
  IN ASSERT(p, p.content_length \notin {0, MaxU},
       IF q.content_length = 0 THEN To(q, "s_chunk_data_almost_done") ELSE q)
ChunkDataAlmostDone(p, ch) ==
  ASSERT(p, p.content_length = 0,
    IF ch # "CR" THEN SET_ERRNO(p, "HPE_STRICT")
    ELSE CALLBACK_DATA(To(p, "s_chunk_data_done"), "body"))
ChunkDataDone(p, ch) ==
  IF ch # "LF" THEN SET_ERRNO(p, "HPE_STRICT")
  ELSE CALLBACK_NOTIFY(To([p EXCEPT !.nread = 0], "s_chunk_size_start"), "chunk_complete")

----------------------------------------------------------------------------
(* Header fields                                                           *)
FieldNext(h, ch) ==
  CASE h = "h_C" /\ ch = "on" -> "h_CON"
    [] h = "h_CON" /\ ch = "nection" -> "h_connection"
    [] h = "h_CON" /\ ch = "tent-length" -> "h_content_length"
    [] h = "h_matching_proxy_connection" /\ ch = "roxy-connection" -> "h_connection"
    [] h = "h_matching_transfer_encoding" /\ ch = "ransfer-encoding" -> "h_transfer_encoding"
    [] h = "h_matching_upgrade" /\ ch = "pgrade" -> "h_upgrade"
    [] OTHER -> "h_general"

HeaderFieldStart(p, ch) ==
  IF ch = "CR" THEN To(p, "s_headers_almost_done")
  ELSE IF ch = "LF" THEN HeadersAlmostDone(To(p, "s_headers_almost_done"), ch)
  ELSE IF ~TOKEN(ch) THEN SET_ERRNO(p, "HPE_INVALID_HEADER_TOKEN")
  ELSE MARK([To(p, "s_header_field") EXCEPT
               !.header_state = CASE ch = "c" -> "h_C"
                                  [] ch = "p" -> "h_matching_proxy_connection"
                                  [] ch = "t" -> "h_matching_transfer_encoding"
                                  [] ch = "u" -> "h_matching_upgrade"
                                  [] OTHER -> "h_general"], "header_field")

HeaderField(p, ch) ==
  IF TOKEN(ch) THEN [p EXCEPT !.header_state = FieldNext(@, ch)]
  ELSE IF ch = ":" THEN CALLBACK_DATA(To(p, "s_header_value_discard_ws"), "header_field")
  ELSE SET_ERRNO(p, "HPE_INVALID_HEADER_TOKEN")

ConnectionWord(ch) == CASE ch = "k" -> "h_matching_connection_keep_alive"
                        [] ch = "c" -> "h_matching_connection_close"
                        [] ch = "u" -> "h_matching_connection_upgrade"
                        [] OTHER -> "h_matching_connection_token"

HeaderValueStart(p0, ch) ==
  LET p == MARK(To(p0, "s_header_value"), "header_value")
      h == p.header_state
      Is(s) == [p EXCEPT !.header_state = s]
  IN CASE h = "h_upgrade" -> [Is("h_general") EXCEPT !.flags = @ \cup {"F_UPGRADE"}]
       [] h = "h_transfer_encoding" ->
            Is(IF ch = "c" THEN "h_matching_transfer_encoding_chunked" ELSE "h_general")
       [] h = "h_content_length" ->
            IF ~IS_NUMBER(ch) THEN SET_ERRNO(p, "HPE_INVALID_CONTENT_LENGTH")
            ELSE IF "F_CONTENTLENGTH" \in p.flags
                 THEN SET_ERRNO(p, "HPE_UNEXPECTED_CONTENT_LENGTH")
            ELSE [Is("h_content_length_num") EXCEPT !.flags = @ \cup {"F_CONTENTLENGTH"},
                                                    !.content_length = Digit(ch)]
       [] h \in {"h_content_length_ws", "h_matching_connection_token_start"} -> p
       [] h = "h_connection" -> Is(ConnectionWord(ch))
       [] OTHER -> Is("h_general")

FlagOf == [h_connection_keep_alive |-> "F_CONNECTION_KEEP_ALIVE",
           h_connection_close |-> "F_CONNECTION_CLOSE",
           h_connection_upgrade |-> "F_CONNECTION_UPGRADE",
           h_transfer_encoding_chunked |-> "F_CHUNKED"]
SetFlag(p) == IF p.header_state \in DOMAIN FlagOf
              THEN [p EXCEPT !.flags = @ \cup {FlagOf[p.header_state]}] ELSE p

(* Mutant: the length is not checked for overflow.                         *)
LengthOverflows(p, ch) ==
  IF ch = "SP" THEN [p EXCEPT !.header_state = "h_content_length_ws"]
  ELSE IF ~IS_NUMBER(ch) THEN SET_ERRNO(p, "HPE_INVALID_CONTENT_LENGTH")
  ELSE [p EXCEPT !.content_length = (10 * @ + Digit(ch)) % (MaxU + 1)]
ContentLengthNum(p, ch) ==
  IF ch = "SP" THEN [p EXCEPT !.header_state = "h_content_length_ws"]
  ELSE IF ~IS_NUMBER(ch) \/ (MaxU - 10) \div 10 < p.content_length
       THEN SET_ERRNO(p, "HPE_INVALID_CONTENT_LENGTH")
  ELSE [p EXCEPT !.content_length = (10 * @ + Digit(ch)) % (MaxU + 1)]

(* The rest of a word that has been recognised so far, and what it is then.*)
WordRest ==
  [h_matching_transfer_encoding_chunked |-> <<"hunked", "h_transfer_encoding_chunked">>,
   h_matching_connection_keep_alive |-> <<"eep-alive", "h_connection_keep_alive">>,
   h_matching_connection_close |-> <<"lose", "h_connection_close">>,
   h_matching_connection_upgrade |-> <<"pgrade", "h_connection_upgrade">>]

HeaderValueByte(p, ch) ==
  LET h == p.header_state
      Is(s) == [p EXCEPT !.header_state = s]
  IN CASE h \in {"h_connection", "h_transfer_encoding"} -> SET_ERRNO(p, "assert")
       [] h \in {"h_content_length", "h_content_length_num"} ->
            IF h = "h_content_length" /\ ch = "SP" THEN p
            ELSE ContentLengthNum(Is("h_content_length_num"), ch)
       [] h = "h_content_length_ws" ->
            IF ch = "SP" THEN p ELSE SET_ERRNO(p, "HPE_INVALID_CONTENT_LENGTH")
       [] h \in DOMAIN WordRest ->
            Is(IF ch = WordRest[h][1] THEN WordRest[h][2]
               ELSE IF h = "h_matching_transfer_encoding_chunked" THEN "h_general"
               ELSE "h_matching_connection_token")
       [] h = "h_matching_connection_token_start" ->
            IF ch = "SP" THEN p ELSE Is(IF TOKEN(ch) THEN ConnectionWord(ch) ELSE "h_general")
       [] h = "h_matching_connection_token" ->
            IF ch = "," THEN Is("h_matching_connection_token_start") ELSE p
       [] h = "h_transfer_encoding_chunked" -> IF ch = "SP" THEN p ELSE Is("h_general")
       [] h \in {"h_connection_keep_alive", "h_connection_close", "h_connection_upgrade"} ->
            IF ch = "," THEN [SetFlag(p) EXCEPT !.header_state = "h_matching_connection_token_start"]
            ELSE IF ch = "SP" THEN p ELSE Is("h_matching_connection_token")
       [] OTHER -> Is("h_general")

HeaderAlmostDone(p, ch) == IF ch = "LF" THEN To(p, "s_header_value_lws")
                           ELSE SET_ERRNO(p, "HPE_LF_EXPECTED")

HeaderValue(p, ch) ==
  LET done == CALLBACK_DATA(To(p, "s_header_almost_done"), "header_value")
  IN IF ch = "CR" THEN done
     ELSE IF ch = "LF" THEN HeaderAlmostDone(done, ch)
     ELSE IF ch = "NUL" THEN SET_ERRNO(p, "HPE_INVALID_HEADER_TOKEN")
     ELSE HeaderValueByte(p, ch)

(* After the line end: a blank continues the value, anything else ends it. *)
HeaderValueLws(p, ch) ==
  LET folded == IF p.header_state = "h_content_length_num"
                THEN [p EXCEPT !.header_state = "h_content_length_ws"] ELSE p
  IN IF ch = "SP" THEN HeaderValueStart(folded, ch)
     ELSE HeaderFieldStart(To(SetFlag(p), "s_header_field_start"), ch)

HeaderValueDiscardWs(p, ch) ==
  IF ch = "SP" THEN p
  ELSE IF ch = "CR" THEN To(p, "s_header_value_discard_ws_almost_done")
  ELSE IF ch = "LF" THEN To(p, "s_header_value_discard_lws")
  ELSE HeaderValueStart(p, ch)

HeaderValueDiscardLws(p, ch) ==
  LET empty == CALLBACK_DATA(MARK(To(SetFlag(p), "s_header_field_start"), "header_value"),
                             "header_value")
  IN IF ch = "SP" THEN To(p, "s_header_value_discard_ws")
     ELSE IF p.header_state = "h_content_length" THEN SET_ERRNO(p, "HPE_INVALID_CONTENT_LENGTH")
     ELSE HeaderFieldStart(empty, ch)

----------------------------------------------------------------------------
(* One turn of the loop of http_parser_execute: the state decides.         *)
Dead(p, ch) == IF ch \in {"CR", "LF"} THEN p ELSE SET_ERRNO(p, "HPE_CLOSED_CONNECTION")

Execute(p, ch) ==
  LET s == p.state IN
  CASE s = "s_dead" -> Dead(p, ch)
    [] s = "s_start_req_or_res" -> StartReqOrRes(p, ch)
    [] s = "s_res_or_resp_H" -> ResOrRespH(p, ch)
    [] s = "s_start_res" -> StartRes(p, ch)
    [] s = "s_start_req" -> StartReq(p, ch)
    [] s = "s_req_method" -> ReqMethod(p, ch)
    [] s = "s_req_spaces_before_url" \/ s \in UrlState -> ReqUrl(p, ch)
    [] s \in {"s_req_http_start", "s_req_http_H", "s_req_http_major", "s_req_http_minor",
              "s_req_http_end"} -> ReqVersion(p, ch)
    [] s \in {"s_res_H", "s_res_http_major", "s_res_http_minor", "s_res_http_end"} ->
         ResVersion(p, ch)
    [] s \in {"s_res_first_status_code", "s_res_status_code"} -> ResCode(p, ch)
    [] s = "s_res_status_start" -> ResStatusStart(p, ch)
    [] s = "s_res_status" -> ResStatus(p, ch)
    [] s \in {"s_req_line_almost_done", "s_res_line_almost_done"} -> LineAlmostDone(p, ch)
    [] s = "s_header_field_start" -> HeaderFieldStart(p, ch)
    [] s = "s_header_field" -> HeaderField(p, ch)
    [] s = "s_header_value_discard_ws" -> HeaderValueDiscardWs(p, ch)
    [] s = "s_header_value_discard_ws_almost_done" ->
         IF ch = "LF" THEN To(p, "s_header_value_discard_lws") ELSE SET_ERRNO(p, "HPE_STRICT")
    [] s = "s_header_value_discard_lws" -> HeaderValueDiscardLws(p, ch)
    [] s = "s_header_value" -> HeaderValue(p, ch)
    [] s = "s_header_almost_done" -> HeaderAlmostDone(p, ch)
    [] s = "s_header_value_lws" -> HeaderValueLws(p, ch)
    [] s = "s_headers_almost_done" -> HeadersAlmostDone(p, ch)
    [] s = "s_body_identity" -> BodyIdentity(p)
    [] s = "s_body_identity_eof" -> MARK(p, "body")
    [] s \in {"s_chunk_size_start", "s_chunk_size", "s_chunk_parameters"} -> ChunkSize(p, ch)
    [] s = "s_chunk_size_almost_done" -> ChunkSizeAlmostDone(p, ch)
    [] s = "s_chunk_data" -> ChunkData(p)
    [] s = "s_chunk_data_almost_done" -> ChunkDataAlmostDone(p, ch)
    [] s = "s_chunk_data_done" -> ChunkDataDone(p, ch)

(* COUNT_HEADER_SIZE, then the byte.                                       *)
Turn(p0, ch) ==
  LET p == IF PARSING_HEADER(p0.state) THEN [p0 EXCEPT !.nread = @ + 1] ELSE p0
  IN IF p.nread > max_header_size THEN SET_ERRNO(p, "HPE_HEADER_OVERFLOW") ELSE Execute(p, ch)

----------------------------------------------------------------------------
(* The observers.  Which callback may follow which:                        *)
Follows ==
  [message_begin |-> {"none", "message_complete"},
   url |-> {"message_begin", "url"}, status |-> {"message_begin", "status"},
   header_field |-> {"url", "status", "header_field", "header_value", "chunk_header"},
   header_value |-> {"header_field", "header_value"},
   headers_complete |-> {"url", "status", "header_value"},
   chunk_header |-> {"headers_complete", "chunk_complete"},
   body |-> {"headers_complete", "chunk_header", "body"},
   chunk_complete |-> {"body", "chunk_header", "header_value"},
   message_complete |-> {"headers_complete", "body", "chunk_complete"}]
Hear(before, cb) == IF before \in Follows[cb] THEN cb ELSE "disorder"

(* What the effects of a step do to the marks and to the observers.        *)
Apply(a, x) ==
  LET e == x.of
      n == a.mark[e] + x.extra
      sum == IF a.mark[e] = -1 THEN a.got ELSE a.got + n
  IN CASE x.do = "mark" ->
            [a EXCEPT !.mark[e] = IF @ = -1 THEN 0 ELSE @, !.whole[e] = IF @ = -1 THEN 0 ELSE @]
       [] x.do = "data" ->
            [mark |-> [a.mark EXCEPT ![e] = -1], whole |-> [a.whole EXCEPT ![e] = -1], got |-> 0,
             ended |-> a.ended \cup {[got |-> sum, whole |-> a.whole[e] + x.extra]},
             last |-> IF a.mark[e] = -1 THEN a.last ELSE Hear(a.last, e),
             body |-> IF e = "body" /\ a.mark[e] # -1 THEN a.body + n ELSE a.body]
       [] x.do = "notify" -> [a EXCEPT !.last = Hear(@, e)]

(* All of them, in their order.                                            *)
Heard(a, effects) ==
  LET upTo[n \in 0..Len(effects)] ==
        IF n = 0 THEN a ELSE Apply(upTo[n - 1], effects[n])
  IN  upTo[Len(effects)]

Observed == [mark |-> mark, whole |-> whole, got |-> got, ended |-> {}, last |-> last,
             body |-> body.got]
Advance(m) == [e \in Element |-> IF m[e] = -1 THEN -1 ELSE m[e] + 1]

(* A reference reading of a whole header line, from its text alone.        *)
Split(s, c) == FoldLeft(LAMBDA parts, x : IF x = c THEN Append(parts, <<>>)
                                          ELSE [parts EXCEPT ![Len(parts)] = Append(@, x)],
                        << <<>> >>, s)
Trim(s) == LET ink == {i \in DOMAIN s : s[i] # "SP"}
           IN IF ink = {} THEN <<>> ELSE SubSeq(s, Min(ink), Max(ink))
Decimal(s) == FoldLeft(LAMBDA n, ch : 10 * n + Digit(ch), 0, s)
HeaderSays(text) ==
  LET colon == SelectInSeq(text, LAMBDA x : x = ":")
      name == SubSeq(text, 1, colon - 1)
      value == Trim(SubSeq(text, colon + 1, Len(text)))
      parts == Split(value, ",")
      words == {Trim(parts[i]) : i \in DOMAIN parts}
      isConnection == name \in {<<"c", "on", "nection">>, <<"p", "roxy-connection">>}
      Flag(f, on) == IF on THEN {f} ELSE {}
      isLength == name = <<"c", "on", "tent-length">>
  IN [flags |-> Flag("F_CONNECTION_CLOSE", isConnection /\ <<"c", "lose">> \in words)
                \cup Flag("F_CONNECTION_KEEP_ALIVE", isConnection /\ <<"k", "eep-alive">> \in words)
                \cup Flag("F_CONNECTION_UPGRADE", isConnection /\ <<"u", "pgrade">> \in words)
                \cup Flag("F_CHUNKED", name = <<"t", "ransfer-encoding">> /\ value = <<"c", "hunked">>)
                \cup Flag("F_UPGRADE", name = <<"u", "pgrade">> /\ value # <<>>)
                \cup Flag("F_CONTENTLENGTH", isLength),
      length |-> IF isLength THEN Decimal(value) ELSE MaxU,
      (* no fold, no empty list element, no element that is a word cut short *)
      plain |-> isConnection => words \cap {<<>>, <<"k">>, <<"c">>, <<"u">>} = {}]

Nothing == [flags |-> {}, length |-> MaxU, plain |-> TRUE]
HeaderLine == {"s_header_field_start", "s_header_field", "s_header_value", "s_header_value_lws",
               "s_header_value_discard_ws", "s_header_value_discard_lws", "s_header_almost_done",
               "s_header_value_discard_ws_almost_done", "s_headers_almost_done"}
ChunkLine == {"s_chunk_size_start", "s_chunk_size", "s_chunk_parameters",
              "s_chunk_size_almost_done"}

ReadLine(ch) ==
  line' = IF ch = "LF" \/ parser.state \notin HeaderLine \cup ChunkLine THEN <<>>
          ELSE IF ch = "CR" THEN line ELSE Append(line, ch)

ReadHeaders(ch) ==
  LET new == HeaderSays(line)
  IN said' = IF last' = "message_begin" THEN Nothing
             ELSE IF ch = "SP" /\ parser.state \in {"s_header_value_lws", "s_header_value_discard_lws"}
                  THEN [said EXCEPT !.plain = FALSE]
             ELSE IF ch = "LF" /\ parser.state \in HeaderLine /\ line # <<>>
                  THEN [flags |-> said.flags \cup new.flags,
                        length |-> IF new.length = MaxU THEN said.length ELSE new.length,
                        plain |-> said.plain /\ new.plain]
             ELSE said

Hexadecimal(text) == FoldLeft(LAMBDA n, ch : IF IS_NUMBER(ch) THEN 16 * n + Digit(ch) ELSE n, 0,
                              SubSeq(text, 1, SelectInSeq(Append(text, ";"), LAMBDA x : x = ";") - 1))
ReadBody(ch, out) ==
  body' = IF last' = "message_begin" THEN [got |-> 0, due |-> 0]
          ELSE [got |-> out,
                due |-> IF ch = "LF" /\ parser.state = "s_chunk_size_almost_done"
                        THEN body.due + Hexadecimal(line)
                        ELSE IF parser'.state = "s_body_identity" /\ PARSING_HEADER(parser.state)
                        THEN said'.length
                        ELSE body.due]

----------------------------------------------------------------------------
Init ==
  /\ \E t \in Types, a \in Answers : parser = http_parser_init(t, a)
  /\ mark = NoMark /\ script = <<>> /\ whole = NoMark /\ got = 0 /\ ended = {}
  /\ last = "none" /\ line = <<>> /\ said = Nothing /\ body = [got |-> 0, due |-> 0]

Reading == parser.http_errno = "HPE_OK" /\ ~parser.left

(* What a peer may send next, once it has sent what it had begun.          *)
Pieces(s) ==
  CASE s = "s_dead" -> {<<"CR", "LF">>, <<"GET">>}
    [] s \in {"s_start_req", "s_start_res", "s_start_req_or_res"} -> StartLines
    [] s \in {"s_header_field_start", "s_header_value_lws", "s_header_value_discard_lws"} ->
         HeaderLines
    [] s = "s_chunk_size_start" -> IF body.due < MaxBody THEN ChunkLines ELSE {<<"0", "CR", "LF">>}
    [] s = "s_chunk_data_almost_done" -> {<<"CR", "LF">>, <<"a">>}
    [] s = "s_body_identity_eof" -> IF whole["body"] < MaxBody THEN {<<"a">>} ELSE {}
    [] OTHER -> {<<"a">>}

Send ==
  /\ Reading /\ script = <<>>
  /\ script' \in Pieces(parser.state)
  /\ UNCHANGED <<parser, mark, whole, got, ended, last, line, said, body>>

Feed ==
  /\ Reading /\ script # <<>> /\ script' = Tail(script)
  /\ LET ch == Head(script)
         q == Turn(parser, ch)
         a == Heard(Observed, q.effects)
     IN /\ parser' = [q EXCEPT !.effects = <<>>]
        /\ mark' = Advance(a.mark) /\ whole' = Advance(a.whole)
        /\ got' = a.got /\ ended' = a.ended /\ last' = a.last
        /\ ReadLine(ch) /\ ReadHeaders(ch) /\ ReadBody(ch, a.body)

(* Mutant: a URL that is cut is not marked again.                          *)
EntryMarkNoUrl(s) ==
  [e \in Element |-> IF \/ e = "header_field" /\ s = "s_header_field"
                        \/ e = "header_value" /\ s = "s_header_value"
                        \/ e = "status" /\ s = "s_res_status" THEN 0 ELSE -1]
(* The marks a call sets on entry, when it resumes inside an element.      *)
EntryMark(s) ==
  [e \in Element |->
     IF \/ e = "header_field" /\ s = "s_header_field"
        \/ e = "header_value" /\ s = "s_header_value"
        \/ e = "url" /\ s \in UrlState
        \/ e = "status" /\ s = "s_res_status"
     THEN 0 ELSE -1]

(* The call returns len after it has handed over what the marks still hold *)
(* (no call has length 0, so a mark set on entry has advanced).            *)
(* Two marks fail the assertion, and nothing is handed over any more.      *)
EndBuffer ==
  LET set == {e \in Element : mark[e] # -1}
      e == CHOOSE f \in set : TRUE
  IN /\ Reading /\ \A f \in Element : mark[f] # 0
     /\ parser' = IF Cardinality(set) <= 1 THEN parser ELSE SET_ERRNO(parser, "assert")
     /\ mark' = EntryMark(parser.state)
     /\ got' = IF set = {} THEN got ELSE got + mark[e]
     /\ last' = IF set = {} THEN last ELSE Hear(last, e)
     /\ body' = IF "body" \in set THEN [got |-> body.got + mark["body"], due |-> body.due] ELSE body
     /\ ended' = {} /\ UNCHANGED <<script, whole, line, said>>

(* The caller passes length 0: the peer has closed the stream.             *)
Eof ==
  /\ Reading /\ script = <<>> /\ \A e \in Element : mark[e] <= 0
  /\ IF parser.state = "s_body_identity_eof"
     THEN /\ last' = Hear(last, "message_complete")
          /\ ended' = IF whole["body"] = -1 THEN {} ELSE {[got |-> got, whole |-> whole["body"]]}
          /\ parser' = [parser EXCEPT !.left = TRUE]
     ELSE /\ parser' = [parser EXCEPT !.left = TRUE,
                !.http_errno = IF parser.state \in {"s_dead", "s_start_req_or_res", "s_start_res",
                                                    "s_start_req"}
                               THEN @ ELSE "HPE_INVALID_EOF_STATE"]
          /\ ended' = {} /\ UNCHANGED last
  /\ UNCHANGED <<mark, script, whole, got, line, said, body>>

Next == Send \/ Feed \/ EndBuffer \/ Eof

Spec == Init /\ [][Next]_vars

----------------------------------------------------------------------------
(* Properties                                                              *)
TypeOK ==
  /\ parser.content_length \in 0 .. MaxU /\ parser.nread \in 0 .. (max_header_size + 1)
  /\ parser.flags \subseteq {"F_CHUNKED", "F_CONNECTION_KEEP_ALIVE", "F_CONNECTION_CLOSE",
                            "F_CONNECTION_UPGRADE", "F_TRAILING", "F_UPGRADE", "F_SKIPBODY",
                            "F_CONTENTLENGTH"}
  /\ mark \in [Element -> Int] /\ got \in Nat /\ body.got \in Nat

(* No assertion of http_parser_execute fails: the size of a chunk is read  *)
(* with nread reset to one, a body state has bytes left to read, the words *)
(* of a value never meet a state of the name, at most one mark is left     *)
(* when the buffer ends.                                                   *)
AssertsHold == parser.http_errno # "assert"

(* However the stream is cut into buffers, the pieces of a URL, a status,  *)
(* a header name, a value or a body that the callbacks get add up to what  *)
(* one callback would have got from an uncut stream.                       *)
PiecesCover == \A x \in ended : x.got = x.whole

(* Callbacks come in the order of a message, whatever the peer sends and   *)
(* wherever the buffers end: no value without a name, headers_complete     *)
(* once and not again after the trailers, chunk_header and chunk_complete  *)
(* in pairs, message_complete at the end.                                  *)
CallbackOrder == last # "disorder"

(* The flags that the byte-wise matching leaves when the headers are       *)
(* complete are those that the header lines, read as whole lines, state    *)
(* (lines without folds, empty list elements or words cut short).          *)
FlagsAsSaid ==
  (last \in {"headers_complete", "message_complete"} /\ said.plain /\ parser.http_errno = "HPE_OK")
    => parser.flags \ {"F_TRAILING", "F_SKIPBODY"} = said.flags

(* A message is complete only when as many body bytes have been handed     *)
(* over as its headers or its chunk sizes announced, no overflow included. *)
BodyAsDeclared ==
  (last = "message_complete" /\ said.plain /\ parser.http_errno = "HPE_OK"
     /\ parser.state # "s_body_identity_eof") =>
    body.got = IF parser.method = "CONNECT" \/ "F_SKIPBODY" \in parser.flags THEN 0
               ELSE IF "F_CHUNKED" \in said.flags THEN body.due
               ELSE IF said.length = MaxU THEN 0 ELSE said.length

(* After a message whose header lines (read a second time, where they are  *)
(* plain enough to be: said.plain) say that it is the last one on its      *)
(* connection no further message begins.                                   *)
NothingAfterClose ==
  [][(last = "message_complete" /\ last' = "message_begin" /\ said.plain) =>
       IF parser.http11 THEN "F_CONNECTION_CLOSE" \notin said.flags
       ELSE "F_CONNECTION_KEEP_ALIVE" \in said.flags]_vars
=============================================================================
