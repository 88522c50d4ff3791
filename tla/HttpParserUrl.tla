--------------------------- MODULE HttpParserUrl ---------------------------
(***************************************************************************)
(* The URL functions of src/include/http/http_parser.hpp: the character    *)
(* automaton shared by the request parser and http_parser_parse_url(), the *)
(* host automaton, and the field table they fill.                          *)
(*                                                                         *)
(* A URL is a sequence of characters; one character stands for each class  *)
(* the code tells apart: "a" (a letter that is also a hexadecimal digit),  *)
(* "v" (a letter that is not), the digits, and the delimiters themselves.  *)
(* An escape such as %2F is one character, as in HttpUrl.  Positions count *)
(* from 1; field_set is the domain of the field table, whose offsets and   *)
(* lengths are uint16_t.                                                   *)
(***************************************************************************)
EXTENDS Integers, Sequences, SequencesExt, TLC

CONSTANTS
  PortLimit,    \* 0xffff, the largest port
  FieldWord     \* 2^16, at which an offset or a length of a field wraps

IS_NUMBER(ch) == ch \in {"0", "1"}
IS_ALPHA(ch) == ch \in {"a", "v"}
IS_HEX(ch) == IS_NUMBER(ch) \/ ch = "a"
IS_ALPHANUM(ch) == IS_ALPHA(ch) \/ IS_NUMBER(ch)
IS_ESCAPE(ch) == ch \in {"%2F", "%26", "%3D", "%C3"}
IS_USERINFO_CHAR(ch) ==
  IS_ALPHANUM(ch) \/ IS_ESCAPE(ch) \/ ch \in {".", "*", "%", ":", ";", "&", "=", "+"}
IS_URL_CHAR(ch) == IS_USERINFO_CHAR(ch) \/ ch \in {"/", "@", "[", "]"}
IS_HOST_CHAR(ch) == IS_ALPHANUM(ch) \/ ch = "."

(* The next state of the URL automaton, s_dead when ch is not allowed.  A  *)
(* second '@' is refused only right after the first one.                   *)
parse_url_char(s, ch) ==
  CASE s = "s_req_spaces_before_url" ->
         IF ch \in {"/", "*"} THEN "s_req_path"
         ELSE IF IS_ALPHA(ch) THEN "s_req_schema" ELSE "s_dead"
    [] s = "s_req_schema" ->
         IF IS_ALPHA(ch) THEN s ELSE IF ch = ":" THEN "s_req_schema_slash" ELSE "s_dead"
    [] s = "s_req_schema_slash" -> IF ch = "/" THEN "s_req_schema_slash_slash" ELSE "s_dead"
    [] s = "s_req_schema_slash_slash" -> IF ch = "/" THEN "s_req_server_start" ELSE "s_dead"
    [] s \in {"s_req_server_with_at", "s_req_server_start", "s_req_server"} ->
         IF ch = "@" THEN IF s = "s_req_server_with_at" THEN "s_dead" ELSE "s_req_server_with_at"
         ELSE IF ch = "/" THEN "s_req_path"
         ELSE IF ch = "?" THEN "s_req_query_string_start"
         ELSE IF IS_USERINFO_CHAR(ch) \/ ch \in {"[", "]"} THEN "s_req_server" ELSE "s_dead"
    [] s = "s_req_path" ->
         IF IS_URL_CHAR(ch) THEN s
         ELSE IF ch = "?" THEN "s_req_query_string_start"
         ELSE IF ch = "#" THEN "s_req_fragment_start" ELSE "s_dead"
    [] s \in {"s_req_query_string_start", "s_req_query_string"} ->
         IF IS_URL_CHAR(ch) \/ ch = "?" THEN "s_req_query_string"
         ELSE IF ch = "#" THEN "s_req_fragment_start" ELSE "s_dead"
    [] s = "s_req_fragment_start" ->
         IF IS_URL_CHAR(ch) \/ ch = "?" THEN "s_req_fragment"
         ELSE IF ch = "#" THEN s ELSE "s_dead"
    [] s = "s_req_fragment" -> IF IS_URL_CHAR(ch) \/ ch \in {"?", "#"} THEN s ELSE "s_dead"
    [] OTHER -> "s_dead"

http_parse_host_char(s, ch) ==
  CASE s \in {"s_http_userinfo", "s_http_userinfo_start"} ->
         IF ch = "@" THEN "s_http_host_start"
         ELSE IF IS_USERINFO_CHAR(ch) THEN "s_http_userinfo" ELSE "s_http_host_dead"
    [] s = "s_http_host_start" ->
         IF ch = "[" THEN "s_http_host_v6_start"
         ELSE IF IS_HOST_CHAR(ch) THEN "s_http_host" ELSE "s_http_host_dead"
    [] s \in {"s_http_host", "s_http_host_v6_end"} ->
         IF s = "s_http_host" /\ IS_HOST_CHAR(ch) THEN s
         ELSE IF ch = ":" THEN "s_http_host_port_start" ELSE "s_http_host_dead"
    [] s \in {"s_http_host_v6", "s_http_host_v6_start"} ->
         IF s = "s_http_host_v6" /\ ch = "]" THEN "s_http_host_v6_end"
         ELSE IF IS_HEX(ch) \/ ch \in {":", "."} THEN "s_http_host_v6"
         ELSE IF s = "s_http_host_v6" /\ ch = "%" THEN "s_http_host_v6_zone_start"
         ELSE IF s = "s_http_host_v6" /\ IS_ESCAPE(ch) THEN "s_http_host_v6_zone"
         ELSE "s_http_host_dead"
    [] s \in {"s_http_host_v6_zone", "s_http_host_v6_zone_start"} ->
         IF s = "s_http_host_v6_zone" /\ ch = "]" THEN "s_http_host_v6_end"
         ELSE IF IS_ALPHANUM(ch) \/ IS_ESCAPE(ch) \/ ch \in {"%", "."}
              THEN "s_http_host_v6_zone"
         ELSE "s_http_host_dead"
    [] s \in {"s_http_host_port", "s_http_host_port_start"} ->
         IF IS_NUMBER(ch) THEN "s_http_host_port" ELSE "s_http_host_dead"
    [] OTHER -> "s_http_host_dead"

(* Mutant: @ ends the user info unseen.                                    *)
FieldOfNoAt(s) ==
  CASE s = "s_req_schema" -> "SCHEMA" [] s = "s_req_server" -> "HOST" [] s = "s_req_path" -> "PATH"
    [] s \in {"s_req_query_string_start", "s_req_query_string"} -> "QUERY"
    [] s = "s_http_host" -> "HOST" [] s = "s_http_host_port" -> "PORT"
    [] OTHER -> "none"
(* The field a URL or host state adds its character to; "none" skips it.   *)
FieldOf(s) ==
  CASE s = "s_req_schema" -> "SCHEMA"
    [] s \in {"s_req_server", "s_req_server_with_at"} -> "HOST"
    [] s = "s_req_path" -> "PATH"
    [] s = "s_req_query_string" -> "QUERY"
    [] s = "s_req_fragment" -> "FRAGMENT"
    [] s \in {"s_http_host", "s_http_host_v6", "s_http_host_v6_zone_start",
              "s_http_host_v6_zone"} -> "HOST"
    [] s = "s_http_host_port" -> "PORT"
    [] s = "s_http_userinfo" -> "USERINFO"
    [] OTHER -> "none"

(* One character more for field f at position i: a field begins when the   *)
(* automaton enters it, and grows while it stays.                          *)
Grow(u, f, i, begins) ==
  IF f = "none" THEN u
  ELSE IF begins THEN (f :> [off |-> ((i - 1) % FieldWord) + 1, len |-> 1]) @@ u
  ELSE [u EXCEPT ![f].len = (@ + 1) % FieldWord]

(* http_parse_host(): the bytes that parse_url filed under HOST are split  *)
(* into userinfo, host and port; a zone continues the host it follows.     *)
http_parse_host(buf, u, found_at) ==
  LET off == u["HOST"].off
      Step(acc, k) ==
        LET s == http_parse_host_char(acc.s, buf[off + k - 1])
            begins == acc.s # s /\ s \notin {"s_http_host_v6_zone_start", "s_http_host_v6_zone"}
        IN IF acc.s = "s_http_host_dead" \/ s = "s_http_host_dead"
           THEN [acc EXCEPT !.s = "s_http_host_dead"]
           ELSE [s |-> s, u |-> Grow(acc.u, FieldOf(s), off + k - 1, begins)]
      end == FoldLeftDomain(Step,
               [s |-> IF found_at THEN "s_http_userinfo_start" ELSE "s_http_host_start", u |-> u],
               [k \in 1 .. u["HOST"].len |-> k])
  IN [ok |-> end.s \in {"s_http_host", "s_http_host_v6_end", "s_http_host_port"}, u |-> end.u]

(* The port's digits as a number.                                          *)
PortOf(buf, u) ==
  FoldLeft(LAMBDA v, ch : 10 * v + (IF ch = "1" THEN 1 ELSE 0), 0,
           SubSeq(buf, u["PORT"].off, u["PORT"].off + u["PORT"].len - 1))

(* The pass of http_parser_parse_url() over the characters.                *)
Scan(buf, is_connect) ==
  LET Step(acc, i) ==
        LET s == parse_url_char(acc.s, buf[i])
            f == FieldOf(s)
        IN [s |-> IF acc.s = "s_dead" THEN "s_dead" ELSE s,
            at |-> acc.at \/ s = "s_req_server_with_at",
            old |-> IF f = "none" THEN acc.old ELSE f,
            u |-> IF acc.s = "s_dead" THEN acc.u ELSE Grow(acc.u, f, i, f # acc.old)]
  IN FoldLeftDomain(Step,
       [s |-> IF is_connect THEN "s_req_server_start" ELSE "s_req_spaces_before_url",
        at |-> FALSE, old |-> "none", u |-> <<>>], buf)

(* What follows it: the host, if there is one, and the last checks.        *)
SplitHost(buf, scan) ==
  IF "HOST" \in DOMAIN scan.u THEN http_parse_host(buf, scan.u, scan.at)
  ELSE [ok |-> TRUE, u |-> scan.u]
Checked(buf, is_connect, scan, host) ==
  [ok |-> /\ buf # <<>>
          /\ scan.s # "s_dead"
          /\ "SCHEMA" \in DOMAIN scan.u => "HOST" \in DOMAIN scan.u
          /\ host.ok
          /\ is_connect => DOMAIN host.u = {"HOST", "PORT"}
          /\ "PORT" \in DOMAIN host.u => PortOf(buf, host.u) <= PortLimit,
   u |-> host.u]

(* http_parser_parse_url(): the field table and whether the URL is good.   *)
http_parser_parse_url(buf, is_connect) ==
  LET After(scan) == Checked(buf, is_connect, scan, SplitHost(buf, scan))
  IN After(Scan(buf, is_connect))
============================================================================
