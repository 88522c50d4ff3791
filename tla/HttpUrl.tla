------------------------------- MODULE HttpUrl -------------------------------
(***************************************************************************)
(* The class HttpUrl (src/include/http/http_url.hpp), with which the HTTP  *)
(* and WebSocket clients take a URL apart and put one together: parse_url, *)
(* build_url, path normalisation and IPv6 normalisation.                   *)
(*                                                                         *)
(* A string is a sequence of characters, one for each class of `tbl'; an   *)
(* escape such as %2F is one character of the text, and "%" alone is a     *)
(* percent sign that no two hexadecimal digits follow.  A call that throws *)
(* returns Thrown.  Letters are in lower case, so to_lower changes nothing;*)
(* [vX.addr] literals, IPv4 tails of IPv6 addresses and literals that are  *)
(* not valid addresses are left out: parse_url() hands the last to         *)
(* normalize_IPv6() unchecked, which then leaves its arrays.               *)
(***************************************************************************)
EXTENDS Integers, Sequences, SequencesExt, FiniteSetsExt, TLC

CONSTANTS
  MaxPort,    \* 65535
  UintWord,   \* 2^32, at which the number that is_uint reads wraps
  Http, Https,           \* the schemes "http" and "https"
  HttpPort, HttpsPort    \* the ports "80" and "443"

Thrown == [ok |-> FALSE]

Unescape == ("%2F" :> "/") @@ ("%3F" :> "?") @@ ("%23" :> "#") @@ ("%26" :> "&")
            @@ ("%3D" :> "=") @@ ("%2B" :> "+") @@ ("%20" :> " ") @@ ("%3A" :> ":")
            @@ ("%40" :> "@") @@ ("%3B" :> ";") @@ ("%C3" :> "xC3")
Escape == [c \in {Unescape[x] : x \in DOMAIN Unescape} |->
             CHOOSE x \in DOMAIN Unescape : Unescape[x] = c]

(* The bit of `tbl' a character has: 0x01, 0x02, ... 0x20, or none.        *)
Class(c) ==
  CASE c \in {"a", "v", "0", "1", ".", "+", "=", "&", ";"} -> 1
    [] c = "@" -> 2 [] c = ":" -> 4 [] c = "/" -> 8 [] c = "?" -> 16
    [] c = "%" \/ c \in DOMAIN Unescape -> 32
    [] OTHER -> 0
is_chars(s, mask) == \A i \in DOMAIN s : Class(s[i]) \in mask

is_alnum(c) == c \in {"a", "v", "0", "1"}
is_num(c) == c \in {"0", "1"}
Value(s) == FoldLeft(LAMBDA n, c : (10 * n + (IF c = "1" THEN 1 ELSE 0)) % UintWord, 0, s)

(* A number without leading zeros, at most max once it has wrapped.        *)
is_uint(s, max) ==
  /\ s # <<>> /\ \A i \in DOMAIN s : is_num(s[i])
  /\ s[1] = "0" => Len(s) = 1
  /\ Value(s) <= max
is_port(s) == is_uint(s, MaxPort)
is_scheme(s) == /\ s # <<>> /\ s[1] \in {"a", "v"}
                /\ \A i \in DOMAIN s : is_alnum(s[i]) \/ s[i] \in {"+", "."}
is_reg_name(s) == is_chars(s, {1})

(* The first position in b .. e-1 that holds one of Q, e if there is none. *)
find_first_of(s, b, e, Q) == Min({i \in b .. (e - 1) : s[i] \in Q} \cup {e})
Span(s, b, e) == SubSeq(s, b, e - 1)
Split(s, Q) ==
  FoldLeft(LAMBDA parts, c : IF c \in Q THEN Append(parts, <<>>)
                             ELSE [parts EXCEPT ![Len(parts)] = Append(@, c)], << <<>> >>, s)

decodable(s) == \A i \in DOMAIN s : s[i] # "%"
decode(s) == [i \in DOMAIN s |-> IF s[i] \in DOMAIN Unescape THEN Unescape[s[i]] ELSE s[i]]
decode_plus(s) == [i \in DOMAIN s |-> IF s[i] = "+" THEN " " ELSE decode(s)[i]]

(* The byte 0xC3 stands for those that are negative as a char: `c >> 4' is *)
(* then an index in front of the digits, and the escape gets whatever byte *)
(* is there for its first digit.  `high' is the escape that results: the   *)
(* right one, that of another character, or none (no digit).               *)
HighEscapes == {"%C3", "%23", "%"}
Escaped(c, high) == IF c = "xC3" THEN high ELSE Escape[c]
encode(s, mask, high) ==
  [i \in DOMAIN s |-> IF Class(s[i]) \in mask THEN s[i] ELSE Escaped(s[i], high)]
(* Mutant: separators inside a name or value are not escaped.              *)
encode_query_raw(s, special, high) ==
  [i \in DOMAIN s |-> IF s[i] = " " THEN "+" ELSE encode(s, {1, 2, 4, 8, 16}, high)[i]]
encode_query(s, special, high) ==
  [i \in DOMAIN s |-> IF s[i] = " " THEN "+"
                      ELSE IF s[i] \in special THEN Escape[s[i]]
                      ELSE encode(s, {1, 2, 4, 8, 16}, high)[i]]

(* Removes empty, "." and ".." elements; the last element decides whether  *)
(* the path keeps a slash at its end.                                      *)
normalize_path(s) ==
  LET parts == Split(s, {"/"})
      last == Last(parts)
      Pop(elems) == IF elems = <<>> THEN elems ELSE Front(elems)
      inner == FoldLeft(LAMBDA elems, x : IF x \in {<<>>, <<".">>} THEN elems
                                          ELSE IF x = <<".", ".">> THEN Pop(elems)
                                          ELSE Append(elems, x), <<>>, Front(parts))
      elems == IF last = <<".">> THEN Append(inner, <<>>)
               ELSE IF last = <<".", ".">> THEN Pop(inner) ELSE Append(inner, last)
      joined == FoldLeft(LAMBDA text, x : text \o <<"/">> \o x, <<>>, elems)
  IN IF s = <<>> THEN s
     ELSE IF s[1] = "/" THEN IF elems = <<>> THEN <<"/">> ELSE joined
     ELSE IF elems = <<>> THEN <<>> ELSE Tail(joined)

----------------------------------------------------------------------------
(* parse_url, up to where the parts of the text begin and end.  First the  *)
(* colon behind the scheme, 0 if there is none.                            *)
SchemeEnd(u) ==
  LET p == find_first_of(u, 1, Len(u) + 1, {":", "/", "?", "#"})
  IN IF p <= Len(u) /\ u[p] = ":" THEN p ELSE 0

(* The host from its first character, the port, up to ea.                  *)
HostPort(u, host, literal, ea) ==
  LET hostEnd == find_first_of(u, host, ea, IF literal THEN {"]"} ELSE {":"})
      afterHost == IF literal THEN hostEnd + 1 ELSE hostEnd
      hasPort == afterHost < ea /\ u[afterHost] = ":"
  IN [literal |-> literal, closed |-> literal => hostEnd # ea,
      host |-> Span(u, IF literal THEN host + 1 ELSE host, hostEnd),
      hasPort |-> hasPort, port |-> IF hasPort THEN Span(u, afterHost + 1, ea) ELSE <<>>]

(* The authority from b up to ea: the user in front of an "@", the rest.   *)
Authority(u, b, ea) ==
  LET at == find_first_of(u, b, ea, {"@"})
      hostAt(h) == HostPort(u, h, h <= Len(u) /\ u[h] = "[", ea)
  IN ("auth" :> TRUE) @@ ("user" :> IF at = ea THEN <<>> ELSE Span(u, b, at))
       @@ hostAt(IF at = ea THEN b ELSE at + 1)
NoAuthority == [auth |-> FALSE, user |-> <<>>, literal |-> FALSE, closed |-> TRUE, host |-> <<>>,
                hasPort |-> FALSE, port |-> <<>>]

(* Path, query and fragment, from ea on.                                   *)
AfterAuthority(u, ea) ==
  LET q == find_first_of(u, ea, Len(u) + 1, {"?", "#"})
      hasQuery == q <= Len(u) /\ u[q] = "?"
      f == IF hasQuery THEN find_first_of(u, q + 1, Len(u) + 1, {"#"}) ELSE q
  IN [path |-> Span(u, ea, q), query |-> IF hasQuery THEN Span(u, q + 1, f) ELSE <<>>,
      fragment |-> Span(u, f + 1, Len(u) + 1)]

CutAfter(u, colon) ==
  LET b == colon + 1
      auth == Len(u) > b /\ u[b] = "/" /\ u[b + 1] = "/"
      ea == IF auth THEN find_first_of(u, b + 2, Len(u) + 1, {"/", "?", "#"}) ELSE b
  IN ("hasScheme" :> (colon # 0)) @@ ("scheme" :> Span(u, 1, colon))
       @@ (IF auth THEN Authority(u, b + 2, ea) ELSE NoAuthority) @@ AfterAuthority(u, ea)
Cut(u) == CutAfter(u, SchemeEnd(u))

KeyOf(item) == Span(item, 1, find_first_of(item, 1, Len(item) + 1, {"="}))
ValOf(item) == Span(item, Len(KeyOf(item)) + 2, Len(item) + 1)
Items(query) == IF query = <<>> THEN <<>> ELSE Split(query, {";", "&"})

hexdigit(c) == c \in {"0", "1", "a"}
is_ipv6(s) == Len(s) >= 2 /\ \A i \in DOMAIN s : hexdigit(s[i]) \/ s[i] \in {":", "."}

(* is_valid_ipv6: at most four digits in a field, one "::", eight fields   *)
(* or fewer with a "::"; a single colon at either end is refused.          *)
is_valid_ipv6(s) ==
  LET n == Len(s)
      doubles == {i \in 1 .. (n - 1) : s[i] = ":" /\ s[i + 1] = ":"}
      fields == SelectSeq(Split(s, {":"}), LAMBDA x : x # <<>>)
  IN /\ n \in 2 .. 39
     /\ \A i \in DOMAIN s : hexdigit(s[i]) \/ s[i] = ":"
     /\ s[1] = ":" => s[2] = ":"
     /\ s[n] = ":" => s[n - 1] = ":"
     /\ Cardinality(doubles) <= 1
     /\ \A i \in DOMAIN fields : Len(fields[i]) <= 4
     /\ IF doubles = {} THEN Len(fields) = 8 ELSE Len(fields) < 8

(* The eight fields of an address: those the text gives, zeros for "::".   *)
Fields(s) ==
  LET from == IF s[1] = ":" THEN 2 ELSE 1
      to == IF Last(s) = ":" THEN Len(s) - 1 ELSE Len(s)
      tokens == Split(SubSeq(s, from, to), {":"})
      given == SelectSeq(tokens, LAMBDA x : x # <<>>)
      null_pos == SelectInSeq(tokens, LAMBDA x : x = <<>>)
  IN IF s = <<":", ":">> THEN [i \in 1 .. 8 |-> <<"0">>]
     ELSE IF null_pos = 0 THEN given
     ELSE SubSeq(given, 1, null_pos - 1) \o [i \in 1 .. (8 - Len(given)) |-> <<"0">>]
          \o SubSeq(given, null_pos, Len(given))

(* normalize_IPv6: the first of the longest runs of two or more zero       *)
(* fields becomes "::".                                                    *)
Shortened(f) ==
  LET zeros(i, j) == i <= j /\ \A k \in i .. j : f[k] = <<"0">>
      runs == {r \in (1 .. 8) \X (1 .. 8) : zeros(r[1], r[2])}
      null_len == Max({r[2] - r[1] + 1 : r \in runs} \cup {0})
      null_pos == Min({r[1] : r \in {r \in runs : r[2] - r[1] + 1 = null_len}} \cup {9})
      first == IF null_len < 2 THEN 9 ELSE null_pos
      Fold(i, j) == FoldLeft(LAMBDA text, x : text \o <<":">> \o x, <<>>, SubSeq(f, i, j))
      rest == Fold(first + null_len, 8)
      tail == IF first + null_len = 9 THEN <<":">> ELSE rest
  IN IF first = 1 THEN <<":">> \o rest
     ELSE Tail(Fold(1, first - 1)) \o (IF first = 9 THEN <<>> ELSE <<":">> \o tail)
normalize_IPv6(s) == IF s = <<":", ":">> THEN s ELSE Shortened(Fields(s))

(* The parts are checked, normalised and decoded.                          *)
PartsOf(u, c, items) ==
  LET good == /\ c.hasScheme => is_scheme(c.scheme)
              /\ is_chars(c.user, {1, 4})
              /\ c.closed /\ IF c.literal THEN is_ipv6(c.host) ELSE is_reg_name(c.host)
              /\ c.hasPort => is_port(c.port)
              /\ is_chars(c.path, {1, 2, 4, 8, 32})
              /\ is_chars(c.fragment, {1, 2, 4, 8, 16, 32})
              /\ \A i \in DOMAIN items : is_chars(items[i], {1, 2, 4, 8, 16, 32})
              /\ decodable(u)
  IN IF u = <<>> THEN [ok |-> TRUE, scheme |-> <<>>, user |-> <<>>, host |-> <<>>, ip_v |-> -1,
                       port |-> <<>>, path |-> <<>>, query |-> <<>>, fragment |-> <<>>]
     ELSE IF ~good THEN Thrown
     ELSE [ok |-> TRUE, scheme |-> c.scheme, user |-> decode(c.user),
           host |-> IF c.literal THEN normalize_IPv6(c.host) ELSE decode(c.host),
           ip_v |-> IF ~c.auth THEN -1 ELSE IF c.literal THEN 6 ELSE 0,
           port |-> c.port, path |-> normalize_path(decode(c.path)),
           query |-> [i \in DOMAIN items |->
                        <<decode_plus(KeyOf(items[i])), decode_plus(ValOf(items[i]))>>],
           fragment |-> decode(c.fragment)]
ItemsOf(u, c) == PartsOf(u, c, Items(c.query))
parse_url(u) == ItemsOf(u, Cut(u))

port(m) == IF m.port = <<>> THEN HttpPort ELSE m.port

(* build_url: the text of the parts, or an exception.                      *)
build_url(m, high) ==
  LET colon == find_first_of(m.path, 1, Len(m.path) + 1, {":", "/"})
      throws == \/ m.host = <<>> /\ (m.user # <<>> \/ m.port # <<>>)
                \/ m.host = <<>> /\ colon <= Len(m.path) /\ m.path[colon] = ":"
                \/ m.host # <<>> /\ m.path # <<>> /\ m.path[1] # "/"
                \/ \E i \in DOMAIN m.query : m.query[i][1] = <<>>
      isDefault == <<m.scheme, m.port>> \in {<<Http, HttpPort>>, <<Https, HttpsPort>>}
      Item(kv) == encode_query(kv[1], {"+", "=", "&", ";"}, high)
                  \o (IF kv[2] = <<>> THEN <<>>
                      ELSE <<"=">> \o encode_query(kv[2], {"+", "&", ";"}, high))
      authority == (IF m.user = <<>> THEN <<>> ELSE encode(m.user, {1, 4}, high) \o <<"@">>)
                   \o (IF m.ip_v = 6 THEN <<"[">> \o m.host \o <<"]">> ELSE m.host)
                   \o (IF m.port = <<>> \/ isDefault THEN <<>> ELSE <<":">> \o m.port)
      query == FoldLeft(LAMBDA text, kv : text \o <<"&">> \o Item(kv), <<>>, m.query)
  IN IF throws THEN Thrown
     ELSE [ok |-> TRUE,
           url |-> (IF m.scheme = <<>> THEN <<>> ELSE m.scheme \o <<":">>)
                   \o (IF m.host = <<>> THEN <<>> ELSE <<"/", "/">> \o authority)
                   \o encode(m.path, {1, 2, 4, 8}, high)
                   \o (IF query = <<>> THEN <<>> ELSE <<"?">> \o Tail(query))
                   \o (IF m.fragment = <<>> THEN <<>>
                       ELSE <<"#">> \o encode(m.fragment, {1, 2, 4, 8, 16}, high))]
=============================================================================
