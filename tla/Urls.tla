-------------------------------- MODULE Urls --------------------------------
(***************************************************************************)
(* The repository's two URL parsers, on the same text: HttpUrl, which the  *)
(* clients use, and http_parser_parse_url, which the server uses for the   *)
(* path of a request.  A text is typed one character at a time; `kind'     *)
(* says what it is the rest of, so that every part of a URL gets the depth *)
(* it needs: a whole URL, a path, a query, an authority, an IPv6 address.  *)
(***************************************************************************)
EXTENDS HttpUrl

CONSTANTS
  FieldWord, \* 2^16, as in HttpParserUrl
  Kind,      \* the kinds of text
  Prefix,    \* Prefix[k]: what precedes the text
  Chars,     \* Chars[k]: the characters of the text
  Limit      \* Limit[k]: bound on its length

P == INSTANCE HttpParserUrl WITH PortLimit <- MaxPort

VARIABLES text, kind

Init == text = <<>> /\ kind \in Kind

(* Addresses are typed with one digit a field and at most one "::".        *)
Plausible(t) ==
  /\ \A i \in 1 .. (Len(t) - 1) : ~(is_num(t[i]) /\ is_num(t[i + 1]))
  /\ Cardinality({i \in 1 .. (Len(t) - 1) : t[i] = ":" /\ t[i + 1] = ":"}) <= 1
  /\ Len(t) >= 2 /\ t[1] = ":" => t[2] = ":"

Type(c) ==
  /\ kind \in Kind /\ Len(text) < Limit[kind] /\ c \in Chars[kind]
  /\ text' = Append(text, c)
  /\ kind = "address" => Plausible(text')
  /\ UNCHANGED kind

Next == \E c \in UNION {Chars[k] : k \in Kind} : Type(c)

----------------------------------------------------------------------------
url == Prefix[kind] \o text

(* The parts of m that decoded to a byte of 0x80 or more.                  *)
HighParts(m) ==
  {part \in {"path", "fragment"} : Contains(m[part], "xC3")}
  \cup {part \in {"query"} : \E i \in DOMAIN m.query :
                               \E k \in {1, 2} : Contains(m.query[i][k], "xC3")}

(* m, and the same once it was built and parsed again.                     *)
SameParts(m, again) ==
  /\ HighParts(m) = {} => again.ok
  /\ again.ok =>
       /\ \A part \in {"scheme", "user", "host", "path", "query", "fragment"} \ HighParts(m) :
            again[part] = m[part]
       /\ m.scheme # Https => port(again) = port(m)
Survives(m, built) == built.ok => SameParts(m, parse_url(built.url))
SurvivesBuilding(m) == m.ok => \A high \in HighEscapes : Survives(m, build_url(m, high))

(* A URL that HttpUrl accepts and can build again means the same when it   *)
(* is built and parsed once more: escapes, dots, empty parts and the       *)
(* default port included (but for https, whose default port() is that of   *)
(* http).  A path, query or fragment with an escape of a byte of 0x80 or   *)
(* more is the exception: what encode writes for the byte is undefined, so *)
(* that part may change or parse_url may throw, but if it does not throw   *)
(* then the other parts are still the same.                                *)
RoundTrip == kind \in {"url", "path", "query"} => SurvivesBuilding(parse_url(url))

(* The normal form of a valid IPv6 address is a valid text of the same     *)
(* address and is its own normal form (the all-zero address aside, whose   *)
(* normal form is ":").                                                    *)
IsNormalFormOf(n, fields) == is_valid_ipv6(n) /\ Fields(n) = fields /\ normalize_IPv6(n) = n
HasNormalForm(fields) ==
  (\E i \in 1 .. 8 : fields[i] # <<"0">>) => IsNormalFormOf(normalize_IPv6(text), fields)
AddressNormalised == kind = "address" /\ is_valid_ipv6(text) => HasNormalForm(Fields(text))

(* The fields that http_parser_parse_url reports for a URL it accepts lie  *)
(* in the URL, also where an offset or a length of theirs has wrapped.     *)
End(u, f) == u[f].off + u[f].len
Inside(u) == \A f \in DOMAIN u : End(u, f) <= Len(url) + 1

(* Those of a URL of less than 2^16 characters lie in it in their order,   *)
(* do not overlap, and leave out delimiters only.                          *)
Tiles(u) ==
  LET order == <<"SCHEMA", "USERINFO", "HOST", "PORT", "PATH", "QUERY", "FRAGMENT">>
  IN /\ \A i, j \in DOMAIN order :
          (i < j /\ {order[i], order[j]} \subseteq DOMAIN u)
            => End(u, order[i]) <= u[order[j]].off
     /\ \A f \in DOMAIN u : u[f].len > 0
     /\ \A k \in DOMAIN url :
          (\A f \in DOMAIN u : k \notin u[f].off .. (End(u, f) - 1))
            => url[k] \in {":", "/", "?", "#", "@", "[", "]"}

(* The two parsers take an absolute URL of that size that both accept      *)
(* apart in the same places, so that client and server name the same host, *)
(* port and path.  Literals that are no IPv6 address are left out, since   *)
(* parse_url() is not defined for them.                                    *)
Agree(u, c) ==
  LET Field(f) == IF f \in DOMAIN u THEN SubSeq(url, u[f].off, u[f].off + u[f].len - 1) ELSE <<>>
  IN (c.hasScheme /\ (c.literal => is_valid_ipv6(c.host)) /\ ItemsOf(url, c).ok) =>
       /\ Field("SCHEMA") = c.scheme /\ Field("USERINFO") = c.user /\ Field("HOST") = c.host
       /\ Field("PORT") = c.port /\ Field("PATH") = c.path /\ Field("QUERY") = c.query

TilesAndAgrees(parser) ==
  parser.ok =>
    /\ Inside(parser.u)
    /\ Len(url) < FieldWord => Tiles(parser.u) /\ Agree(parser.u, Cut(url))
ParsersAgree == kind # "address" => TilesAndAgrees(P!http_parser_parse_url(url, FALSE))
=============================================================================
