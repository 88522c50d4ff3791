------------------------------- MODULE MCHttp -------------------------------
(***************************************************************************)
(* The request parser and the URL parsers on small inputs.  `kind' is      *)
(* "parser" when the run feeds the request parser, and the kind of text    *)
(* when it tries the URL parsers; the state of the other stands still.     *)
(***************************************************************************)
EXTENDS HttpParser
CRLF == <<"CR", "LF">>
Name(words) == words \o <<":", "SP">>
Connection == Name(<<"c", "on", "nection">>)
Req(url, minor) == <<"GET", "SP">> \o url \o <<"SP", "H", "TTP/", "1.", minor>> \o CRLF
MCStartLines ==
  {Req(<<"/", "?", "a">>, "1"), Req(<<"a", ":", "/", "/", "a", "#", "a">>, "0"),
   <<"GET", "SP", "/", "LF">>, <<"GET", "SP", "a", "SP">>, <<"GET", "NUL">>,
   <<"CONNECT", "SP", "a", ":", "1", "SP", "H", "TTP/", "1.", "1", "LF">>,
   <<"H", "TTP/", "1.", "1", "SP", "200", "SP", "a", "a">> \o CRLF,
   <<"H", "TTP/", "1.", "0", "SP", "204", "LF">>,
   <<"H", "TTP/", "1.", "1", "SP", "101">> \o CRLF,
   <<"H", "EAD", "SP", "*", "SP", "H", "TTP/", "1.", "1">> \o CRLF}
MCHeaderLines ==
  {CRLF, <<"SP", "a", "LF">>, <<"c", "a", ":">> \o CRLF,
   Connection \o <<"k", "eep-alive", ",", "SP", "u", "pgrade">> \o CRLF,
   Connection \o <<"a", ",", "c", "lose", "SP", ",", "a">> \o CRLF,
   Connection \o <<"c", ",", "k", "eep-alive", "LF">>,
   Name(<<"u", "pgrade">>) \o <<"a">> \o CRLF,
   Name(<<"t", "ransfer-encoding">>) \o <<"c", "hunked">> \o CRLF,
   Name(<<"c", "on", "tent-length">>) \o <<"1">> \o CRLF,
   Name(<<"c", "on", "tent-length">>) \o <<"0", "SP">> \o CRLF,
   Name(<<"c", "on", "tent-length">>) \o <<"1", "1", "0">> \o CRLF,
   <<"c", "on", "tent-length", ":", "LF">>}
MCChunkLines == {<<"1">> \o CRLF, <<"1", "0", ";", "a">> \o CRLF, <<"1", "1", "1">> \o CRLF,
                 <<"0">> \o CRLF, <<"NUL">>}

MCPrefix == [url |-> <<>>, path |-> <<"/", "/", "a">>, query |-> <<"?">>,
             authority |-> <<"a", ":", "/", "/">>, address |-> <<>>]
MCChars == [url |-> {"a", ":", "/", "?", "#", "@", "1", "%2F", "%C3"},
            path |-> {"a", "/", ".", "%C3"},
            query |-> {"a", "=", "&", "+", "%26", "%3D", "%C3"},
            authority |-> {"a", "1", ":", "@", "[", "]", "/"}, address |-> {"0", "1", ":"}]
MCLimit == [url |-> 5, path |-> 6, query |-> 4, authority |-> 6, address |-> 15]
VARIABLES text, kind
U == INSTANCE Urls WITH Kind <- DOMAIN MCPrefix, Prefix <- MCPrefix, Chars <- MCChars,
       Limit <- MCLimit, MaxPort <- PortLimit, UintWord <- 100, Http <- <<"a">>, HttpPort <- <<"1">>,
       Https <- <<"a", "a">>, HttpsPort <- <<"1", "1">>

MCInit == /\ Init
          /\ \/ text = <<>> /\ kind = "parser"
             \/ U!Init /\ parser.on_headers_complete = 0
MCNext == \/ kind = "parser" /\ Next /\ UNCHANGED <<text, kind>>
          \/ kind # "parser" /\ U!Next /\ UNCHANGED vars
MCSpec == MCInit /\ [][MCNext]_<<vars, text, kind>>

(* However the stream is cut, the callbacks get the whole message in its    *)
(* order, and no assertion of the parser fails.                            *)
CallbacksFaithful == TypeOK /\ AssertsHold /\ PiecesCover /\ CallbackOrder

(* Flags and body are those the header lines announce.                     *)
MessageAsSaid == FlagsAsSaid /\ BodyAsDeclared

(* What HttpUrl builds from what it parsed says the same again, but for a  *)
(* path, query or fragment with a byte of 0x80 or more, and IPv6 addresses *)
(* keep their value when normalize_IPv6 rewrites them.                     *)
UrlRoundTrip == kind # "parser" => U!RoundTrip /\ U!AddressNormalised

(* The fields http_parser_parse_url reports lie in the text; those of a    *)
(* text of less than 2^16 characters tile it, and where the two URL        *)
(* parsers both accept such a text they read the same parts out of it      *)
(* (literals that are no IPv6 address aside).                              *)
UrlParsersAgree == kind # "parser" => U!ParsersAgree
=============================================================================
