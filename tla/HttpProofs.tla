----------------------------- MODULE HttpProofs -----------------------------
(***************************************************************************)
(* CallbacksFaithful for every text: whatever the peers send and wherever  *)
(* the buffers end, the callbacks of http_parser_execute get the whole of  *)
(* every element, in the order of a message, and no assertion fails.       *)
(***************************************************************************)
EXTENDS MCHttp, SequenceTheorems, FiniteSetTheorems, WellFoundedInduction, TLAPS

(***************************************************************************)
(* What a parser and an observation are.                                   *)
(***************************************************************************)
Flags == {"F_CHUNKED", "F_CONNECTION_KEEP_ALIVE", "F_CONNECTION_CLOSE", "F_CONNECTION_UPGRADE",
          "F_TRAILING", "F_UPGRADE", "F_SKIPBODY", "F_CONTENTLENGTH"}
Notice == {"message_begin", "headers_complete", "chunk_header", "chunk_complete",
           "message_complete"}
Effect == [do : {"mark", "data", "notify"}, of : Element \cup Notice, extra : {0, 1}]
IsParser(p) ==
  /\ p = [type |-> p.type, state |-> p.state, header_state |-> p.header_state, flags |-> p.flags,
          content_length |-> p.content_length, method |-> p.method, http11 |-> p.http11,
          status_code |-> p.status_code, upgrade |-> p.upgrade, nread |-> p.nread,
          http_errno |-> p.http_errno, on_headers_complete |-> p.on_headers_complete,
          left |-> p.left, effects |-> p.effects]
  /\ p.flags \subseteq Flags /\ p.content_length \in 0..MaxU
  /\ p.nread \in 0..(max_header_size + 1) /\ p.effects \in Seq(Effect)

\* What is true of an observation after any number of effects.
Basic(o) ==
  /\ o = [mark |-> o.mark, whole |-> o.whole, got |-> o.got, ended |-> o.ended, last |-> o.last,
          body |-> o.body]
  /\ o.mark \in [Element -> Int] /\ o.whole \in [Element -> Int]
  /\ o.got \in Nat /\ o.body \in Nat
  /\ \A x \in o.ended : x.got = x.whole
  /\ o.last # "disorder"

\* No element has begun; e has begun and is marked; e has begun in an earlier
\* buffer and is not marked.
Off(o, e) == o.mark[e] = -1 /\ o.whole[e] = -1
Others(o, e) == \A f \in Element : f # e => Off(o, f)
Clear(o) == o.got = 0 /\ \A f \in Element : Off(o, f)
On(o, e) == Others(o, e) /\ o.mark[e] \in Nat /\ o.whole[e] = o.got + o.mark[e]
Cut(o, e) == Others(o, e) /\ o.mark[e] = -1 /\ o.whole[e] = o.got

Begin == {"s_start_req", "s_start_res", "s_start_req_or_res"}
StartLine == {"s_res_or_resp_H", "s_req_method", "s_req_spaces_before_url", "s_res_H",
              "s_res_http_major", "s_res_http_minor", "s_res_http_end",
              "s_res_first_status_code", "s_res_status_code", "s_res_status_start"}
AfterUrl == {"s_req_http_start", "s_req_http_H", "s_req_http_major", "s_req_http_minor",
             "s_req_http_end", "s_req_line_almost_done"}
LineStart == {"s_header_field_start", "s_headers_almost_done"}
Discard == {"s_header_value_discard_ws", "s_header_value_discard_ws_almost_done",
            "s_header_value_discard_lws"}
ValueEnd == {"s_header_almost_done", "s_header_value_lws"}
Identity == {"s_body_identity", "s_body_identity_eof"}
ChunkBytes == {"s_chunk_data", "s_chunk_data_almost_done", "s_chunk_data_done"}
States == {"s_dead", "s_res_status", "s_res_line_almost_done", "s_header_field", "s_header_value"}
          \cup Begin \cup StartLine \cup UrlState \cup AfterUrl \cup LineStart \cup Discard
          \cup ValueEnd \cup Identity \cup ChunkLine \cup ChunkBytes

\* The callback that came last, by state.
LastOK(s, trailing, cb) ==
  /\ s \in Begin => cb \in {"none", "message_complete"}
  /\ s \in StartLine => cb = "message_begin"
  /\ s \in UrlState => cb \in {"message_begin", "url"}
  /\ s \in AfterUrl => cb = "url"
  /\ s = "s_res_status" => cb \in {"message_begin", "status"}
  /\ s = "s_res_line_almost_done" => cb = "status"
  /\ s \in LineStart => cb \in IF trailing THEN {"chunk_header", "header_value"}
                               ELSE {"url", "status", "header_value"}
  /\ s = "s_header_field" => cb \in {"url", "status", "header_value", "chunk_header", "header_field"}
  /\ s \in Discard => cb = "header_field"
  /\ s = "s_header_value" => cb \in {"header_field", "header_value"}
  /\ s \in ValueEnd => cb = "header_value"
  /\ s \in Identity => cb \in {"headers_complete", "body"}
  /\ s \in ChunkLine => cb \in {"headers_complete", "chunk_complete"}
  /\ s \in ChunkBytes => cb \in {"chunk_header", "body"}

\* The element that has begun, by state.  A body that was cut is not marked.
Heading == StartLine \cup UrlState \cup AfterUrl \cup {"s_res_status", "s_res_line_almost_done"}
Bytes == Identity \cup {"s_chunk_data"}
View(s, o) ==
  /\ s = "s_header_field" => On(o, "header_field")
  /\ s = "s_header_value" => On(o, "header_value")
  /\ s = "s_res_status" => On(o, "status")
  /\ s \in UrlState => On(o, "url")
  /\ s \in Bytes => On(o, "body") \/ Clear(o)
  /\ s = "s_chunk_data_almost_done" => On(o, "body")
  /\ s \notin {"s_header_field", "s_header_value", "s_res_status", "s_chunk_data_almost_done"}
              \cup UrlState \cup Bytes => Clear(o)
RestView(s, o) == \/ View(s, o)
                  \/ s \in Bytes \cup {"s_chunk_data_almost_done"} /\ Cut(o, "body")

\* The numbers that the assertions are about; n is 0 between two bytes, and 1
\* once the next byte was counted.
NumbersOK(p, n) ==
  /\ p.state \in ChunkLine => "F_CHUNKED" \in p.flags
  /\ p.state \in ChunkBytes => "F_CHUNKED" \in p.flags
  /\ p.state = "s_chunk_size_start" => p.nread = n
  /\ p.state \in ChunkLine /\ p.state # "s_chunk_size_start" => p.content_length < MaxU
  /\ p.state \in {"s_chunk_data", "s_body_identity"} => p.content_length \notin {0, MaxU}
  /\ p.state = "s_chunk_data_almost_done" => p.content_length = 0
  /\ p.state = "s_header_value" => p.header_state \notin {"h_connection", "h_transfer_encoding"}
  /\ p.state \in Heading => "F_TRAILING" \notin p.flags

Trailing(p) == "F_TRAILING" \in p.flags

\* What the effects of p, so far, have made of o.
After(p, o) == Heard(o, p.effects)

\* A step of the parser ends well.
Fine(p, o) == /\ p.state \in States
              /\ LastOK(p.state, Trailing(p), After(p, o).last)
              /\ View(p.state, After(p, o))
              /\ NumbersOK(p, 0)
              /\ p.nread <= max_header_size
Post(p, o) == /\ IsParser(p) /\ Basic(After(p, o))
              /\ p.http_errno # "assert"
              /\ p.http_errno = "HPE_OK" => Fine(p, o)

\* What is known of the parser between two bytes.
Rest(p, o) == /\ p.state \in States /\ LastOK(p.state, Trailing(p), o.last)
              /\ RestView(p.state, o) /\ NumbersOK(p, 0) /\ p.nread <= max_header_size

Now == [mark |-> mark, whole |-> whole, got |-> got, ended |-> ended, last |-> last,
        body |-> body.got]
Inv == /\ IsParser(parser) /\ parser.effects = <<>> /\ Basic(Now)
       /\ parser.http_errno # "assert"
       /\ Reading => Rest(parser, Now)
-----------------------------------------------------------------------------
(* Induction over an interval, from the least number of a set.             *)

LEMMA NatLeast ==
  ASSUME NEW T, T \subseteq Nat, T # {}
  PROVE  \E x \in T : \A y \in T : x <= y
<1> DEFINE R == {ss \in Nat \X Nat : ss[1] < ss[2]}
<1>1. IsWellFoundedOn(R, Nat)
  BY NatLessThanWellFounded DEF OpToRel
<1>2. \A x, y \in Nat : y < x => <<y, x>> \in R
  OBVIOUS
<1> HIDE DEF R
<1>3. \E x \in T : \A y \in T : ~(<<y, x>> \in R)
  BY <1>1, WFMin
<1>4. PICK x \in T : \A y \in T : ~(<<y, x>> \in R)
  BY <1>3
<1>5. \A y \in T : x <= y
  <2> TAKE y \in T
  <2>1. x \in Nat /\ y \in Nat
    OBVIOUS
  <2>2. ~ (y < x)
    BY <2>1, <1>2, <1>4
  <2> QED BY <2>1, <2>2
<1> QED BY <1>4, <1>5

LEMMA SetInduction ==
  ASSUME NEW n \in Nat, NEW S, 0 \in S, \A i \in 0..(n - 1) : i \in S => i + 1 \in S
  PROVE  0..n \subseteq S
<1> SUFFICES ASSUME NEW z \in 0..n, z \notin S PROVE FALSE
  OBVIOUS
<1> DEFINE T == {i \in 0..n : i \notin S}
<1>1. z \in T /\ T \subseteq Nat
  OBVIOUS
<1>2. PICK x \in T : \A y \in T : x <= y
  <2> HIDE DEF T
  <2> QED BY <1>1, NatLeast
<1>3. x \in 0..n /\ x # 0 /\ x \notin S
  BY <1>2
<1>4. x - 1 \in 0..(n - 1) /\ x - 1 \in 0..n /\ (x - 1) + 1 = x /\ ~ (x <= x - 1)
  BY <1>3
<1>5. x - 1 \notin S
  BY <1>3, <1>4
<1>6. x - 1 \in T
  BY <1>4, <1>5
<1> QED BY <1>6, <1>2, <1>4

-----------------------------------------------------------------------------
(* Effects are applied one after the other.                                *)

LEMMA HeardLoop ==
  ASSUME NEW a, NEW d \in Seq(Effect)
  PROVE  \E f : /\ f = [n \in 0..Len(d) |-> IF n = 0 THEN a ELSE Apply(f[n - 1], d[n])]
                /\ Heard(a, d) = f[Len(d)]
<1> DEFINE Loop(f, m) == f = [n \in 0..m |-> IF n = 0 THEN a ELSE Apply(f[n - 1], d[n])]
           S == {m \in Nat : \E f : Loop(f, m)}
<1>0. Len(d) \in Nat
  OBVIOUS
<1>1. 0 \in S
  <2> DEFINE f0 == [n \in 0..0 |-> a]
  <2>1. f0 = [n \in 0..0 |-> IF n = 0 THEN a ELSE Apply(f0[n - 1], d[n])]
    <3> HIDE DEF f0
    <3>1. f0 = [n \in 0..0 |-> a]
      BY DEF f0
    <3>2. \A n \in 0..0 : n = 0
      OBVIOUS
    <3> QED BY <3>1, <3>2
  <2>2. Loop(f0, 0)
    BY <2>1
  <2> HIDE DEF Loop
  <2> QED BY <2>2
<1>2. ASSUME NEW m \in Nat, m \in S PROVE m + 1 \in S
  <2>1. PICK f : Loop(f, m)
    BY <1>2
  <2> DEFINE h == [n \in 0..(m + 1) |-> IF n = m + 1 THEN Apply(f[m], d[m + 1]) ELSE f[n]]
  <2>2. \A n \in 0..m : h[n] = f[n]
    OBVIOUS
  <2>3. h[m + 1] = Apply(f[m], d[m + 1])
    OBVIOUS
  <2>4. DOMAIN h = 0..(m + 1) /\ h = [n \in 0..(m + 1) |-> h[n]]
    OBVIOUS
  <2> HIDE DEF h
  <2>5. \A n \in 0..(m + 1) : h[n] = IF n = 0 THEN a ELSE Apply(h[n - 1], d[n])
    <3> TAKE n \in 0..(m + 1)
    <3>1. CASE n = m + 1
      <4>1. m \in 0..m /\ n # 0 /\ n - 1 = m
        BY <3>1
      <4> QED BY <2>2, <2>3, <3>1, <4>1
    <3>2. CASE n = 0
      <4>1. 0 \in 0..m
        OBVIOUS
      <4>2. f[0] = a
        BY <2>1, <4>1
      <4> QED BY <2>2, <3>2, <4>1, <4>2
    <3>3. CASE n # 0 /\ n # m + 1
      <4>1. n \in 0..m /\ n - 1 \in 0..m
        BY <3>3
      <4>2. f[n] = Apply(f[n - 1], d[n])
        BY <2>1, <3>3, <4>1
      <4>3. h[n] = f[n] /\ h[n - 1] = f[n - 1]
        BY <2>2, <4>1
      <4> QED BY <3>3, <4>2, <4>3
    <3> QED BY <3>1, <3>2, <3>3
  <2>6. Loop(h, m + 1)
    BY <2>4, <2>5
  <2> HIDE DEF Loop
  <2> QED BY <2>6
<1> HIDE DEF S
<1>3. \A i \in 0..(Len(d) - 1) : i \in S => i + 1 \in S
  BY <1>0, <1>2
<1>4. 0..Len(d) \subseteq S
  BY <1>0, <1>1, <1>3, SetInduction
<1>5. Len(d) \in S
  BY <1>0, <1>4
<1>6. PICK f : Loop(f, Len(d))
  BY <1>5 DEF S
<1> DEFINE upTo == CHOOSE g : Loop(g, Len(d))
<1>7. Loop(upTo, Len(d))
  <2> HIDE DEF Loop
  <2> QED BY <1>6
<1>8. Heard(a, d) = upTo[Len(d)]
  BY DEF Heard
<1> HIDE DEF upTo
<1> QED BY <1>7, <1>8

LEMMA HeardNone == ASSUME NEW a PROVE Heard(a, <<>>) = a
<1>0. <<>> \in Seq(Effect)
  OBVIOUS
<1>1. PICK d \in Seq(Effect) : d = <<>>
  BY <1>0
<1>2. Len(d) = 0
  BY <1>1
<1>3. PICK f : /\ f = [n \in 0..Len(d) |-> IF n = 0 THEN a ELSE Apply(f[n - 1], d[n])]
               /\ Heard(a, d) = f[Len(d)]
  BY HeardLoop
<1>4. 0 \in 0..Len(d)
  BY <1>2
<1>5. f[0] = a
  BY <1>3, <1>4
<1> QED BY <1>1, <1>2, <1>3, <1>5

LEMMA HeardOneMore ==
  ASSUME NEW a, NEW d \in Seq(Effect), NEW x \in Effect
  PROVE  Heard(a, Append(d, x)) = Apply(Heard(a, d), x)
<1> DEFINE e == Append(d, x)
<1>0. /\ Len(d) \in Nat /\ e \in Seq(Effect) /\ Len(e) = Len(d) + 1
      /\ e[Len(d) + 1] = x /\ \A i \in 1..Len(d) : e[i] = d[i]
  OBVIOUS
<1> HIDE DEF e
<1>1. PICK f : /\ f = [n \in 0..Len(d) |-> IF n = 0 THEN a ELSE Apply(f[n - 1], d[n])]
               /\ Heard(a, d) = f[Len(d)]
  BY HeardLoop
<1>2. PICK g : /\ g = [n \in 0..Len(e) |-> IF n = 0 THEN a ELSE Apply(g[n - 1], e[n])]
               /\ Heard(a, e) = g[Len(e)]
  BY <1>0, HeardLoop
<1> DEFINE S == {n \in 0..Len(d) : f[n] = g[n]}
<1>3. 0 \in S
  <2>1. 0 \in 0..Len(d) /\ 0 \in 0..Len(e)
    BY <1>0
  <2>2. f[0] = a
    BY <1>1, <2>1
  <2>3. g[0] = a
    BY <1>2, <2>1
  <2> QED BY <2>1, <2>2, <2>3
<1>4. ASSUME NEW i \in 0..(Len(d) - 1), i \in S PROVE i + 1 \in S
  <2>1. /\ i + 1 \in 0..Len(d) /\ i + 1 \in 0..Len(e) /\ i + 1 # 0 /\ (i + 1) - 1 = i
        /\ i + 1 \in 1..Len(d)
    BY <1>0
  <2>2. f[i + 1] = Apply(f[i], d[i + 1])
    BY <1>1, <2>1
  <2>3. g[i + 1] = Apply(g[i], e[i + 1])
    BY <1>2, <2>1
  <2>4. f[i] = g[i] /\ e[i + 1] = d[i + 1]
    BY <1>0, <1>4, <2>1
  <2> QED BY <2>1, <2>2, <2>3, <2>4
<1> HIDE DEF S
<1>5. 0..Len(d) \subseteq S
  BY <1>0, <1>3, <1>4, SetInduction
<1>6. Len(d) \in 0..Len(d) /\ Len(e) \in 0..Len(e) /\ Len(e) # 0 /\ Len(e) - 1 = Len(d)
  BY <1>0
<1>7. f[Len(d)] = g[Len(d)]
  BY <1>5, <1>6 DEF S
<1>8. g[Len(e)] = Apply(g[Len(d)], e[Len(e)])
  BY <1>2, <1>6
<1>9. e[Len(e)] = x
  BY <1>0
<1> QED BY <1>1, <1>2, <1>7, <1>8, <1>9 DEF e

-----------------------------------------------------------------------------
(* What the three effects do to an observation.                            *)

MarkOf(e) == [do |-> "mark", of |-> e, extra |-> 0]
DataOf(e, x) == [do |-> "data", of |-> e, extra |-> x]
NoteOf(n) == [do |-> "notify", of |-> n, extra |-> 0]

LEMMA MarkIs ==
  ASSUME NEW o, Basic(o), NEW e \in Element, Clear(o) \/ On(o, e) \/ Cut(o, e)
  PROVE  LET a == Apply(o, MarkOf(e)) IN Basic(a) /\ On(a, e) /\ a.last = o.last
<1> DEFINE a == Apply(o, MarkOf(e))
<1>1. a = [o EXCEPT !.mark[e] = IF o.mark[e] = -1 THEN 0 ELSE o.mark[e],
                    !.whole[e] = IF o.whole[e] = -1 THEN 0 ELSE o.whole[e]]
  BY DEF Apply, MarkOf
<1>2. /\ o.mark \in [Element -> Int] /\ o.whole \in [Element -> Int] /\ o.got \in Nat
  BY DEF Basic
<1> DEFINE m == [o.mark EXCEPT ![e] = IF o.mark[e] = -1 THEN 0 ELSE o.mark[e]]
           w == [o.whole EXCEPT ![e] = IF o.whole[e] = -1 THEN 0 ELSE o.whole[e]]
<1>3. a = [mark |-> m, whole |-> w, got |-> o.got, ended |-> o.ended,
           last |-> o.last, body |-> o.body]
  <2>1. o = [mark |-> o.mark, whole |-> o.whole, got |-> o.got, ended |-> o.ended,
             last |-> o.last, body |-> o.body]
    BY DEF Basic
  <2>2. a = [o EXCEPT !.mark = m, !.whole = w]
    BY <1>1, <2>1
  <2> HIDE DEF a, m, w
  <2> QED BY <2>1, <2>2
<1>4. m \in [Element -> Int] /\ w \in [Element -> Int]
  BY <1>2
<1>5. \A f \in Element : f # e => m[f] = o.mark[f] /\ w[f] = o.whole[f]
  BY <1>2
<1>6. /\ m[e] = IF o.mark[e] = -1 THEN 0 ELSE o.mark[e]
      /\ w[e] = IF o.whole[e] = -1 THEN 0 ELSE o.whole[e]
  BY <1>2
<1> HIDE DEF a, m, w
<1>7. /\ a.mark = m /\ a.whole = w /\ a.got = o.got /\ a.ended = o.ended /\ a.last = o.last
      /\ a.body = o.body
  BY <1>3
<1>8. Basic(a)
  BY <1>3, <1>4, <1>7 DEF Basic
<1>9. On(a, e)
  BY <1>2, <1>5, <1>6, <1>7 DEF On, Others, Off, Clear, Cut
<1> QED BY <1>7, <1>8, <1>9 DEF a

LEMMA HearIs ==
  ASSUME NEW cb, NEW n \in Element \cup Notice, cb \in Follows[n]
  PROVE  Hear(cb, n) = n /\ n # "disorder"
  BY DEF Hear, Element, Notice

\* The callback gets what is left of an element: all of it was handed over.
LEMMA DataIs ==
  ASSUME NEW o, Basic(o), NEW e \in Element, NEW x \in {0, 1},
         \/ On(o, e) /\ o.last \in Follows[e]
         \/ Cut(o, e) /\ x = 0
  PROVE  LET a == Apply(o, DataOf(e, x))
         IN  Basic(a) /\ Clear(a) /\ (a.last = e \/ (Cut(o, e) /\ a.last = o.last))
<1> DEFINE n == o.mark[e] + x
           sum == IF o.mark[e] = -1 THEN o.got ELSE o.got + n
           y == [got |-> sum, whole |-> o.whole[e] + x]
           l == IF o.mark[e] = -1 THEN o.last ELSE Hear(o.last, e)
           b == IF e = "body" /\ o.mark[e] # -1 THEN o.body + n ELSE o.body
           m == [o.mark EXCEPT ![e] = -1]
           w == [o.whole EXCEPT ![e] = -1]
           a == Apply(o, DataOf(e, x))
<1>1. a = [mark |-> m, whole |-> w, got |-> 0, ended |-> o.ended \cup {y}, last |-> l, body |-> b]
  BY DEF Apply, DataOf
<1>2. /\ o.mark \in [Element -> Int] /\ o.whole \in [Element -> Int] /\ o.got \in Nat
      /\ o.body \in Nat /\ (\A z \in o.ended : z.got = z.whole) /\ o.last # "disorder"
      /\ o.mark[e] \in Int /\ o.whole[e] \in Int
  BY DEF Basic
<1>3. /\ m \in [Element -> Int] /\ w \in [Element -> Int] /\ m[e] = -1 /\ w[e] = -1
      /\ \A f \in Element : f # e => m[f] = o.mark[f] /\ w[f] = o.whole[f]
  BY <1>2
<1>4. sum = o.whole[e] + x /\ b \in Nat
  BY <1>2 DEF On, Cut
<1>5. y.got = y.whole
  BY <1>4
<1>6. l # "disorder" /\ (l = e \/ (Cut(o, e) /\ l = o.last))
  <2>1. CASE On(o, e) /\ o.last \in Follows[e]
    <3>1. o.mark[e] # -1
      BY <2>1 DEF On
    <3> QED BY <2>1, <3>1, HearIs
  <2>2. CASE Cut(o, e)
    <3>1. o.mark[e] = -1
      BY <2>2 DEF Cut
    <3> QED BY <1>2, <2>2, <3>1
  <2> QED BY <2>1, <2>2
<1>7. Others(o, e)
  BY DEF On, Cut
<1> HIDE DEF a, m, w, l, b, y
<1>8. /\ a.mark = m /\ a.whole = w /\ a.got = 0 /\ a.ended = o.ended \cup {y} /\ a.last = l
      /\ a.body = b
  BY <1>1
<1>9. Basic(a)
  BY <1>1, <1>2, <1>3, <1>4, <1>5, <1>6, <1>8 DEF Basic
<1>10. Clear(a)
  BY <1>3, <1>7, <1>8 DEF Clear, Others, Off
<1> QED BY <1>6, <1>8, <1>9, <1>10 DEF a

LEMMA NoteIs ==
  ASSUME NEW o, Basic(o), NEW n \in Notice, o.last \in Follows[n], Clear(o)
  PROVE  LET a == Apply(o, NoteOf(n)) IN Basic(a) /\ a.last = n /\ Clear(a)
<1> DEFINE a == Apply(o, NoteOf(n))
<1>1. a = [o EXCEPT !.last = Hear(o.last, n)]
  BY DEF Apply, NoteOf
<1>2. Hear(o.last, n) = n /\ n # "disorder"
  BY HearIs
<1>3. o = [mark |-> o.mark, whole |-> o.whole, got |-> o.got, ended |-> o.ended,
           last |-> o.last, body |-> o.body]
  BY DEF Basic
<1>4. a = [mark |-> o.mark, whole |-> o.whole, got |-> o.got, ended |-> o.ended,
           last |-> n, body |-> o.body]
  BY <1>1, <1>2, <1>3
<1> HIDE DEF a
<1>5. /\ a.mark = o.mark /\ a.whole = o.whole /\ a.got = o.got /\ a.ended = o.ended
      /\ a.last = n /\ a.body = o.body
  BY <1>4
<1>6. Basic(a)
  BY <1>2, <1>4, <1>5 DEF Basic
<1>7. Clear(a)
  BY <1>5 DEF Clear, Off
<1> QED BY <1>5, <1>6, <1>7 DEF a

-----------------------------------------------------------------------------
(* The macros keep a parser well, and leave most of it alone.              *)

\* p is well, and no error has been set.
K(p, o) == /\ IsParser(p) /\ p.http_errno = "HPE_OK" /\ Basic(After(p, o))
           /\ p.nread <= max_header_size
Keeps(p, q) == /\ q.flags = p.flags /\ q.content_length = p.content_length /\ q.nread = p.nread
               /\ q.header_state = p.header_state
Alike(p, q) == Keeps(p, q) /\ q.state = p.state /\ q.effects = p.effects

LEMMA KOf ==
  ASSUME NEW p, NEW q, NEW o, K(p, o), IsParser(q), q.http_errno = "HPE_OK",
         q.effects = p.effects, q.nread <= max_header_size
  PROVE  K(q, o) /\ After(q, o) = After(p, o)
  BY DEF K, After

LEMMA ToK ==
  ASSUME NEW p, NEW s, NEW o, K(p, o)
  PROVE  LET q == To(p, s)
         IN K(q, o) /\ q.state = s /\ Keeps(p, q) /\ After(q, o) = After(p, o)
<1> DEFINE q == To(p, s)
<1>1. IsParser(q) /\ q.state = s /\ Keeps(p, q) /\ q.effects = p.effects /\ q.http_errno = "HPE_OK"
  BY DEF K, IsParser, To, Keeps
<1>2. q.nread <= max_header_size
  BY <1>1 DEF K, Keeps
<1> HIDE DEF q
<1>3. K(q, o) /\ After(q, o) = After(p, o)
  BY <1>1, <1>2, KOf
<1> QED BY <1>1, <1>3 DEF q

LEMMA ErrK ==
  ASSUME NEW p, NEW o, K(p, o), NEW e, e \notin {"HPE_OK", "assert"}
  PROVE  Post(SET_ERRNO(p, e), o)
<1> DEFINE q == SET_ERRNO(p, e)
<1>1. IsParser(q) /\ q.effects = p.effects /\ q.http_errno = e
  BY DEF K, IsParser, SET_ERRNO
<1> HIDE DEF q
<1>2. Basic(After(q, o))
  BY <1>1 DEF K, After
<1>3. Post(q, o)
  BY <1>1, <1>2 DEF Post
<1> QED BY <1>3 DEF q

LEMMA EffectK ==
  ASSUME NEW p, NEW o, K(p, o), NEW x \in Effect,
         Basic(Apply(After(p, o), x))
  PROVE  LET q == [p EXCEPT !.effects = Append(@, x)]
         IN  K(q, o) /\ Keeps(p, q) /\ q.state = p.state /\ After(q, o) = Apply(After(p, o), x)
<1> DEFINE q == [p EXCEPT !.effects = Append(@, x)]
           d == Append(p.effects, x)
<1>1. p.effects \in Seq(Effect)
  BY HttpAssumption DEF K, IsParser
<1>2. d \in Seq(Effect)
  BY <1>1
<1>3. q = [p EXCEPT !.effects = d]
  OBVIOUS
<1> HIDE DEF q, d
<1>4. /\ IsParser(q) /\ q.state = p.state /\ Keeps(p, q) /\ q.effects = d
      /\ q.http_errno = "HPE_OK"
  BY <1>2, <1>3 DEF K, IsParser, Keeps
<1>5. After(q, o) = Apply(After(p, o), x)
  BY <1>1, <1>4, HeardOneMore DEF After, d
<1>6. K(q, o)
  BY <1>4, <1>5 DEF K, Keeps
<1> QED BY <1>4, <1>5, <1>6 DEF q

LEMMA MarkK ==
  ASSUME NEW p, NEW o, K(p, o), NEW e \in Element,
         LET a == After(p, o) IN Clear(a) \/ On(a, e) \/ Cut(a, e)
  PROVE  LET q == MARK(p, e)
         IN  /\ K(q, o) /\ Keeps(p, q) /\ q.state = p.state
             /\ On(After(q, o), e) /\ After(q, o).last = After(p, o).last
<1> DEFINE a == After(p, o)
           b == Apply(a, MarkOf(e))
           q == MARK(p, e)
<1>1. Basic(a)
  BY DEF K
<1>2. Basic(b) /\ On(b, e) /\ b.last = a.last
  <2> HIDE DEF a
  <2>1. Clear(a) \/ On(a, e) \/ Cut(a, e)
    BY DEF a
  <2> QED BY <1>1, <2>1, MarkIs
<1>3. MarkOf(e) \in Effect
  BY DEF MarkOf, Effect
<1>4. q = [p EXCEPT !.effects = Append(@, MarkOf(e))]
  BY DEF MARK, MarkOf
<1> HIDE DEF q
<1>5. K(q, o) /\ Keeps(p, q) /\ q.state = p.state /\ After(q, o) = b
  BY <1>2, <1>3, <1>4, EffectK
<1> QED BY <1>2, <1>5 DEF q

LEMMA DataK ==
  ASSUME NEW p, NEW o, K(p, o), NEW e \in Element, NEW x \in {0, 1},
         LET a == After(p, o) IN \/ On(a, e) /\ a.last \in Follows[e]
                                 \/ Cut(a, e) /\ x = 0
  PROVE  LET q == [p EXCEPT !.effects = Append(@, DataOf(e, x))]
             a == After(p, o)
         IN  /\ K(q, o) /\ Keeps(p, q) /\ q.state = p.state /\ Clear(After(q, o))
             /\ After(q, o).last = e \/ (Cut(a, e) /\ After(q, o).last = a.last)
<1> DEFINE a == After(p, o)
           b == Apply(a, DataOf(e, x))
           q == [p EXCEPT !.effects = Append(@, DataOf(e, x))]
<1>1. Basic(a)
  BY DEF K
<1>2. Basic(b) /\ Clear(b) /\ (b.last = e \/ (Cut(a, e) /\ b.last = a.last))
  <2> HIDE DEF a
  <2>1. (On(a, e) /\ a.last \in Follows[e]) \/ (Cut(a, e) /\ x = 0)
    BY DEF a
  <2> QED BY <1>1, <2>1, DataIs
<1>3. DataOf(e, x) \in Effect
  BY DEF DataOf, Effect
<1>4. q = [p EXCEPT !.effects = Append(@, DataOf(e, x))]
  OBVIOUS
<1> HIDE DEF q
<1>5. K(q, o) /\ Keeps(p, q) /\ q.state = p.state /\ After(q, o) = b
  BY <1>2, <1>3, <1>4, EffectK
<1> QED BY <1>2, <1>5 DEF q

LEMMA CutK ==
  ASSUME NEW p, NEW o, K(p, o), NEW e \in Element,
         On(After(p, o), e) \/ Cut(After(p, o), e), After(p, o).last \in Follows[e]
  PROVE  LET q == CALLBACK_DATA(p, e)
         IN  /\ K(q, o) /\ Keeps(p, q) /\ q.state = p.state /\ Clear(After(q, o))
             /\ After(q, o).last \in {e, After(p, o).last}
<1> DEFINE a == After(p, o)
           r == [p EXCEPT !.effects = Append(@, DataOf(e, 0))]
<1>1. CALLBACK_DATA(p, e) = r
  BY DEF CALLBACK_DATA, DataOf
<1>2. LET b == After(p, o) IN \/ On(b, e) /\ b.last \in Follows[e]
                              \/ Cut(b, e) /\ 0 = 0
  OBVIOUS
<1>3. /\ K(r, o) /\ Keeps(p, r) /\ r.state = p.state /\ Clear(After(r, o))
      /\ After(r, o).last = e \/ (Cut(a, e) /\ After(r, o).last = a.last)
  <2>1. 0 \in {0, 1}
    OBVIOUS
  <2> QED BY <1>2, <2>1, DataK, Zenon
<1> HIDE DEF r, CALLBACK_DATA
<1> QED BY <1>1, <1>3

LEMMA CallK ==
  ASSUME NEW p, NEW o, K(p, o), NEW e \in Element,
         On(After(p, o), e), After(p, o).last \in Follows[e]
  PROVE  LET q == CALLBACK_DATA(p, e)
         IN  /\ K(q, o) /\ Keeps(p, q) /\ q.state = p.state /\ Clear(After(q, o))
             /\ After(q, o).last = e
<1>1. CALLBACK_DATA(p, e) = [p EXCEPT !.effects = Append(@, DataOf(e, 0))]
  BY DEF CALLBACK_DATA, DataOf
<1>2. ~Cut(After(p, o), e)
  BY DEF On, Cut
<1> HIDE DEF CALLBACK_DATA
<1> QED BY <1>1, <1>2, DataK

LEMMA NoteK ==
  ASSUME NEW p, NEW o, K(p, o), NEW n \in Notice,
         Clear(After(p, o)), After(p, o).last \in Follows[n]
  PROVE  LET q == CALLBACK_NOTIFY(p, n)
         IN  /\ K(q, o) /\ Keeps(p, q) /\ q.state = p.state /\ Clear(After(q, o))
             /\ After(q, o).last = n
<1> DEFINE a == After(p, o)
           b == Apply(a, NoteOf(n))
           q == CALLBACK_NOTIFY(p, n)
<1>1. Basic(a)
  BY DEF K
<1>2. Basic(b) /\ Clear(b) /\ b.last = n
  <2> HIDE DEF a
  <2>1. Clear(a) /\ a.last \in Follows[n]
    BY DEF a
  <2> QED BY <1>1, <2>1, NoteIs
<1>3. NoteOf(n) \in Effect
  BY DEF NoteOf, Effect
<1>4. q = [p EXCEPT !.effects = Append(@, NoteOf(n))]
  BY DEF CALLBACK_NOTIFY, NoteOf
<1> HIDE DEF q
<1>5. K(q, o) /\ Keeps(p, q) /\ q.state = p.state /\ After(q, o) = b
  BY <1>2, <1>3, <1>4, EffectK
<1> QED BY <1>2, <1>5 DEF q

-----------------------------------------------------------------------------
(* The other fields.  Most of them decide only which way a handler takes.  *)

LEMMA TypeK ==
  ASSUME NEW p, NEW o, K(p, o), NEW v
  PROVE  LET q == [p EXCEPT !.type = v]
         IN  K(q, o) /\ Alike(p, q) /\ After(q, o) = After(p, o)
<1> DEFINE q == [p EXCEPT !.type = v]
<1>1. IsParser(q) /\ Alike(p, q) /\ q.http_errno = "HPE_OK"
  BY DEF K, IsParser, Keeps, Alike
<1>2. q.nread <= max_header_size /\ q.effects = p.effects
  BY <1>1 DEF K, Keeps, Alike
<1> HIDE DEF q
<1>3. K(q, o) /\ After(q, o) = After(p, o)
  BY <1>1, <1>2, KOf
<1> QED BY <1>1, <1>3 DEF q

LEMMA MethodK ==
  ASSUME NEW p, NEW o, K(p, o), NEW v
  PROVE  LET q == [p EXCEPT !.method = v]
         IN  K(q, o) /\ Alike(p, q) /\ After(q, o) = After(p, o)
<1> DEFINE q == [p EXCEPT !.method = v]
<1>1. IsParser(q) /\ Alike(p, q) /\ q.http_errno = "HPE_OK"
  BY DEF K, IsParser, Keeps, Alike
<1>2. q.nread <= max_header_size /\ q.effects = p.effects
  BY <1>1 DEF K, Keeps, Alike
<1> HIDE DEF q
<1>3. K(q, o) /\ After(q, o) = After(p, o)
  BY <1>1, <1>2, KOf
<1> QED BY <1>1, <1>3 DEF q

LEMMA StatusK ==
  ASSUME NEW p, NEW o, K(p, o), NEW v
  PROVE  LET q == [p EXCEPT !.status_code = v]
         IN  K(q, o) /\ Alike(p, q) /\ After(q, o) = After(p, o)
<1> DEFINE q == [p EXCEPT !.status_code = v]
<1>1. IsParser(q) /\ Alike(p, q) /\ q.http_errno = "HPE_OK"
  BY DEF K, IsParser, Keeps, Alike
<1>2. q.nread <= max_header_size /\ q.effects = p.effects
  BY <1>1 DEF K, Keeps, Alike
<1> HIDE DEF q
<1>3. K(q, o) /\ After(q, o) = After(p, o)
  BY <1>1, <1>2, KOf
<1> QED BY <1>1, <1>3 DEF q

LEMMA Http11K ==
  ASSUME NEW p, NEW o, K(p, o), NEW v
  PROVE  LET q == [p EXCEPT !.http11 = v]
         IN  K(q, o) /\ Alike(p, q) /\ After(q, o) = After(p, o)
<1> DEFINE q == [p EXCEPT !.http11 = v]
<1>1. IsParser(q) /\ Alike(p, q) /\ q.http_errno = "HPE_OK"
  BY DEF K, IsParser, Keeps, Alike
<1>2. q.nread <= max_header_size /\ q.effects = p.effects
  BY <1>1 DEF K, Keeps, Alike
<1> HIDE DEF q
<1>3. K(q, o) /\ After(q, o) = After(p, o)
  BY <1>1, <1>2, KOf
<1> QED BY <1>1, <1>3 DEF q

LEMMA UpgradeK ==
  ASSUME NEW p, NEW o, K(p, o), NEW v
  PROVE  LET q == [p EXCEPT !.upgrade = v]
         IN  K(q, o) /\ Alike(p, q) /\ After(q, o) = After(p, o)
<1> DEFINE q == [p EXCEPT !.upgrade = v]
<1>1. IsParser(q) /\ Alike(p, q) /\ q.http_errno = "HPE_OK"
  BY DEF K, IsParser, Keeps, Alike
<1>2. q.nread <= max_header_size /\ q.effects = p.effects
  BY <1>1 DEF K, Keeps, Alike
<1> HIDE DEF q
<1>3. K(q, o) /\ After(q, o) = After(p, o)
  BY <1>1, <1>2, KOf
<1> QED BY <1>1, <1>3 DEF q

LEMMA LeftK ==
  ASSUME NEW p, NEW o, K(p, o), NEW v
  PROVE  LET q == [p EXCEPT !.left = v]
         IN  K(q, o) /\ Alike(p, q) /\ After(q, o) = After(p, o)
<1> DEFINE q == [p EXCEPT !.left = v]
<1>1. IsParser(q) /\ Alike(p, q) /\ q.http_errno = "HPE_OK"
  BY DEF K, IsParser, Keeps, Alike
<1>2. q.nread <= max_header_size /\ q.effects = p.effects
  BY <1>1 DEF K, Keeps, Alike
<1> HIDE DEF q
<1>3. K(q, o) /\ After(q, o) = After(p, o)
  BY <1>1, <1>2, KOf
<1> QED BY <1>1, <1>3 DEF q

LEMMA HeaderStateK ==
  ASSUME NEW p, NEW o, K(p, o), NEW v
  PROVE  LET q == [p EXCEPT !.header_state = v]
         IN  /\ K(q, o) /\ q.header_state = v /\ After(q, o) = After(p, o)
             /\ q.state = p.state /\ q.flags = p.flags
             /\ q.content_length = p.content_length /\ q.nread = p.nread
<1> DEFINE q == [p EXCEPT !.header_state = v]
<1>1. /\ IsParser(q) /\ q.http_errno = "HPE_OK" /\ q.effects = p.effects /\ q.header_state = v
      /\ q.state = p.state /\ q.flags = p.flags
      /\ q.content_length = p.content_length /\ q.nread = p.nread
  BY DEF K, IsParser
<1>2. q.nread <= max_header_size
  BY <1>1, HttpAssumption DEF K
<1> HIDE DEF q
<1>3. K(q, o) /\ After(q, o) = After(p, o)
  BY <1>1, <1>2, KOf
<1> QED BY <1>1, <1>3 DEF q

LEMMA FlagsK ==
  ASSUME NEW p, NEW o, K(p, o), NEW v, v \subseteq Flags
  PROVE  LET q == [p EXCEPT !.flags = v]
         IN  /\ K(q, o) /\ q.flags = v /\ After(q, o) = After(p, o)
             /\ q.state = p.state /\ q.header_state = p.header_state
             /\ q.content_length = p.content_length /\ q.nread = p.nread
<1> DEFINE q == [p EXCEPT !.flags = v]
<1>1. /\ IsParser(q) /\ q.http_errno = "HPE_OK" /\ q.effects = p.effects /\ q.flags = v
      /\ q.state = p.state /\ q.header_state = p.header_state
      /\ q.content_length = p.content_length /\ q.nread = p.nread
  BY DEF K, IsParser
<1>2. q.nread <= max_header_size
  BY <1>1, HttpAssumption DEF K
<1> HIDE DEF q
<1>3. K(q, o) /\ After(q, o) = After(p, o)
  BY <1>1, <1>2, KOf
<1> QED BY <1>1, <1>3 DEF q

LEMMA LengthK ==
  ASSUME NEW p, NEW o, K(p, o), NEW v, v \in 0..MaxU
  PROVE  LET q == [p EXCEPT !.content_length = v]
         IN  /\ K(q, o) /\ q.content_length = v /\ After(q, o) = After(p, o)
             /\ q.state = p.state /\ q.header_state = p.header_state
             /\ q.flags = p.flags /\ q.nread = p.nread
<1> DEFINE q == [p EXCEPT !.content_length = v]
<1>1. /\ IsParser(q) /\ q.http_errno = "HPE_OK" /\ q.effects = p.effects /\ q.content_length = v
      /\ q.state = p.state /\ q.header_state = p.header_state
      /\ q.flags = p.flags /\ q.nread = p.nread
  BY HttpAssumption, SMTT(30) DEF K, IsParser
<1>2. q.nread <= max_header_size
  BY <1>1, HttpAssumption DEF K
<1> HIDE DEF q
<1>3. K(q, o) /\ After(q, o) = After(p, o)
  BY <1>1, <1>2, KOf
<1> QED BY <1>1, <1>3 DEF q

LEMMA NreadK ==
  ASSUME NEW p, NEW o, K(p, o), NEW v, v \in 0..max_header_size
  PROVE  LET q == [p EXCEPT !.nread = v]
         IN  /\ K(q, o) /\ q.nread = v /\ After(q, o) = After(p, o)
             /\ q.state = p.state /\ q.header_state = p.header_state
             /\ q.flags = p.flags /\ q.content_length = p.content_length
<1> DEFINE q == [p EXCEPT !.nread = v]
<1>1. /\ IsParser(q) /\ q.http_errno = "HPE_OK" /\ q.effects = p.effects /\ q.nread = v
      /\ q.state = p.state /\ q.header_state = p.header_state
      /\ q.flags = p.flags /\ q.content_length = p.content_length
  BY HttpAssumption, SMTT(30) DEF K, IsParser
<1>2. q.nread <= max_header_size
  BY <1>1, HttpAssumption DEF K
<1> HIDE DEF q
<1>3. K(q, o) /\ After(q, o) = After(p, o)
  BY <1>1, <1>2, KOf
<1> QED BY <1>1, <1>3 DEF q

-----------------------------------------------------------------------------
(* Where a step ends well.                                                 *)

LEMMA FineDead ==
  ASSUME NEW p, NEW o, K(p, o), p.state = "s_dead", Clear(After(p, o))
  PROVE  Post(p, o)
<1>1. p.state \in States /\ NumbersOK(p, 0)
  BY DEF States, NumbersOK, ChunkLine, ChunkBytes,
         Heading, StartLine, UrlState, AfterUrl, Trailing
<1>2. LastOK(p.state, Trailing(p), After(p, o).last)
  BY DEF LastOK, Begin, StartLine, UrlState, AfterUrl, LineStart, Discard, ValueEnd, Identity,
         ChunkLine, ChunkBytes
<1>3. View(p.state, After(p, o))
  BY DEF View, UrlState, Bytes, Identity
<1> QED BY <1>1, <1>2, <1>3 DEF Post, Fine, K

LEMMA FineBegin ==
  ASSUME NEW p, NEW o, K(p, o), p.state \in Begin, Clear(After(p, o)),
         After(p, o).last \in {"none", "message_complete"}
  PROVE  Post(p, o)
<1>1. p.state \in States /\ NumbersOK(p, 0)
  BY DEF States, Begin, NumbersOK, ChunkLine, ChunkBytes,
         Heading, StartLine, UrlState, AfterUrl, Trailing
<1>2. LastOK(p.state, Trailing(p), After(p, o).last)
  BY DEF LastOK, Begin, StartLine, UrlState, AfterUrl, LineStart, Discard, ValueEnd, Identity,
         ChunkLine, ChunkBytes
<1>3. View(p.state, After(p, o))
  BY DEF View, Begin, UrlState, Bytes, Identity
<1> QED BY <1>1, <1>2, <1>3 DEF Post, Fine, K

LEMMA FineLine ==
  ASSUME NEW p, NEW o, K(p, o), p.state \in StartLine, Clear(After(p, o)),
         After(p, o).last = "message_begin",
         ~Trailing(p)
  PROVE  Post(p, o)
<1>1. p.state \in States /\ NumbersOK(p, 0)
  BY DEF States, NumbersOK, ChunkLine, ChunkBytes,
         Heading, StartLine, UrlState, AfterUrl, Trailing
<1>2. LastOK(p.state, Trailing(p), After(p, o).last)
  BY DEF LastOK, Begin, StartLine, UrlState, AfterUrl, LineStart, Discard, ValueEnd, Identity,
         ChunkLine, ChunkBytes
<1>3. View(p.state, After(p, o))
  BY DEF View, StartLine, UrlState, Bytes, Identity
<1> QED BY <1>1, <1>2, <1>3 DEF Post, Fine, K

LEMMA FineUrl ==
  ASSUME NEW p, NEW o, K(p, o), p.state \in UrlState, On(After(p, o), "url"),
         After(p, o).last \in {"message_begin", "url"},
         ~Trailing(p)
  PROVE  Post(p, o)
<1>1. p.state \in States /\ NumbersOK(p, 0)
  BY DEF States, NumbersOK, ChunkLine, ChunkBytes,
         Heading, StartLine, UrlState, AfterUrl, Trailing
<1>2. LastOK(p.state, Trailing(p), After(p, o).last)
  BY DEF LastOK, Begin, StartLine, UrlState, AfterUrl, LineStart, Discard, ValueEnd, Identity,
         ChunkLine, ChunkBytes
<1>3. View(p.state, After(p, o))
  BY DEF View, UrlState, Bytes, Identity
<1> QED BY <1>1, <1>2, <1>3 DEF Post, Fine, K

LEMMA FineAfterUrl ==
  ASSUME NEW p, NEW o, K(p, o), p.state \in AfterUrl, Clear(After(p, o)),
         After(p, o).last = "url",
         ~Trailing(p)
  PROVE  Post(p, o)
<1>1. p.state \in States /\ NumbersOK(p, 0)
  BY DEF States, NumbersOK, ChunkLine, ChunkBytes,
         Heading, StartLine, UrlState, AfterUrl, Trailing
<1>2. LastOK(p.state, Trailing(p), After(p, o).last)
  BY DEF LastOK, Begin, StartLine, UrlState, AfterUrl, LineStart, Discard, ValueEnd, Identity,
         ChunkLine, ChunkBytes
<1>3. View(p.state, After(p, o))
  BY DEF View, AfterUrl, UrlState, Bytes, Identity
<1> QED BY <1>1, <1>2, <1>3 DEF Post, Fine, K

LEMMA FineStatus ==
  ASSUME NEW p, NEW o, K(p, o), p.state = "s_res_status", On(After(p, o), "status"),
         After(p, o).last \in {"message_begin", "status"},
         ~Trailing(p)
  PROVE  Post(p, o)
<1>1. p.state \in States /\ NumbersOK(p, 0)
  BY DEF States, NumbersOK, ChunkLine, ChunkBytes,
         Heading, StartLine, UrlState, AfterUrl, Trailing
<1>2. LastOK(p.state, Trailing(p), After(p, o).last)
  BY DEF LastOK, Begin, StartLine, UrlState, AfterUrl, LineStart, Discard, ValueEnd, Identity,
         ChunkLine, ChunkBytes
<1>3. View(p.state, After(p, o))
  BY DEF View, UrlState, Bytes, Identity
<1> QED BY <1>1, <1>2, <1>3 DEF Post, Fine, K

LEMMA FineStatusEnd ==
  ASSUME NEW p, NEW o, K(p, o), p.state = "s_res_line_almost_done", Clear(After(p, o)),
         After(p, o).last = "status",
         ~Trailing(p)
  PROVE  Post(p, o)
<1>1. p.state \in States /\ NumbersOK(p, 0)
  BY DEF States, NumbersOK, ChunkLine, ChunkBytes,
         Heading, StartLine, UrlState, AfterUrl, Trailing
<1>2. LastOK(p.state, Trailing(p), After(p, o).last)
  BY DEF LastOK, Begin, StartLine, UrlState, AfterUrl, LineStart, Discard, ValueEnd, Identity,
         ChunkLine, ChunkBytes
<1>3. View(p.state, After(p, o))
  BY DEF View, UrlState, Bytes, Identity
<1> QED BY <1>1, <1>2, <1>3 DEF Post, Fine, K

\* The callbacks that may come before a header line, in the head of a message
\* and in its trailer.
BeforeLine(p) == IF Trailing(p) THEN {"chunk_header", "header_value"}
                 ELSE {"url", "status", "header_value"}

LEMMA FineLineStart ==
  ASSUME NEW p, NEW o, K(p, o), p.state \in LineStart, Clear(After(p, o)),
         After(p, o).last \in BeforeLine(p)
  PROVE  Post(p, o)
<1>1. p.state \in States /\ NumbersOK(p, 0)
  BY DEF States, LineStart, NumbersOK, ChunkLine, ChunkBytes,
         Heading, StartLine, UrlState, AfterUrl, Trailing
<1>2. LastOK(p.state, Trailing(p), After(p, o).last)
  BY DEF LastOK, BeforeLine, Begin, StartLine, UrlState, AfterUrl, LineStart, Discard, ValueEnd,
         Identity, ChunkLine, ChunkBytes
<1>3. View(p.state, After(p, o))
  BY DEF View, LineStart, UrlState, Bytes, Identity
<1> QED BY <1>1, <1>2, <1>3 DEF Post, Fine, K

LEMMA FineField ==
  ASSUME NEW p, NEW o, K(p, o), p.state = "s_header_field", On(After(p, o), "header_field"),
         After(p, o).last \in {"url", "status", "header_value", "chunk_header", "header_field"}
  PROVE  Post(p, o)
<1>1. p.state \in States /\ NumbersOK(p, 0)
  BY DEF States, NumbersOK, ChunkLine, ChunkBytes,
         Heading, StartLine, UrlState, AfterUrl, Trailing
<1>2. LastOK(p.state, Trailing(p), After(p, o).last)
  BY DEF LastOK, Begin, StartLine, UrlState, AfterUrl, LineStart, Discard, ValueEnd, Identity,
         ChunkLine, ChunkBytes
<1>3. View(p.state, After(p, o))
  BY DEF View, UrlState, Bytes, Identity
<1> QED BY <1>1, <1>2, <1>3 DEF Post, Fine, K

LEMMA FineDiscard ==
  ASSUME NEW p, NEW o, K(p, o), p.state \in Discard, Clear(After(p, o)),
         After(p, o).last = "header_field"
  PROVE  Post(p, o)
<1>1. p.state \in States /\ NumbersOK(p, 0)
  BY DEF States, Discard, NumbersOK, ChunkLine, ChunkBytes,
         Heading, StartLine, UrlState, AfterUrl, Trailing
<1>2. LastOK(p.state, Trailing(p), After(p, o).last)
  BY DEF LastOK, Begin, StartLine, UrlState, AfterUrl, LineStart, Discard, ValueEnd, Identity,
         ChunkLine, ChunkBytes
<1>3. View(p.state, After(p, o))
  BY DEF View, Discard, UrlState, Bytes, Identity
<1> QED BY <1>1, <1>2, <1>3 DEF Post, Fine, K

LEMMA FineValue ==
  ASSUME NEW p, NEW o, K(p, o), p.state = "s_header_value", On(After(p, o), "header_value"),
         After(p, o).last \in {"header_field", "header_value"},
         p.header_state \notin {"h_connection", "h_transfer_encoding"}
  PROVE  Post(p, o)
<1>1. p.state \in States /\ NumbersOK(p, 0)
  BY DEF States, NumbersOK, ChunkLine, ChunkBytes,
         Heading, StartLine, UrlState, AfterUrl, Trailing
<1>2. LastOK(p.state, Trailing(p), After(p, o).last)
  BY DEF LastOK, Begin, StartLine, UrlState, AfterUrl, LineStart, Discard, ValueEnd, Identity,
         ChunkLine, ChunkBytes
<1>3. View(p.state, After(p, o))
  BY DEF View, UrlState, Bytes, Identity
<1> QED BY <1>1, <1>2, <1>3 DEF Post, Fine, K

LEMMA FineValueEnd ==
  ASSUME NEW p, NEW o, K(p, o), p.state \in ValueEnd, Clear(After(p, o)),
         After(p, o).last = "header_value"
  PROVE  Post(p, o)
<1>1. p.state \in States /\ NumbersOK(p, 0)
  BY DEF States, ValueEnd, NumbersOK, ChunkLine, ChunkBytes,
         Heading, StartLine, UrlState, AfterUrl, Trailing
<1>2. LastOK(p.state, Trailing(p), After(p, o).last)
  BY DEF LastOK, Begin, StartLine, UrlState, AfterUrl, LineStart, Discard, ValueEnd, Identity,
         ChunkLine, ChunkBytes
<1>3. View(p.state, After(p, o))
  BY DEF View, ValueEnd, UrlState, Bytes, Identity
<1> QED BY <1>1, <1>2, <1>3 DEF Post, Fine, K

LEMMA FineIdentity ==
  ASSUME NEW p, NEW o, K(p, o), p.state \in Identity,
         On(After(p, o), "body") \/ Clear(After(p, o)),
         After(p, o).last \in {"headers_complete", "body"},
         p.state = "s_body_identity" => p.content_length \notin {0, MaxU}
  PROVE  Post(p, o)
<1>1. p.state \in States /\ NumbersOK(p, 0)
  BY DEF States, Identity, NumbersOK, ChunkLine, ChunkBytes,
         Heading, StartLine, UrlState, AfterUrl, Trailing
<1>2. LastOK(p.state, Trailing(p), After(p, o).last)
  BY DEF LastOK, Begin, StartLine, UrlState, AfterUrl, LineStart, Discard, ValueEnd, Identity,
         ChunkLine, ChunkBytes
<1>3. View(p.state, After(p, o))
  BY DEF View, UrlState, Bytes, Identity
<1> QED BY <1>1, <1>2, <1>3 DEF Post, Fine, K

LEMMA FineChunkLine ==
  ASSUME NEW p, NEW o, K(p, o), p.state \in ChunkLine, Clear(After(p, o)),
         After(p, o).last \in {"headers_complete", "chunk_complete"}, "F_CHUNKED" \in p.flags,
         IF p.state = "s_chunk_size_start" THEN p.nread = 0 ELSE p.content_length < MaxU
  PROVE  Post(p, o)
<1>1. p.state \in States /\ NumbersOK(p, 0)
  BY DEF States, NumbersOK, ChunkLine, ChunkBytes,
         Heading, StartLine, UrlState, AfterUrl, Trailing
<1>2. LastOK(p.state, Trailing(p), After(p, o).last)
  BY DEF LastOK, Begin, StartLine, UrlState, AfterUrl, LineStart, Discard, ValueEnd, Identity,
         ChunkLine, ChunkBytes
<1>3. View(p.state, After(p, o))
  BY DEF View, ChunkLine, UrlState, Bytes, Identity
<1> QED BY <1>1, <1>2, <1>3 DEF Post, Fine, K

LEMMA FineChunkBytes ==
  ASSUME NEW p, NEW o, K(p, o), p.state \in ChunkBytes,
         After(p, o).last \in {"chunk_header", "body"}, "F_CHUNKED" \in p.flags,
         CASE p.state = "s_chunk_data" -> /\ On(After(p, o), "body") \/ Clear(After(p, o))
                                          /\ p.content_length \notin {0, MaxU}
           [] p.state = "s_chunk_data_almost_done" -> /\ On(After(p, o), "body")
                                                      /\ p.content_length = 0
           [] OTHER -> Clear(After(p, o))
  PROVE  Post(p, o)
<1>1. p.state \in States /\ NumbersOK(p, 0)
  BY DEF States, NumbersOK, ChunkLine, ChunkBytes,
         Heading, StartLine, UrlState, AfterUrl, Trailing
<1>2. LastOK(p.state, Trailing(p), After(p, o).last)
  BY DEF LastOK, Begin, StartLine, UrlState, AfterUrl, LineStart, Discard, ValueEnd, Identity,
         ChunkLine, ChunkBytes
<1>3. View(p.state, After(p, o))
  BY DEF View, ChunkBytes, UrlState, Bytes, Identity
<1> QED BY <1>1, <1>2, <1>3 DEF Post, Fine, K

-----------------------------------------------------------------------------
(* The start line, handler by handler.                                     *)

LEMMA FreshK ==
  ASSUME NEW p, NEW o, K(p, o)
  PROVE  LET q == Fresh(p)
         IN  K(q, o) /\ q.state = p.state /\ After(q, o) = After(p, o) /\ ~Trailing(q)
<1> DEFINE r == [p EXCEPT !.flags = {}]
           q == [r EXCEPT !.content_length = MaxU]
<1>1. K(r, o) /\ r.state = p.state /\ After(r, o) = After(p, o) /\ r.flags = {}
  <2>1. {} \subseteq Flags
    OBVIOUS
  <2> QED BY <2>1, FlagsK
<1>2. Fresh(p) = q
  BY DEF Fresh, K, IsParser
<1>3. K(q, o) /\ q.state = r.state /\ After(q, o) = After(r, o) /\ q.flags = r.flags
  <2> HIDE DEF r
  <2>1. MaxU \in 0..MaxU
    BY HttpAssumption
  <2> QED BY <1>1, <2>1, LengthK
<1> HIDE DEF q, r
<1> QED BY <1>1, <1>2, <1>3 DEF Trailing

\* The start of a message: message_begin follows nothing or the end of another.
LEMMA BeginK ==
  ASSUME NEW p, NEW o, K(p, o), Clear(After(p, o)),
         After(p, o).last \in {"none", "message_complete"}, ~Trailing(p), NEW s, s \in StartLine
  PROVE  Post(CALLBACK_NOTIFY(To(p, s), "message_begin"), o)
<1> DEFINE r == To(p, s)
           q == CALLBACK_NOTIFY(r, "message_begin")
<1>1. K(r, o) /\ r.state = s /\ After(r, o) = After(p, o) /\ Keeps(p, r)
  BY ToK
<1> HIDE DEF r
<1>2. "message_begin" \in Notice /\ After(r, o).last \in Follows["message_begin"]
  BY <1>1 DEF Notice, Follows
<1>3. K(q, o) /\ q.state = s /\ Keeps(r, q) /\ Clear(After(q, o)) /\ After(q, o).last = "message_begin"
  BY <1>1, <1>2, NoteK
<1> HIDE DEF q
<1>4. Post(q, o)
  BY <1>1, <1>3, FineLine DEF Keeps, Trailing
<1> QED BY <1>4 DEF q, r

LEMMA StartReqPost ==
  ASSUME NEW p, NEW o, NEW ch, K(p, o), p.state \in Begin, Clear(After(p, o)),
         After(p, o).last \in {"none", "message_complete"}
  PROVE  Post(StartReq(p, ch), o)
<1> DEFINE r == Fresh(p)
           q == [r EXCEPT !.method = ch]
<1>1. K(r, o) /\ After(r, o) = After(p, o) /\ ~Trailing(r)
  BY FreshK
<1> HIDE DEF r
<1>2. K(q, o) /\ After(q, o) = After(p, o) /\ ~Trailing(q)
  BY <1>1, MethodK DEF Alike, Keeps, Trailing
<1> HIDE DEF q
<1>3. CASE ch \in {"CR", "LF"}
  <2>1. StartReq(p, ch) = p
    BY <1>3 DEF StartReq
  <2> QED BY <2>1, FineBegin
<1>4. CASE ch \notin {"CR", "LF"} /\ ch \notin Method
  <2>1. StartReq(p, ch) = SET_ERRNO(r, "HPE_INVALID_METHOD")
    BY <1>4 DEF StartReq, r
  <2> QED BY <1>1, <2>1, ErrK
<1>5. CASE ch \notin {"CR", "LF"} /\ ch \in Method
  <2>1. StartReq(p, ch) = CALLBACK_NOTIFY(To(q, "s_req_method"), "message_begin")
    BY <1>5 DEF StartReq, r, q
  <2>2. "s_req_method" \in StartLine
    BY DEF StartLine
  <2> QED BY <1>2, <2>1, <2>2, BeginK
<1> QED BY <1>3, <1>4, <1>5

LEMMA StartResPost ==
  ASSUME NEW p, NEW o, NEW ch, K(p, o), p.state \in Begin, Clear(After(p, o)),
         After(p, o).last \in {"none", "message_complete"}
  PROVE  Post(StartRes(p, ch), o)
<1> DEFINE r == Fresh(p)
<1>1. K(r, o) /\ After(r, o) = After(p, o) /\ ~Trailing(r)
  BY FreshK
<1> HIDE DEF r
<1>3. CASE ch \in {"CR", "LF"}
  <2>1. StartRes(p, ch) = p
    BY <1>3 DEF StartRes
  <2> QED BY <2>1, FineBegin
<1>4. CASE ch \notin {"CR", "LF"} /\ ch # "H"
  <2>1. StartRes(p, ch) = SET_ERRNO(r, "HPE_INVALID_CONSTANT")
    BY <1>4 DEF StartRes, r
  <2> QED BY <1>1, <2>1, ErrK
<1>5. CASE ch \notin {"CR", "LF"} /\ ch = "H"
  <2>1. StartRes(p, ch) = CALLBACK_NOTIFY(To(r, "s_res_H"), "message_begin")
    BY <1>5 DEF StartRes, r
  <2>2. "s_res_H" \in StartLine
    BY DEF StartLine
  <2> QED BY <1>1, <2>1, <2>2, BeginK
<1> QED BY <1>3, <1>4, <1>5

LEMMA StartReqOrResPost ==
  ASSUME NEW p, NEW o, NEW ch, K(p, o), p.state \in Begin, Clear(After(p, o)),
         After(p, o).last \in {"none", "message_complete"}
  PROVE  Post(StartReqOrRes(p, ch), o)
<1> DEFINE r == Fresh(p)
           t == [r EXCEPT !.type = "HTTP_REQUEST"]
           q == To(t, "s_start_req")
<1>1. K(r, o) /\ After(r, o) = After(p, o) /\ ~Trailing(r)
  BY FreshK
<1> HIDE DEF r
<1>2. K(t, o) /\ After(t, o) = After(p, o)
  BY <1>1, TypeK
<1> HIDE DEF t
<1>3. K(q, o) /\ q.state = "s_start_req" /\ After(q, o) = After(p, o)
  BY <1>2, ToK
<1> HIDE DEF q
<1>4. CASE ch \in {"CR", "LF"}
  <2>1. StartReqOrRes(p, ch) = p
    BY <1>4 DEF StartReqOrRes
  <2> QED BY <2>1, FineBegin
<1>5. CASE ch \notin {"CR", "LF"} /\ ch = "H"
  <2>1. StartReqOrRes(p, ch) = CALLBACK_NOTIFY(To(r, "s_res_or_resp_H"), "message_begin")
    BY <1>5 DEF StartReqOrRes, r
  <2>2. "s_res_or_resp_H" \in StartLine
    BY DEF StartLine
  <2> QED BY <1>1, <2>1, <2>2, BeginK
<1>6. CASE ch \notin {"CR", "LF"} /\ ch # "H"
  <2>1. StartReqOrRes(p, ch) = StartReq(q, ch)
    BY <1>6 DEF StartReqOrRes, r, t, q
  <2>2. q.state \in Begin
    BY <1>3 DEF Begin
  <2>3. Post(StartReq(q, ch), o)
    BY <1>3, <2>2, StartReqPost
  <2> QED BY <2>1, <2>3
<1> QED BY <1>4, <1>5, <1>6

\* A step along the start line.
LEMMA LineTo ==
  ASSUME NEW p, NEW o, K(p, o), Clear(After(p, o)), After(p, o).last = "message_begin",
         ~Trailing(p), NEW s, s \in StartLine
  PROVE  Post(To(p, s), o)
<1>1. LET q == To(p, s) IN K(q, o) /\ q.state = s /\ After(q, o) = After(p, o) /\ ~Trailing(q)
  BY ToK DEF Keeps, Trailing
<1> QED BY <1>1, FineLine

LEMMA ResOrRespHPost ==
  ASSUME NEW p, NEW o, NEW ch, K(p, o), Clear(After(p, o)), After(p, o).last = "message_begin",
         ~Trailing(p)
  PROVE  Post(ResOrRespH(p, ch), o)
<1> DEFINE t == [p EXCEPT !.type = "HTTP_RESPONSE"]
           r == [p EXCEPT !.type = "HTTP_REQUEST"]
           q == [r EXCEPT !.method = "HEAD"]
<1>1. K(t, o) /\ After(t, o) = After(p, o) /\ ~Trailing(t)
  BY TypeK DEF Alike, Keeps, Trailing
<1>2. K(r, o) /\ After(r, o) = After(p, o) /\ ~Trailing(r)
  BY TypeK DEF Alike, Keeps, Trailing
<1>3. q = [p EXCEPT !.type = "HTTP_REQUEST", !.method = "HEAD"]
  BY DEF K, IsParser
<1> HIDE DEF t, r
<1>4. K(q, o) /\ After(q, o) = After(p, o) /\ ~Trailing(q)
  BY <1>2, MethodK DEF Alike, Keeps, Trailing
<1> HIDE DEF q
<1>5. CASE ch = "TTP/"
  <2>1. ResOrRespH(p, ch) = To(t, "s_res_http_major")
    BY <1>5 DEF ResOrRespH, t
  <2>2. "s_res_http_major" \in StartLine
    BY DEF StartLine
  <2> QED BY <1>1, <2>1, <2>2, LineTo
<1>6. CASE ch = "EAD"
  <2>1. ResOrRespH(p, ch) = To(q, "s_req_method")
    BY <1>3, <1>6 DEF ResOrRespH
  <2>2. "s_req_method" \in StartLine
    BY DEF StartLine
  <2> QED BY <1>4, <2>1, <2>2, LineTo
<1>7. CASE ch \notin {"TTP/", "EAD"}
  <2>1. ResOrRespH(p, ch) = SET_ERRNO(p, "HPE_INVALID_CONSTANT")
    BY <1>7 DEF ResOrRespH
  <2> QED BY <2>1, ErrK
<1> QED BY <1>5, <1>6, <1>7

LEMMA ReqMethodPost ==
  ASSUME NEW p, NEW o, NEW ch, K(p, o), Clear(After(p, o)), After(p, o).last = "message_begin",
         ~Trailing(p)
  PROVE  Post(ReqMethod(p, ch), o)
<1>1. CASE ch = "SP"
  <2>1. "s_req_spaces_before_url" \in StartLine
    BY DEF StartLine
  <2>2. Post(To(p, "s_req_spaces_before_url"), o)
    BY <2>1, LineTo
  <2> QED BY <1>1, <2>2 DEF ReqMethod
<1>2. CASE ch # "SP"
  <2>1. Post(SET_ERRNO(p, "HPE_INVALID_METHOD"), o)
    BY ErrK
  <2> QED BY <1>2, <2>1 DEF ReqMethod
<1> QED BY <1>1, <1>2

LEMMA UrlNext ==
  ASSUME NEW s, NEW ch
  PROVE  parse_url_char(s, ch) \in UrlState \cup {"s_dead"}
  BY DEF parse_url_char, UrlState

\* The end of an element of the head: the callback gets it, and the state is s.
LEMMA ElementEnds ==
  ASSUME NEW p, NEW o, K(p, o), NEW e \in {"url", "status"}, On(After(p, o), e), ~Trailing(p),
         After(p, o).last \in {"message_begin", e}, NEW s
  PROVE  LET q == CALLBACK_DATA(To(p, s), e)
         IN  /\ K(q, o) /\ q.state = s /\ Clear(After(q, o)) /\ After(q, o).last = e /\ ~Trailing(q)
<1> DEFINE r == To(p, s)
           q == CALLBACK_DATA(r, e)
<1>1. K(r, o) /\ r.state = s /\ Keeps(p, r) /\ After(r, o) = After(p, o)
  BY ToK
<1> HIDE DEF r
<1>2. e \in Element /\ After(r, o).last \in Follows[e]
  BY <1>1 DEF Element, Follows
<1>3. K(q, o) /\ Keeps(r, q) /\ q.state = s /\ Clear(After(q, o)) /\ After(q, o).last = e
  BY <1>1, <1>2, CallK
<1> HIDE DEF q
<1>4. ~Trailing(q)
  BY <1>1, <1>3 DEF Keeps, Trailing
<1> QED BY <1>3, <1>4 DEF q, r

LEMMA ReqUrlPost ==
  ASSUME NEW p, NEW o, NEW ch, K(p, o), ~Trailing(p),
         \/ /\ p.state = "s_req_spaces_before_url" /\ Clear(After(p, o))
            /\ After(p, o).last = "message_begin"
         \/ /\ p.state \in UrlState /\ On(After(p, o), "url")
            /\ After(p, o).last \in {"message_begin", "url"}
  PROVE  Post(ReqUrl(p, ch), o)
<1> DEFINE start == p.state = "s_req_spaces_before_url"
           from == IF p.state # "s_req_spaces_before_url" THEN p.state
                   ELSE IF p.method = "CONNECT" THEN "s_req_server_start" ELSE p.state
           next == parse_url_char(from, ch)
           q == IF p.state = "s_req_spaces_before_url" THEN MARK(p, "url") ELSE p
           early == p.state \in {"s_req_schema", "s_req_schema_slash", "s_req_schema_slash_slash",
                                 "s_req_server_start"}
<1>1. next \in UrlState \cup {"s_dead"}
  BY UrlNext
<1>2. K(q, o) /\ On(After(q, o), "url") /\ ~Trailing(q)
      /\ After(q, o).last \in {"message_begin", "url"}
  <2>1. CASE start
    <3>1. "url" \in Element /\ Clear(After(p, o)) /\ After(p, o).last = "message_begin"
      BY <2>1 DEF Element, UrlState
    <3>2. LET r == MARK(p, "url")
          IN  K(r, o) /\ Keeps(p, r) /\ On(After(r, o), "url") /\ After(r, o).last = After(p, o).last
      BY <3>1, MarkK
    <3> QED BY <2>1, <3>1, <3>2 DEF Keeps, Trailing
  <2>2. CASE ~start
    BY <2>2
  <2> QED BY <2>1, <2>2
<1>3. CASE start /\ ch = "SP"
  <2>1. ReqUrl(p, ch) = p
    BY <1>3 DEF ReqUrl
  <2>2. p.state \in StartLine /\ Clear(After(p, o)) /\ After(p, o).last = "message_begin"
    BY <1>3 DEF StartLine, UrlState
  <2> QED BY <2>1, <2>2, FineLine
<1>4. CASE ~(start /\ ch = "SP") /\ early /\ ch \in {"SP", "CR", "LF"}
  <2>1. ReqUrl(p, ch) = SET_ERRNO(p, "HPE_INVALID_URL")
    BY <1>4 DEF ReqUrl
  <2> QED BY <2>1, ErrK
<1>5. CASE ~start /\ ~early /\ ch = "SP"
  <2> DEFINE r == CALLBACK_DATA(To(p, "s_req_http_start"), "url")
  <2>1. ReqUrl(p, ch) = r
    BY <1>5 DEF ReqUrl
  <2>2. /\ K(r, o) /\ r.state = "s_req_http_start" /\ Clear(After(r, o)) /\ After(r, o).last = "url"
        /\ ~Trailing(r)
    BY <1>5, ElementEnds
  <2> HIDE DEF r
  <2>3. r.state \in AfterUrl
    BY <2>2 DEF AfterUrl
  <2> QED BY <2>1, <2>2, <2>3, FineAfterUrl
<1>6. CASE ~start /\ ~early /\ ch \in {"CR", "LF"}
  <2> DEFINE s == IF ch = "CR" THEN "s_req_line_almost_done" ELSE "s_header_field_start"
             t == [p EXCEPT !.http11 = FALSE]
             r == CALLBACK_DATA(To(t, s), "url")
  <2>1. ReqUrl(p, ch) = r
    BY <1>6 DEF ReqUrl
  <2>2. K(t, o) /\ Alike(p, t) /\ After(t, o) = After(p, o)
    BY Http11K
  <2> HIDE DEF t, s
  <2>3. ~Trailing(t) /\ On(After(t, o), "url") /\ After(t, o).last \in {"message_begin", "url"}
    BY <1>6, <2>2 DEF Alike, Keeps, Trailing
  <2>4. K(r, o) /\ r.state = s /\ Clear(After(r, o)) /\ After(r, o).last = "url" /\ ~Trailing(r)
    BY <2>2, <2>3, ElementEnds
  <2> HIDE DEF r
  <2>5. CASE ch = "CR"
    <3>1. r.state \in AfterUrl
      BY <2>4, <2>5 DEF AfterUrl, s
    <3> QED BY <2>1, <2>4, <3>1, FineAfterUrl
  <2>6. CASE ch # "CR"
    <3>1. r.state \in LineStart /\ After(r, o).last \in BeforeLine(r)
      BY <2>4, <2>6 DEF LineStart, BeforeLine, s
    <3> QED BY <2>1, <2>4, <3>1, FineLineStart
  <2> QED BY <2>5, <2>6
<1>7. CASE /\ ~(start /\ ch = "SP") /\ ~(early /\ ch \in {"SP", "CR", "LF"})
           /\ ~(~start /\ ch \in {"SP", "CR", "LF"})
  <2> DEFINE r == To(q, next)
  <2>1. ReqUrl(p, ch) = IF next = "s_dead" THEN SET_ERRNO(r, "HPE_INVALID_URL") ELSE r
    BY <1>7 DEF ReqUrl
  <2> HIDE DEF q, next
  <2>2. K(r, o) /\ r.state = next /\ Keeps(q, r) /\ After(r, o) = After(q, o)
    BY <1>2, ToK
  <2> HIDE DEF r
  <2>3. CASE next = "s_dead"
    <3>1. Post(SET_ERRNO(r, "HPE_INVALID_URL"), o)
      BY <2>2, ErrK
    <3> QED BY <2>1, <2>3, <3>1
  <2>4. CASE next # "s_dead"
    <3>1. r.state \in UrlState /\ ~Trailing(r)
      BY <1>1, <1>2, <2>2, <2>4 DEF Keeps, Trailing
    <3>2. Post(r, o)
      BY <1>2, <2>2, <3>1, FineUrl
    <3> QED BY <2>1, <2>4, <3>2
  <2> QED BY <2>3, <2>4
<1> QED BY <1>3, <1>4, <1>5, <1>6, <1>7

\* A step after the URL; the end of the line begins the headers.
LEMMA UrlTo ==
  ASSUME NEW p, NEW o, K(p, o), Clear(After(p, o)), After(p, o).last = "url", ~Trailing(p),
         NEW s, s \in AfterUrl \cup {"s_header_field_start"}
  PROVE  Post(To(p, s), o)
<1> DEFINE q == To(p, s)
<1>1. K(q, o) /\ q.state = s /\ After(q, o) = After(p, o) /\ ~Trailing(q)
  BY ToK DEF Keeps, Trailing
<1> HIDE DEF q
<1>2. CASE s \in AfterUrl
  BY <1>1, <1>2, FineAfterUrl DEF q
<1>3. CASE s = "s_header_field_start"
  <2>1. q.state \in LineStart /\ After(q, o).last \in BeforeLine(q)
    BY <1>1, <1>3 DEF LineStart, BeforeLine
  <2> QED BY <1>1, <2>1, FineLineStart DEF q
<1> QED BY <1>2, <1>3

LEMMA ReqVersionPost ==
  ASSUME NEW p, NEW o, NEW ch, K(p, o), Clear(After(p, o)), After(p, o).last = "url", ~Trailing(p),
         p.state \in {"s_req_http_start", "s_req_http_H", "s_req_http_major", "s_req_http_minor",
                      "s_req_http_end"}
  PROVE  Post(ReqVersion(p, ch), o)
<1> DEFINE v == (ch = "1")
           t == [p EXCEPT !.http11 = v]
<1>1. K(t, o) /\ After(t, o) = After(p, o) /\ ~Trailing(t)
  <2> HIDE DEF v
  <2>1. K(t, o) /\ Alike(p, t) /\ After(t, o) = After(p, o)
    BY Http11K
  <2> HIDE DEF t
  <2> QED BY <2>1 DEF Alike, Keeps, Trailing
<1>2. \A s \in AfterUrl \cup {"s_header_field_start"} : Post(To(p, s), o) /\ Post(To(t, s), o)
  <2> TAKE s \in AfterUrl \cup {"s_header_field_start"}
  <2> HIDE DEF t
  <2>1. Post(To(p, s), o)
    BY UrlTo
  <2>2. Post(To(t, s), o)
    BY <1>1, UrlTo
  <2> QED BY <2>1, <2>2
<1>3. Post(p, o)
  BY FineAfterUrl DEF AfterUrl
<1>4. \A e \in {"HPE_INVALID_CONSTANT", "HPE_STRICT", "HPE_INVALID_VERSION"} :
        Post(SET_ERRNO(p, e), o)
  BY ErrK
<1>5. /\ Post(To(p, "s_req_http_H"), o) /\ Post(To(p, "s_req_http_major"), o)
      /\ Post(To(p, "s_req_http_minor"), o) /\ Post(To(t, "s_req_http_end"), o)
      /\ Post(To(p, "s_req_line_almost_done"), o) /\ Post(To(p, "s_header_field_start"), o)
  <2> HIDE DEF t
  <2> QED BY <1>2 DEF AfterUrl
<1>6. \/ ReqVersion(p, ch) = p
      \/ \E s \in {"s_req_http_H", "s_req_http_major", "s_req_http_minor",
                   "s_req_line_almost_done", "s_header_field_start"} : ReqVersion(p, ch) = To(p, s)
      \/ ReqVersion(p, ch) = To(t, "s_req_http_end")
      \/ \E e \in {"HPE_INVALID_CONSTANT", "HPE_STRICT", "HPE_INVALID_VERSION"} :
           ReqVersion(p, ch) = SET_ERRNO(p, e)
  BY DEF ReqVersion
<1> HIDE DEF t
<1> QED BY <1>3, <1>4, <1>5, <1>6

LEMMA ResVersionPost ==
  ASSUME NEW p, NEW o, NEW ch, K(p, o), Clear(After(p, o)), After(p, o).last = "message_begin",
         ~Trailing(p)
  PROVE  Post(ResVersion(p, ch), o)
<1> DEFINE v == (ch = "1")
           t == [p EXCEPT !.http11 = v]
<1>1. K(t, o) /\ After(t, o) = After(p, o) /\ ~Trailing(t)
  <2> HIDE DEF v
  <2>1. K(t, o) /\ Alike(p, t) /\ After(t, o) = After(p, o)
    BY Http11K
  <2> HIDE DEF t
  <2> QED BY <2>1 DEF Alike, Keeps, Trailing
<1>2. \A s \in StartLine : Post(To(p, s), o) /\ Post(To(t, s), o)
  <2> TAKE s \in StartLine
  <2> HIDE DEF t
  <2>1. Post(To(p, s), o)
    BY LineTo
  <2>2. Post(To(t, s), o)
    BY <1>1, LineTo
  <2> QED BY <2>1, <2>2
<1>3. \A e \in {"HPE_STRICT", "HPE_INVALID_VERSION"} : Post(SET_ERRNO(p, e), o)
  BY ErrK
<1>4. /\ Post(To(p, "s_res_http_major"), o) /\ Post(To(p, "s_res_http_minor"), o)
      /\ Post(To(t, "s_res_http_end"), o) /\ Post(To(p, "s_res_first_status_code"), o)
  <2> HIDE DEF t
  <2> QED BY <1>2 DEF StartLine
<1>5. \/ \E s \in {"s_res_http_major", "s_res_http_minor", "s_res_first_status_code"} :
           ResVersion(p, ch) = To(p, s)
      \/ ResVersion(p, ch) = To(t, "s_res_http_end")
      \/ \E e \in {"HPE_STRICT", "HPE_INVALID_VERSION"} : ResVersion(p, ch) = SET_ERRNO(p, e)
  BY DEF ResVersion
<1> HIDE DEF t
<1> QED BY <1>3, <1>4, <1>5

LEMMA ResStatusPost ==
  ASSUME NEW p, NEW o, NEW ch, K(p, o), p.state = "s_res_status", On(After(p, o), "status"),
         After(p, o).last \in {"message_begin", "status"}, ~Trailing(p)
  PROVE  Post(ResStatus(p, ch), o)
<1>1. CASE ch = "CR"
  <2> DEFINE r == CALLBACK_DATA(To(p, "s_res_line_almost_done"), "status")
  <2>1. ResStatus(p, ch) = r
    BY <1>1 DEF ResStatus
  <2>2. /\ K(r, o) /\ r.state = "s_res_line_almost_done" /\ Clear(After(r, o))
        /\ After(r, o).last = "status" /\ ~Trailing(r)
    BY ElementEnds
  <2> HIDE DEF r
  <2> QED BY <2>1, <2>2, FineStatusEnd
<1>2. CASE ch = "LF"
  <2> DEFINE r == CALLBACK_DATA(To(p, "s_header_field_start"), "status")
  <2>1. ResStatus(p, ch) = r
    BY <1>2 DEF ResStatus
  <2>2. /\ K(r, o) /\ r.state = "s_header_field_start" /\ Clear(After(r, o))
        /\ After(r, o).last = "status" /\ ~Trailing(r)
    BY ElementEnds
  <2> HIDE DEF r
  <2>3. r.state \in LineStart /\ After(r, o).last \in BeforeLine(r)
    BY <2>2 DEF LineStart, BeforeLine
  <2> QED BY <2>1, <2>2, <2>3, FineLineStart
<1>3. CASE ch \notin {"CR", "LF"}
  <2>1. ResStatus(p, ch) = p
    BY <1>3 DEF ResStatus
  <2> QED BY <2>1, FineStatus
<1> QED BY <1>1, <1>2, <1>3

LEMMA ResStatusStartPost ==
  ASSUME NEW p, NEW o, NEW ch, K(p, o), Clear(After(p, o)), After(p, o).last = "message_begin",
         ~Trailing(p)
  PROVE  Post(ResStatusStart(p, ch), o)
<1> DEFINE r == To(p, "s_res_status")
           q == MARK(r, "status")
<1>1. K(r, o) /\ r.state = "s_res_status" /\ Keeps(p, r) /\ After(r, o) = After(p, o)
  BY ToK
<1> HIDE DEF r
<1>2. "status" \in Element
  BY DEF Element
<1>3. /\ K(q, o) /\ Keeps(r, q) /\ q.state = r.state /\ On(After(q, o), "status")
      /\ After(q, o).last = After(r, o).last
  BY <1>1, <1>2, MarkK
<1> HIDE DEF q
<1>4. q.state = "s_res_status" /\ After(q, o).last \in {"message_begin", "status"} /\ ~Trailing(q)
  BY <1>1, <1>3 DEF Keeps, Trailing
<1>5. ResStatusStart(p, ch) = IF ch \in {"CR", "LF"} THEN ResStatus(q, ch) ELSE q
  BY DEF ResStatusStart, q, r
<1>6. Post(q, o)
  BY <1>3, <1>4, FineStatus
<1>7. Post(ResStatus(q, ch), o)
  BY <1>3, <1>4, ResStatusPost
<1> QED BY <1>5, <1>6, <1>7

LEMMA ResCodePost ==
  ASSUME NEW p, NEW o, NEW ch, K(p, o), Clear(After(p, o)), After(p, o).last = "message_begin",
         ~Trailing(p), p.state \in {"s_res_first_status_code", "s_res_status_code"}
  PROVE  Post(ResCode(p, ch), o)
<1> DEFINE t == [p EXCEPT !.status_code = ch]
<1>1. K(t, o) /\ After(t, o) = After(p, o) /\ ~Trailing(t)
  BY StatusK DEF Alike, Keeps, Trailing
<1> HIDE DEF t
<1>2. "s_res_status_code" \in StartLine /\ "s_res_status_start" \in StartLine
  BY DEF StartLine
<1>3. Post(To(t, "s_res_status_code"), o)
  BY <1>1, <1>2, LineTo
<1>4. Post(To(p, "s_res_status_start"), o)
  BY <1>2, LineTo
<1>5. Post(p, o)
  BY FineLine DEF StartLine
<1>6. Post(SET_ERRNO(p, "HPE_INVALID_STATUS"), o)
  BY ErrK
<1>7. Post(ResStatusStart(p, ch), o)
  BY ResStatusStartPost
<1>8. \/ ResCode(p, ch) \in {p, To(t, "s_res_status_code"), To(p, "s_res_status_start")}
      \/ ResCode(p, ch) \in {ResStatusStart(p, ch), SET_ERRNO(p, "HPE_INVALID_STATUS")}
  BY DEF ResCode, t
<1> QED BY <1>3, <1>4, <1>5, <1>6, <1>7, <1>8

LEMMA LineAlmostDonePost ==
  ASSUME NEW p, NEW o, NEW ch, K(p, o), Clear(After(p, o)),
         After(p, o).last \in {"url", "status"}, ~Trailing(p)
  PROVE  Post(LineAlmostDone(p, ch), o)
<1>1. CASE ch = "LF"
  <2> DEFINE q == To(p, "s_header_field_start")
  <2>1. LineAlmostDone(p, ch) = q
    BY <1>1 DEF LineAlmostDone
  <2>2. K(q, o) /\ q.state = "s_header_field_start" /\ Keeps(p, q) /\ After(q, o) = After(p, o)
    BY ToK
  <2> HIDE DEF q
  <2>3. q.state \in LineStart /\ After(q, o).last \in BeforeLine(q)
    BY <2>2 DEF LineStart, BeforeLine, Keeps, Trailing
  <2> QED BY <2>1, <2>2, <2>3, FineLineStart
<1>2. CASE ch # "LF"
  <2>1. PICK e \in {"HPE_STRICT", "HPE_LF_EXPECTED"} : LineAlmostDone(p, ch) = SET_ERRNO(p, e)
    BY <1>2 DEF LineAlmostDone
  <2>2. Post(SET_ERRNO(p, e), o)
    BY ErrK
  <2> QED BY <2>1, <2>2
<1> QED BY <1>1, <1>2

-----------------------------------------------------------------------------
(* The end of the headers and the body.                                    *)

LEMMA NewMessage ==
  ASSUME NEW p
  PROVE  NEW_MESSAGE(p) \in {"s_dead", "s_start_req", "s_start_res"}
  BY DEF NEW_MESSAGE

\* The end of a message.  Whether the connection is left does not matter.
LEMMA CompletePost ==
  ASSUME NEW p, NEW o, K(p, o), Clear(After(p, o)),
         After(p, o).last \in {"headers_complete", "body", "chunk_complete"}, NEW v
  PROVE  LET q == CALLBACK_NOTIFY(To(p, NEW_MESSAGE(p)), "message_complete")
         IN  Post(q, o) /\ Post([q EXCEPT !.left = v], o)
<1> DEFINE s == NEW_MESSAGE(p)
           r == To(p, s)
           q == CALLBACK_NOTIFY(r, "message_complete")
           t == [q EXCEPT !.left = v]
<1>1. s \in {"s_dead", "s_start_req", "s_start_res"}
  BY NewMessage
<1> HIDE DEF s
<1>2. K(r, o) /\ r.state = s /\ After(r, o) = After(p, o)
  BY ToK
<1> HIDE DEF r
<1>3. "message_complete" \in Notice /\ After(r, o).last \in Follows["message_complete"]
  BY <1>2 DEF Notice, Follows
<1>4. K(q, o) /\ q.state = s /\ Clear(After(q, o)) /\ After(q, o).last = "message_complete"
  BY <1>2, <1>3, NoteK
<1> HIDE DEF q
<1>5. K(t, o) /\ t.state = s /\ After(t, o) = After(q, o)
  BY <1>4, LeftK DEF Alike
<1> HIDE DEF t
<1>6. ASSUME NEW z, K(z, o), z.state = s, Clear(After(z, o)),
             After(z, o).last = "message_complete"
      PROVE  Post(z, o)
  <2>1. CASE s = "s_dead"
    BY <1>6, <2>1, FineDead
  <2>2. CASE s # "s_dead"
    <3>1. z.state \in Begin
      BY <1>1, <1>6, <2>2 DEF Begin
    <3> QED BY <1>6, <3>1, FineBegin
  <2> QED BY <2>1, <2>2
<1>7. Post(q, o)
  BY <1>4, <1>6
<1>8. Post(t, o)
  BY <1>4, <1>5, <1>6
<1> QED BY <1>7, <1>8 DEF q, r, s, t

LEMMA MessageCompletePost ==
  ASSUME NEW p, NEW o, K(p, o), Clear(After(p, o)),
         After(p, o).last \in {"headers_complete", "body", "chunk_complete"}
  PROVE  Post(MessageComplete(p), o)
<1> DEFINE v == p.upgrade
<1>1. MessageComplete(p)
        = [CALLBACK_NOTIFY(To(p, NEW_MESSAGE(p)), "message_complete") EXCEPT !.left = v]
  BY DEF MessageComplete
<1> HIDE DEF v
<1> QED BY <1>1, CompletePost

LEMMA HeadersDonePost ==
  ASSUME NEW p0, NEW o, K(p0, o), Clear(After(p0, o)), After(p0, o).last = "headers_complete"
  PROVE  Post(HeadersDone(p0), o)
<1> DEFINE p == [p0 EXCEPT !.nread = 0]
           Complete == CALLBACK_NOTIFY(To(p, NEW_MESSAGE(p)), "message_complete")
           left == [Complete EXCEPT !.left = TRUE]
           size == To(p, "s_chunk_size_start")
           identity == To(p, "s_body_identity")
           eof == To(p, "s_body_identity_eof")
<1>1. K(p, o) /\ p.nread = 0 /\ After(p, o) = After(p0, o)
  <2>1. 0 \in 0..max_header_size
    BY HttpAssumption
  <2> QED BY <2>1, NreadK
<1>2. \/ HeadersDone(p0) \in {Complete, left}
      \/ HeadersDone(p0) = size /\ "F_CHUNKED" \in p.flags
      \/ HeadersDone(p0) = identity /\ p.content_length \notin {0, MaxU}
      \/ HeadersDone(p0) = eof
  <2> DEFINE hasBody == "F_CHUNKED" \in p.flags \/ p.content_length \notin {0, MaxU}
             leaves == /\ p.upgrade
                       /\ p.method = "CONNECT" \/ "F_SKIPBODY" \in p.flags \/ ~hasBody
  <2>1. HeadersDone(p0) = IF leaves THEN left
                          ELSE IF "F_SKIPBODY" \in p.flags THEN Complete
                          ELSE IF "F_CHUNKED" \in p.flags THEN size
                          ELSE IF p.content_length = 0 THEN Complete
                          ELSE IF p.content_length # MaxU THEN identity
                          ELSE IF ~http_message_needs_eof(p) THEN Complete
                          ELSE eof
    BY Zenon DEF HeadersDone
  <2> HIDE DEF Complete, left, size, identity, eof, leaves, p
  <2> QED BY <2>1
<1> HIDE DEF p
<1>3. Post(Complete, o) /\ Post(left, o)
  BY <1>1, CompletePost
<1>4. "F_CHUNKED" \in p.flags => Post(size, o)
  <2>1. K(size, o) /\ size.state = "s_chunk_size_start" /\ Keeps(p, size) /\ After(size, o) = After(p, o)
    BY <1>1, ToK
  <2> HIDE DEF size
  <2>2. size.state \in ChunkLine
    BY <2>1 DEF ChunkLine
  <2> QED BY <1>1, <2>1, <2>2, FineChunkLine DEF Keeps
<1>5. p.content_length \notin {0, MaxU} => Post(identity, o)
  <2>1. /\ K(identity, o) /\ identity.state = "s_body_identity" /\ Keeps(p, identity)
        /\ After(identity, o) = After(p, o)
    BY <1>1, ToK
  <2> HIDE DEF identity
  <2>2. identity.state \in Identity
    BY <2>1 DEF Identity
  <2> QED BY <1>1, <2>1, <2>2, FineIdentity DEF Keeps
<1>6. Post(eof, o)
  <2>1. K(eof, o) /\ eof.state = "s_body_identity_eof" /\ After(eof, o) = After(p, o)
    BY <1>1, ToK
  <2> HIDE DEF eof
  <2>2. eof.state \in Identity
    BY <2>1 DEF Identity
  <2> QED BY <1>1, <2>1, <2>2, FineIdentity
<1> HIDE DEF Complete, left, size, identity, eof
<1> QED BY <1>2, <1>3, <1>4, <1>5, <1>6

LEMMA HeadersAlmostDonePost ==
  ASSUME NEW p, NEW o, NEW ch, K(p, o), Clear(After(p, o)), After(p, o).last \in BeforeLine(p)
  PROVE  Post(HeadersAlmostDone(p, ch), o)
<1> DEFINE switch == {"F_UPGRADE", "F_CONNECTION_UPGRADE"} \subseteq p.flags
           a == p.on_headers_complete
           up == IF a = 2 THEN TRUE
                 ELSE IF switch THEN p.type = "HTTP_REQUEST" \/ p.status_code = "101"
                 ELSE p.method = "CONNECT"
           fl == IF a \in {1, 2} THEN p.flags \cup {"F_SKIPBODY"} ELSE p.flags
           t == To(p, "s_headers_done")
           u == [t EXCEPT !.upgrade = up]
           q == [u EXCEPT !.flags = fl]
           told == CALLBACK_NOTIFY(q, "headers_complete")
           m == To(p, "s_message_done")
           end == CALLBACK_NOTIFY(m, "chunk_complete")
<1>1. CASE ch # "LF"
  <2>1. HeadersAlmostDone(p, ch) = SET_ERRNO(p, "HPE_STRICT")
    BY <1>1 DEF HeadersAlmostDone
  <2> QED BY <2>1, ErrK
<1>2. CASE ch = "LF" /\ Trailing(p)
  <2>1. HeadersAlmostDone(p, ch) = MessageComplete(end)
    BY <1>2 DEF HeadersAlmostDone, Trailing
  <2>2. K(m, o) /\ After(m, o) = After(p, o)
    BY ToK
  <2> HIDE DEF m
  <2>3. "chunk_complete" \in Notice /\ After(m, o).last \in Follows["chunk_complete"]
    BY <1>2, <2>2 DEF Notice, Follows, BeforeLine
  <2>4. K(end, o) /\ Clear(After(end, o)) /\ After(end, o).last = "chunk_complete"
    BY <2>2, <2>3, NoteK
  <2> HIDE DEF end
  <2> QED BY <2>1, <2>4, MessageCompletePost
<1>3. CASE ch = "LF" /\ ~Trailing(p) /\ {"F_CHUNKED", "F_CONTENTLENGTH"} \subseteq p.flags
  <2>1. HeadersAlmostDone(p, ch) = SET_ERRNO(p, "HPE_UNEXPECTED_CONTENT_LENGTH")
    BY <1>3 DEF HeadersAlmostDone, Trailing
  <2> QED BY <2>1, ErrK
<1>4. CASE ch = "LF" /\ ~Trailing(p) /\ ~({"F_CHUNKED", "F_CONTENTLENGTH"} \subseteq p.flags)
  <2>1. HeadersAlmostDone(p, ch)
          = IF a \notin {0, 1, 2} THEN SET_ERRNO(told, "HPE_CB_headers_complete")
            ELSE HeadersDone(told)
    <3>0. p.flags \subseteq Flags
      BY DEF K, IsParser
    <3>1. t = [p EXCEPT !.state = "s_headers_done"]
      BY DEF To
    <3>2. t.flags = p.flags /\ t = [type |-> t.type, state |-> t.state,
             header_state |-> t.header_state, flags |-> t.flags,
             content_length |-> t.content_length, method |-> t.method, http11 |-> t.http11,
             status_code |-> t.status_code, upgrade |-> t.upgrade, nread |-> t.nread,
             http_errno |-> t.http_errno, on_headers_complete |-> t.on_headers_complete,
             left |-> t.left, effects |-> t.effects]
      BY <3>1 DEF K, IsParser
    <3>3. \A v, w : [t EXCEPT !.upgrade = v, !.flags = w]
                      = [[t EXCEPT !.upgrade = v] EXCEPT !.flags = w]
      <4> HIDE DEF t
      <4> QED BY <3>2
    <3>4. [t EXCEPT !.upgrade = up, !.flags = fl] = q
      <4> HIDE DEF t, up, fl
      <4> QED BY <3>3 DEF u, q
    <3>5. HeadersAlmostDone(p, ch) =
            LET z == [t EXCEPT !.upgrade = up,
                               !.flags = IF a \in {1, 2} THEN @ \cup {"F_SKIPBODY"} ELSE @]
            IN IF a \notin {0, 1, 2}
               THEN SET_ERRNO(CALLBACK_NOTIFY(z, "headers_complete"), "HPE_CB_headers_complete")
               ELSE HeadersDone(CALLBACK_NOTIFY(z, "headers_complete"))
      BY <1>4, Zenon DEF HeadersAlmostDone, Trailing
    <3>6. [t EXCEPT !.upgrade = up, !.flags = IF a \in {1, 2} THEN @ \cup {"F_SKIPBODY"} ELSE @]
            = [t EXCEPT !.upgrade = up, !.flags = fl]
      <4> HIDE DEF t, up
      <4> QED BY <3>2
    <3> HIDE DEF q, up, fl, t
    <3> QED BY <3>4, <3>5, <3>6, Zenon DEF told
  <2>2. K(t, o) /\ After(t, o) = After(p, o) /\ Keeps(p, t)
    BY ToK
  <2>3. fl \subseteq Flags
    BY DEF K, IsParser, Flags
  <2> HIDE DEF t, up, fl
  <2>4. K(u, o) /\ After(u, o) = After(p, o)
    BY <2>2, UpgradeK
  <2> HIDE DEF u
  <2>5. K(q, o) /\ After(q, o) = After(p, o)
    BY <2>3, <2>4, FlagsK
  <2> HIDE DEF q
  <2>6. "headers_complete" \in Notice /\ After(q, o).last \in Follows["headers_complete"]
    BY <1>4, <2>5 DEF Notice, Follows, BeforeLine
  <2>7. K(told, o) /\ Clear(After(told, o)) /\ After(told, o).last = "headers_complete"
    BY <2>5, <2>6, NoteK
  <2> HIDE DEF told
  <2>8. Post(SET_ERRNO(told, "HPE_CB_headers_complete"), o)
    BY <2>7, ErrK
  <2>9. Post(HeadersDone(told), o)
    BY <2>7, HeadersDonePost
  <2> HIDE DEF a
  <2> QED BY <2>1, <2>8, <2>9
<1> QED BY <1>1, <1>2, <1>3, <1>4

\* The mark of a body byte, and the byte counted.
LEMMA BodyByte ==
  ASSUME NEW p, NEW o, K(p, o), p.content_length # 0,
         LET a == After(p, o) IN Clear(a) \/ On(a, "body") \/ Cut(a, "body")
  PROVE  LET q == [MARK(p, "body") EXCEPT !.content_length = @ - 1]
         IN  /\ K(q, o) /\ q.state = p.state /\ q.flags = p.flags
             /\ q.content_length = p.content_length - 1
             /\ On(After(q, o), "body") /\ After(q, o).last = After(p, o).last
<1> DEFINE r == MARK(p, "body")
           v == r.content_length - 1
           q == [r EXCEPT !.content_length = v]
<1>1. "body" \in Element
  BY DEF Element
<1>2. /\ K(r, o) /\ Keeps(p, r) /\ r.state = p.state
      /\ On(After(r, o), "body") /\ After(r, o).last = After(p, o).last
  BY <1>1, MarkK
<1> HIDE DEF r
<1>3. v \in 0..MaxU /\ v = p.content_length - 1
  BY <1>2, HttpAssumption DEF K, IsParser, Keeps
<1> HIDE DEF v
<1>4. K(q, o) /\ q.content_length = v /\ After(q, o) = After(r, o) /\ q.state = r.state
      /\ q.flags = r.flags
  BY <1>2, <1>3, LengthK
<1> QED BY <1>2, <1>3, <1>4 DEF q, r, v, Keeps

LEMMA BodyIdentityPost ==
  ASSUME NEW p, NEW o, K(p, o), p.state = "s_body_identity", p.content_length \notin {0, MaxU},
         LET a == After(p, o) IN Clear(a) \/ On(a, "body") \/ Cut(a, "body"),
         After(p, o).last \in {"headers_complete", "body"}
  PROVE  Post(BodyIdentity(p), o)
<1> DEFINE q == [MARK(p, "body") EXCEPT !.content_length = @ - 1]
           x == DataOf("body", 1)
           out == [q EXCEPT !.effects = Append(@, x)]
           d == To(out, "s_message_done")
<1>1. /\ K(q, o) /\ q.state = p.state /\ q.content_length = p.content_length - 1
      /\ On(After(q, o), "body") /\ After(q, o).last = After(p, o).last
  BY BodyByte
<1>2. BodyIdentity(p) = IF q.content_length = 0 THEN MessageComplete(d) ELSE q
  BY DEF BodyIdentity, ASSERT, DataOf
<1> HIDE DEF q
<1>3. CASE q.content_length = 0
  <2>1. /\ "body" \in Element /\ After(q, o).last \in Follows["body"] /\ 1 \in {0, 1}
        /\ ~Cut(After(q, o), "body")
    BY <1>1 DEF Element, Follows, On, Cut
  <2>2. K(out, o) /\ Clear(After(out, o)) /\ After(out, o).last = "body"
    BY <1>1, <2>1, DataK
  <2> HIDE DEF out
  <2>3. K(d, o) /\ After(d, o) = After(out, o)
    BY <2>2, ToK
  <2> HIDE DEF d
  <2>4. Post(MessageComplete(d), o)
    BY <2>2, <2>3, MessageCompletePost
  <2> QED BY <1>2, <1>3, <2>4
<1>4. CASE q.content_length # 0
  <2>1. q.content_length \notin {0, MaxU} /\ q.state \in Identity
    BY <1>1, <1>4, HttpAssumption DEF Identity, K, IsParser
  <2>2. Post(q, o)
    BY <1>1, <2>1, FineIdentity
  <2> QED BY <1>2, <1>4, <2>2
<1> QED BY <1>3, <1>4

LEMMA BodyEofPost ==
  ASSUME NEW p, NEW o, K(p, o), p.state = "s_body_identity_eof",
         LET a == After(p, o) IN Clear(a) \/ On(a, "body") \/ Cut(a, "body"),
         After(p, o).last \in {"headers_complete", "body"}
  PROVE  Post(MARK(p, "body"), o)
<1> DEFINE q == MARK(p, "body")
<1>1. "body" \in Element
  BY DEF Element
<1>2. K(q, o) /\ q.state = p.state /\ On(After(q, o), "body") /\ After(q, o).last = After(p, o).last
  BY <1>1, MarkK
<1> HIDE DEF q
<1>3. q.state \in Identity /\ q.state # "s_body_identity"
  BY <1>2 DEF Identity
<1>4. Post(q, o)
  BY <1>2, <1>3, FineIdentity
<1> QED BY <1>4 DEF q

LEMMA WrapIn ==
  ASSUME NEW x \in Nat
  PROVE  x % (MaxU + 1) \in 0..MaxU
  BY HttpAssumption

LEMMA HexFits ==
  ASSUME NEW c \in Nat, NEW d \in {0, 1}, ~((MaxU - 16) \div 16 < c)
  PROVE  (16 * c + d) % (MaxU + 1) < MaxU
<1>1. 16 * c <= MaxU - 16
  BY HttpAssumption
<1>2. 16 * c + d \in 0..(MaxU - 1) /\ 16 * c + d \in 0..MaxU
  BY <1>1, HttpAssumption
<1>3. (16 * c + d) % (MaxU + 1) = 16 * c + d
  <2> DEFINE y == 16 * c + d
  <2>1. y \in 0..MaxU
    BY <1>2
  <2> HIDE DEF y
  <2>2. y % (MaxU + 1) = y
    BY <2>1, HttpAssumption
  <2> QED BY <2>2 DEF y
<1> QED BY <1>2, <1>3, HttpAssumption

LEMMA UnhexIs == ASSUME NEW ch PROVE Unhex(ch) \in {-1, 0, 1}
  BY DEF Unhex, Digit

LEMMA ChunkLineTo ==
  ASSUME NEW p, NEW o, K(p, o), Clear(After(p, o)),
         After(p, o).last \in {"headers_complete", "chunk_complete"}, "F_CHUNKED" \in p.flags,
         p.content_length < MaxU, NEW s, s \in ChunkLine \ {"s_chunk_size_start"}
  PROVE  Post(To(p, s), o)
<1> DEFINE q == To(p, s)
<1>1. K(q, o) /\ q.state = s /\ Keeps(p, q) /\ After(q, o) = After(p, o)
  BY ToK
<1> HIDE DEF q
<1>2. q.content_length < MaxU /\ "F_CHUNKED" \in q.flags
  BY <1>1 DEF Keeps
<1>3. Post(q, o)
  BY <1>1, <1>2, FineChunkLine
<1> QED BY <1>3 DEF q

LEMMA ChunkSizePost ==
  ASSUME NEW p, NEW o, NEW ch, K(p, o), Clear(After(p, o)),
         After(p, o).last \in {"headers_complete", "chunk_complete"}, "F_CHUNKED" \in p.flags,
         p.state \in {"s_chunk_size_start", "s_chunk_size", "s_chunk_parameters"},
         IF p.state = "s_chunk_size_start" THEN p.nread = 1 ELSE p.content_length < MaxU
  PROVE  Post(ChunkSize(p, ch), o)
<1> DEFINE h == Unhex(ch)
<1>1. h \in {-1, 0, 1}
  BY UnhexIs
<1>2. ASSUME NEW e \in {"HPE_INVALID_CHUNK_SIZE", "HPE_INVALID_CONTENT_LENGTH"}
      PROVE  Post(SET_ERRNO(p, e), o)
  BY ErrK
<1>3. CASE p.state = "s_chunk_size_start"
  <2> DEFINE t == [p EXCEPT !.content_length = h]
  <2>1. ChunkSize(p, ch) = IF h = -1 THEN SET_ERRNO(p, "HPE_INVALID_CHUNK_SIZE")
                           ELSE To(t, "s_chunk_size")
    BY <1>3 DEF ChunkSize, ASSERT
  <2> HIDE DEF h
  <2>2. CASE h = -1
    BY <1>2, <2>1, <2>2
  <2>3. CASE h # -1
    <3>1. h \in 0..MaxU /\ h < MaxU
      BY <1>1, <2>3, HttpAssumption
    <3>2. K(t, o) /\ t.content_length = h /\ After(t, o) = After(p, o) /\ t.flags = p.flags
      BY <3>1, LengthK
    <3> HIDE DEF t
    <3>3. "s_chunk_size" \in ChunkLine \ {"s_chunk_size_start"}
      BY DEF ChunkLine
    <3>4. Post(To(t, "s_chunk_size"), o)
      BY <3>1, <3>2, <3>3, ChunkLineTo
    <3> QED BY <2>1, <2>3, <3>4
  <2> QED BY <2>2, <2>3
<1>4. CASE p.state # "s_chunk_size_start"
  <2> DEFINE v == (16 * p.content_length + h) % (MaxU + 1)
             t == [p EXCEPT !.content_length = v]
  <2>1. p.content_length \in Nat /\ p.content_length < MaxU
    BY <1>4 DEF K, IsParser
  <2>2. Post(p, o)
    BY <1>4, FineChunkLine DEF ChunkLine
  <2>3. Post(To(p, "s_chunk_size_almost_done"), o) /\ Post(To(p, "s_chunk_parameters"), o)
    <3>1. \A s \in ChunkLine \ {"s_chunk_size_start"} : Post(To(p, s), o)
      BY <2>1, ChunkLineTo
    <3> QED BY <3>1 DEF ChunkLine
  <2>4. \/ ChunkSize(p, ch) \in {p, To(p, "s_chunk_size_almost_done"), To(p, "s_chunk_parameters")}
        \/ ChunkSize(p, ch) = SET_ERRNO(p, "HPE_INVALID_CHUNK_SIZE")
        \/ ChunkSize(p, ch) = SET_ERRNO(p, "HPE_INVALID_CONTENT_LENGTH")
        \/ /\ p.state = "s_chunk_size" /\ h # -1 /\ ~((MaxU - 16) \div 16 < p.content_length)
           /\ ChunkSize(p, ch) = t
    <3> HIDE DEF h
    <3> QED BY <1>4 DEF ChunkSize, h
  <2>5. CASE /\ p.state = "s_chunk_size" /\ h # -1 /\ ~((MaxU - 16) \div 16 < p.content_length)
             /\ ChunkSize(p, ch) = t
    <3>1. h \in {0, 1} /\ 16 * p.content_length + h \in Nat
      BY <1>1, <2>1, <2>5
    <3>2. v \in 0..MaxU /\ v < MaxU
      <4> HIDE DEF h
      <4>1. v \in 0..MaxU
        BY <3>1, WrapIn
      <4>2. v < MaxU
        BY <2>1, <2>5, <3>1, HexFits
      <4> QED BY <4>1, <4>2
    <3> HIDE DEF v
    <3>3. /\ K(t, o) /\ t.content_length = v /\ After(t, o) = After(p, o) /\ t.flags = p.flags
          /\ t.state = p.state
      BY <3>2, LengthK
    <3> HIDE DEF t
    <3>4. t.state \in ChunkLine /\ t.state # "s_chunk_size_start"
      BY <2>5, <3>3 DEF ChunkLine
    <3>5. Post(t, o)
      BY <3>2, <3>3, <3>4, FineChunkLine
    <3> QED BY <2>5, <3>5
  <2> QED BY <1>2, <2>2, <2>3, <2>4, <2>5
<1> QED BY <1>3, <1>4

LEMMA ChunkSizeAlmostDonePost ==
  ASSUME NEW p, NEW o, NEW ch, K(p, o), Clear(After(p, o)),
         After(p, o).last \in {"headers_complete", "chunk_complete"}, "F_CHUNKED" \in p.flags,
         p.content_length < MaxU
  PROVE  Post(ChunkSizeAlmostDone(p, ch), o)
<1> DEFINE fl == IF p.content_length = 0 THEN p.flags \cup {"F_TRAILING"} ELSE p.flags
           n == [p EXCEPT !.nread = 0]
           q == [n EXCEPT !.flags = fl]
           s == IF p.content_length = 0 THEN "s_header_field_start" ELSE "s_chunk_data"
           t == To(q, s)
           told == CALLBACK_NOTIFY(t, "chunk_header")
<1>1. CASE ch # "LF"
  <2>1. ChunkSizeAlmostDone(p, ch) = SET_ERRNO(p, "HPE_STRICT")
    BY <1>1 DEF ChunkSizeAlmostDone
  <2> QED BY <2>1, ErrK
<1>2. CASE ch = "LF"
  <2>1. ChunkSizeAlmostDone(p, ch) = told
    <3>1. [p EXCEPT !.nread = 0,
                    !.flags = IF p.content_length = 0 THEN @ \cup {"F_TRAILING"} ELSE @] = q
      BY DEF K, IsParser
    <3> HIDE DEF q
    <3> QED BY <1>2, <3>1, Zenon DEF ChunkSizeAlmostDone, t, s, told
  <2>2. K(n, o) /\ n.content_length = p.content_length /\ After(n, o) = After(p, o)
        /\ n.flags = p.flags
    <3>1. 0 \in 0..max_header_size
      BY HttpAssumption
    <3> QED BY <3>1, NreadK
  <2>3. fl \subseteq Flags
    BY DEF K, IsParser, Flags
  <2> HIDE DEF n, fl, s
  <2>4. K(q, o) /\ q.flags = fl /\ q.content_length = n.content_length /\ After(q, o) = After(n, o)
    BY <2>2, <2>3, FlagsK
  <2> HIDE DEF q
  <2>5. K(t, o) /\ t.state = s /\ Keeps(q, t) /\ After(t, o) = After(q, o)
    BY <2>4, ToK
  <2> HIDE DEF t
  <2>6. "chunk_header" \in Notice /\ After(t, o).last \in Follows["chunk_header"]
    BY <2>2, <2>4, <2>5 DEF Notice, Follows
  <2>7. /\ K(told, o) /\ Keeps(t, told) /\ told.state = s /\ Clear(After(told, o))
        /\ After(told, o).last = "chunk_header"
    BY <2>2, <2>4, <2>5, <2>6, NoteK
  <2> HIDE DEF told
  <2>8. told.flags = fl /\ told.content_length = p.content_length
    BY <2>2, <2>4, <2>5, <2>7 DEF Keeps
  <2>9. CASE p.content_length = 0
    <3>1. told.state \in LineStart /\ After(told, o).last \in BeforeLine(told)
      BY <2>7, <2>8, <2>9 DEF LineStart, BeforeLine, Trailing, fl, s
    <3> QED BY <2>1, <2>7, <3>1, FineLineStart
  <2>10. CASE p.content_length # 0
    <3>1. /\ told.state = "s_chunk_data" /\ told.state \in ChunkBytes /\ "F_CHUNKED" \in told.flags
          /\ told.content_length \notin {0, MaxU}
      BY <2>7, <2>8, <2>10, HttpAssumption DEF ChunkBytes, fl, s, K, IsParser
    <3> QED BY <2>1, <2>7, <3>1, FineChunkBytes
  <2> QED BY <2>9, <2>10
<1> QED BY <1>1, <1>2

LEMMA ChunkDataPost ==
  ASSUME NEW p, NEW o, K(p, o), p.state = "s_chunk_data", p.content_length \notin {0, MaxU},
         LET a == After(p, o) IN Clear(a) \/ On(a, "body") \/ Cut(a, "body"),
         After(p, o).last \in {"chunk_header", "body"}, "F_CHUNKED" \in p.flags
  PROVE  Post(ChunkData(p), o)
<1> DEFINE q == [MARK(p, "body") EXCEPT !.content_length = @ - 1]
           t == To(q, "s_chunk_data_almost_done")
<1>1. /\ K(q, o) /\ q.state = p.state /\ q.content_length = p.content_length - 1
      /\ On(After(q, o), "body") /\ After(q, o).last = After(p, o).last /\ q.flags = p.flags
  BY BodyByte
<1>2. ChunkData(p) = IF q.content_length = 0 THEN t ELSE q
  BY DEF ChunkData, ASSERT
<1> HIDE DEF q
<1>3. CASE q.content_length = 0
  <2>1. K(t, o) /\ t.state = "s_chunk_data_almost_done" /\ Keeps(q, t) /\ After(t, o) = After(q, o)
    BY <1>1, ToK
  <2> HIDE DEF t
  <2>2. t.state \in ChunkBytes /\ t.content_length = 0 /\ "F_CHUNKED" \in t.flags
    BY <1>1, <1>3, <2>1 DEF ChunkBytes, Keeps
  <2>3. Post(t, o)
    BY <1>1, <2>1, <2>2, FineChunkBytes
  <2> QED BY <1>2, <1>3, <2>3
<1>4. CASE q.content_length # 0
  <2>1. q.content_length \notin {0, MaxU} /\ q.state \in ChunkBytes
    BY <1>1, <1>4, HttpAssumption DEF ChunkBytes, K, IsParser
  <2>2. Post(q, o)
    BY <1>1, <2>1, FineChunkBytes
  <2> QED BY <1>2, <1>4, <2>2
<1> QED BY <1>3, <1>4

LEMMA ChunkDataAlmostDonePost ==
  ASSUME NEW p, NEW o, NEW ch, K(p, o), p.content_length = 0,
         On(After(p, o), "body") \/ Cut(After(p, o), "body"),
         After(p, o).last \in {"chunk_header", "body"}, "F_CHUNKED" \in p.flags
  PROVE  Post(ChunkDataAlmostDone(p, ch), o)
<1> DEFINE t == To(p, "s_chunk_data_done")
           q == CALLBACK_DATA(t, "body")
<1>1. CASE ch # "CR"
  <2>1. ChunkDataAlmostDone(p, ch) = SET_ERRNO(p, "HPE_STRICT")
    BY <1>1 DEF ChunkDataAlmostDone, ASSERT
  <2> QED BY <2>1, ErrK
<1>2. CASE ch = "CR"
  <2>1. ChunkDataAlmostDone(p, ch) = q
    BY <1>2 DEF ChunkDataAlmostDone, ASSERT
  <2>2. K(t, o) /\ t.state = "s_chunk_data_done" /\ Keeps(p, t) /\ After(t, o) = After(p, o)
    BY ToK
  <2> HIDE DEF t
  <2>3. "body" \in Element /\ After(t, o).last \in Follows["body"]
    BY <2>2 DEF Element, Follows
  <2>4. /\ K(q, o) /\ Keeps(t, q) /\ q.state = t.state /\ Clear(After(q, o))
        /\ After(q, o).last \in {"body", After(t, o).last}
    BY <2>2, <2>3, CutK
  <2> HIDE DEF q
  <2>5. /\ q.state \in ChunkBytes /\ q.state = "s_chunk_data_done" /\ "F_CHUNKED" \in q.flags
        /\ After(q, o).last \in {"chunk_header", "body"}
    BY <2>2, <2>4 DEF ChunkBytes, Keeps
  <2> QED BY <2>1, <2>4, <2>5, FineChunkBytes
<1> QED BY <1>1, <1>2

LEMMA ChunkDataDonePost ==
  ASSUME NEW p, NEW o, NEW ch, K(p, o), Clear(After(p, o)),
         After(p, o).last \in {"chunk_header", "body"}, "F_CHUNKED" \in p.flags
  PROVE  Post(ChunkDataDone(p, ch), o)
<1> DEFINE n == [p EXCEPT !.nread = 0]
           t == To(n, "s_chunk_size_start")
           q == CALLBACK_NOTIFY(t, "chunk_complete")
<1>1. CASE ch # "LF"
  <2>1. ChunkDataDone(p, ch) = SET_ERRNO(p, "HPE_STRICT")
    BY <1>1 DEF ChunkDataDone
  <2> QED BY <2>1, ErrK
<1>2. CASE ch = "LF"
  <2>1. ChunkDataDone(p, ch) = q
    BY <1>2 DEF ChunkDataDone
  <2>2. K(n, o) /\ n.nread = 0 /\ After(n, o) = After(p, o) /\ n.flags = p.flags
    <3>1. 0 \in 0..max_header_size
      BY HttpAssumption
    <3> QED BY <3>1, NreadK
  <2> HIDE DEF n
  <2>3. K(t, o) /\ t.state = "s_chunk_size_start" /\ Keeps(n, t) /\ After(t, o) = After(n, o)
    BY <2>2, ToK
  <2> HIDE DEF t
  <2>4. "chunk_complete" \in Notice /\ After(t, o).last \in Follows["chunk_complete"]
    BY <2>2, <2>3 DEF Notice, Follows
  <2>5. /\ K(q, o) /\ Keeps(t, q) /\ q.state = t.state /\ Clear(After(q, o))
        /\ After(q, o).last = "chunk_complete"
    BY <2>2, <2>3, <2>4, NoteK
  <2> HIDE DEF q
  <2>6. /\ q.state \in ChunkLine /\ q.state = "s_chunk_size_start" /\ q.nread = 0
        /\ "F_CHUNKED" \in q.flags
    BY <2>2, <2>3, <2>5 DEF ChunkLine, Keeps
  <2> QED BY <2>1, <2>5, <2>6, FineChunkLine
<1> QED BY <1>1, <1>2

-----------------------------------------------------------------------------
(* Header lines.                                                           *)

LEMMA HeaderFieldStartPost ==
  ASSUME NEW p, NEW o, NEW ch, K(p, o), Clear(After(p, o)), After(p, o).last \in BeforeLine(p)
  PROVE  Post(HeaderFieldStart(p, ch), o)
<1> DEFINE d == To(p, "s_headers_almost_done")
           t == To(p, "s_header_field")
           h == CASE ch = "c" -> "h_C"
                  [] ch = "p" -> "h_matching_proxy_connection"
                  [] ch = "t" -> "h_matching_transfer_encoding"
                  [] ch = "u" -> "h_matching_upgrade"
                  [] OTHER -> "h_general"
           u == [t EXCEPT !.header_state = h]
           q == MARK(u, "header_field")
<1>1. HeaderFieldStart(p, ch) \in {d, HeadersAlmostDone(d, ch),
                                   SET_ERRNO(p, "HPE_INVALID_HEADER_TOKEN"), q}
  <2>1. HeaderFieldStart(p, ch) = IF ch = "CR" THEN d
                                  ELSE IF ch = "LF" THEN HeadersAlmostDone(d, ch)
                                  ELSE IF ~TOKEN(ch) THEN SET_ERRNO(p, "HPE_INVALID_HEADER_TOKEN")
                                  ELSE q
    BY Zenon DEF HeaderFieldStart
  <2> HIDE DEF d, q
  <2> QED BY <2>1
<1>2. /\ K(d, o) /\ d.state = "s_headers_almost_done" /\ After(d, o) = After(p, o)
      /\ After(d, o).last \in BeforeLine(d)
  <2>1. K(d, o) /\ d.state = "s_headers_almost_done" /\ Keeps(p, d) /\ After(d, o) = After(p, o)
    BY ToK
  <2> HIDE DEF d
  <2> QED BY <2>1 DEF Keeps, BeforeLine, Trailing
<1>3. Post(d, o)
  <2> HIDE DEF d
  <2>1. d.state \in LineStart
    BY <1>2 DEF LineStart
  <2> QED BY <1>2, <2>1, FineLineStart
<1>4. Post(HeadersAlmostDone(d, ch), o)
  <2> HIDE DEF d
  <2> QED BY <1>2, HeadersAlmostDonePost
<1>5. Post(SET_ERRNO(p, "HPE_INVALID_HEADER_TOKEN"), o)
  BY ErrK
<1>6. Post(q, o)
  <2>1. K(t, o) /\ t.state = "s_header_field" /\ After(t, o) = After(p, o)
    BY ToK
  <2> HIDE DEF t, h
  <2>2. K(u, o) /\ u.state = t.state /\ After(u, o) = After(t, o)
    BY <2>1, HeaderStateK
  <2> HIDE DEF u
  <2>3. "header_field" \in Element
    BY DEF Element
  <2>4. /\ K(q, o) /\ q.state = u.state /\ On(After(q, o), "header_field")
        /\ After(q, o).last = After(u, o).last
    BY <2>1, <2>2, <2>3, MarkK
  <2> HIDE DEF q
  <2>5. After(q, o).last \in {"url", "status", "header_value", "chunk_header", "header_field"}
    BY <2>1, <2>2, <2>4 DEF BeforeLine
  <2> QED BY <2>1, <2>2, <2>4, <2>5, FineField
<1> HIDE DEF d, q
<1> QED BY <1>1, <1>3, <1>4, <1>5, <1>6

LEMMA HeaderFieldPost ==
  ASSUME NEW p, NEW o, NEW ch, K(p, o), p.state = "s_header_field", On(After(p, o), "header_field"),
         After(p, o).last \in {"url", "status", "header_value", "chunk_header", "header_field"}
  PROVE  Post(HeaderField(p, ch), o)
<1> DEFINE h == FieldNext(p.header_state, ch)
           u == [p EXCEPT !.header_state = h]
           t == To(p, "s_header_value_discard_ws")
           q == CALLBACK_DATA(t, "header_field")
<1>1. CASE TOKEN(ch)
  <2>1. HeaderField(p, ch) = u
    BY <1>1 DEF HeaderField
  <2> HIDE DEF h
  <2>2. K(u, o) /\ u.state = p.state /\ After(u, o) = After(p, o)
    BY HeaderStateK
  <2> HIDE DEF u
  <2> QED BY <2>1, <2>2, FineField
<1>2. CASE ~TOKEN(ch) /\ ch = ":"
  <2>1. HeaderField(p, ch) = q
    BY <1>2 DEF HeaderField
  <2>2. K(t, o) /\ t.state = "s_header_value_discard_ws" /\ After(t, o) = After(p, o)
    BY ToK
  <2> HIDE DEF t
  <2>3. "header_field" \in Element /\ After(t, o).last \in Follows["header_field"]
    BY <2>2 DEF Element, Follows
  <2>4. K(q, o) /\ q.state = t.state /\ Clear(After(q, o)) /\ After(q, o).last = "header_field"
    BY <2>2, <2>3, CallK
  <2> HIDE DEF q
  <2>5. q.state \in Discard
    BY <2>2, <2>4 DEF Discard
  <2> QED BY <2>1, <2>4, <2>5, FineDiscard
<1>3. CASE ~TOKEN(ch) /\ ch # ":"
  <2>1. HeaderField(p, ch) = SET_ERRNO(p, "HPE_INVALID_HEADER_TOKEN")
    BY <1>3 DEF HeaderField
  <2> QED BY <2>1, ErrK
<1> QED BY <1>1, <1>2, <1>3

\* In the middle of a value, and not with a name for header_state.
InValue(p, o) == /\ K(p, o) /\ p.state = "s_header_value" /\ On(After(p, o), "header_value")
                 /\ After(p, o).last \in {"header_field", "header_value"}
NoName(h) == h \notin {"h_connection", "h_transfer_encoding"}

LEMMA IsPost ==
  ASSUME NEW p, NEW o, InValue(p, o), NEW h
  PROVE  LET q == [p EXCEPT !.header_state = h]
         IN  /\ InValue(q, o) /\ q.header_state = h
             /\ NoName(h) => Post(q, o)
<1> DEFINE q == [p EXCEPT !.header_state = h]
<1>0. K(p, o)
  BY DEF InValue
<1>1. K(q, o) /\ q.state = p.state /\ After(q, o) = After(p, o) /\ q.header_state = h
  BY <1>0, HeaderStateK
<1> HIDE DEF q
<1>2. InValue(q, o)
  BY <1>1 DEF InValue
<1>3. NoName(h) => Post(q, o)
  BY <1>1, <1>2, FineValue DEF InValue, NoName
<1> QED BY <1>1, <1>2, <1>3 DEF q

LEMMA ConnectionWordIs == ASSUME NEW ch PROVE NoName(ConnectionWord(ch))
  BY DEF ConnectionWord, NoName

LEMMA HeaderValueStartPost ==
  ASSUME NEW p0, NEW o, NEW ch, K(p0, o), Clear(After(p0, o)),
         After(p0, o).last \in {"header_field", "header_value"}
  PROVE  Post(HeaderValueStart(p0, ch), o)
<1> DEFINE t == To(p0, "s_header_value")
           p == MARK(t, "header_value")
           h == p.header_state
           Is(s) == [p EXCEPT !.header_state = s]
<1>1. K(t, o) /\ t.state = "s_header_value" /\ After(t, o) = After(p0, o)
  BY ToK
<1>2. InValue(p, o)
  <2> HIDE DEF t
  <2>1. "header_value" \in Element
    BY DEF Element
  <2>2. /\ K(p, o) /\ p.state = t.state /\ On(After(p, o), "header_value")
        /\ After(p, o).last = After(t, o).last
    BY <1>1, <2>1, MarkK
  <2> HIDE DEF p
  <2> QED BY <1>1, <2>2 DEF InValue
<1>3. HeaderValueStart(p0, ch) =
        CASE h = "h_upgrade" -> [Is("h_general") EXCEPT !.flags = @ \cup {"F_UPGRADE"}]
          [] h = "h_transfer_encoding" ->
               Is(IF ch = "c" THEN "h_matching_transfer_encoding_chunked" ELSE "h_general")
          [] h = "h_content_length" ->
               IF ~IS_NUMBER(ch) THEN SET_ERRNO(p, "HPE_INVALID_CONTENT_LENGTH")
               ELSE IF "F_CONTENTLENGTH" \in p.flags
                    THEN SET_ERRNO(p, "HPE_UNEXPECTED_CONTENT_LENGTH")
               ELSE [Is("h_content_length_num") EXCEPT !.flags = @ \cup {"F_CONTENTLENGTH"},
                                                       !.content_length = Digit(ch)]
          [] h \in {"h_content_length_ws", "h_matching_connection_token_start"} -> p
          [] h = "h_connection" -> Is(ConnectionWord(ch))
          [] OTHER -> Is("h_general")
  BY Zenon DEF HeaderValueStart
<1> HIDE DEF p
<1>4. K(p, o) /\ p.flags \subseteq Flags
  BY <1>2 DEF InValue, K, IsParser
<1>5. ASSUME NEW s, NoName(s) PROVE Post(Is(s), o)
  BY <1>2, <1>5, IsPost
<1>6. CASE h = "h_upgrade"
  <2> DEFINE r == Is("h_general")
             fl == r.flags \cup {"F_UPGRADE"}
             q == [r EXCEPT !.flags = fl]
  <2>1. HeaderValueStart(p0, ch) = q
    BY <1>3, <1>6
  <2>2. InValue(r, o) /\ r.header_state = "h_general"
    BY <1>2, IsPost
  <2> HIDE DEF r
  <2>3. fl \subseteq Flags /\ K(r, o)
    BY <2>2 DEF InValue, K, IsParser, Flags
  <2> HIDE DEF fl
  <2>4. /\ K(q, o) /\ q.state = r.state /\ After(q, o) = After(r, o)
        /\ q.header_state = r.header_state
    BY <2>3, FlagsK
  <2> HIDE DEF q
  <2> QED BY <2>1, <2>2, <2>4, FineValue DEF InValue
<1>7. CASE h = "h_content_length"
  <2> DEFINE r == Is("h_content_length_num")
             fl == r.flags \cup {"F_CONTENTLENGTH"}
             u == [r EXCEPT !.flags = fl]
             v == Digit(ch)
             q == [u EXCEPT !.content_length = v]
  <2>1. InValue(r, o) /\ r.header_state = "h_content_length_num"
    BY <1>2, IsPost
  <2>2. HeaderValueStart(p0, ch) \in {SET_ERRNO(p, "HPE_INVALID_CONTENT_LENGTH"),
                                      SET_ERRNO(p, "HPE_UNEXPECTED_CONTENT_LENGTH"), q}
    <3> DEFINE z == [r EXCEPT !.flags = @ \cup {"F_CONTENTLENGTH"}, !.content_length = Digit(ch)]
    <3>1. z = q
      <4> HIDE DEF r, v
      <4> QED BY <2>1 DEF InValue, K, IsParser, v
    <3>2. HeaderValueStart(p0, ch) = IF ~IS_NUMBER(ch) THEN SET_ERRNO(p, "HPE_INVALID_CONTENT_LENGTH")
                                     ELSE IF "F_CONTENTLENGTH" \in p.flags
                                     THEN SET_ERRNO(p, "HPE_UNEXPECTED_CONTENT_LENGTH")
                                     ELSE z
      BY <1>3, <1>7
    <3> HIDE DEF z, q
    <3> QED BY <3>1, <3>2
  <2> HIDE DEF r
  <2>3. fl \subseteq Flags /\ K(r, o)
    BY <2>1 DEF InValue, K, IsParser, Flags
  <2> HIDE DEF fl
  <2>4. /\ K(u, o) /\ u.state = r.state /\ After(u, o) = After(r, o)
        /\ u.header_state = r.header_state
    BY <2>3, FlagsK
  <2>5. v \in 0..MaxU
    BY HttpAssumption DEF Digit
  <2> HIDE DEF u, v
  <2>6. /\ K(q, o) /\ q.state = u.state /\ After(q, o) = After(u, o)
        /\ q.header_state = u.header_state
    BY <2>4, <2>5, LengthK
  <2> HIDE DEF q
  <2>7. Post(q, o)
    BY <2>1, <2>4, <2>6, FineValue DEF InValue
  <2>8. /\ Post(SET_ERRNO(p, "HPE_INVALID_CONTENT_LENGTH"), o)
        /\ Post(SET_ERRNO(p, "HPE_UNEXPECTED_CONTENT_LENGTH"), o)
    BY <1>4, ErrK
  <2> QED BY <2>2, <2>7, <2>8
<1>8. CASE h \in {"h_content_length_ws", "h_matching_connection_token_start"}
  <2>1. HeaderValueStart(p0, ch) = p
    BY <1>3, <1>8
  <2> QED BY <1>2, <1>8, <2>1, FineValue DEF InValue
<1>9. CASE h = "h_connection"
  <2> DEFINE w == ConnectionWord(ch)
  <2>1. HeaderValueStart(p0, ch) = Is(w)
    BY <1>3, <1>9
  <2>2. NoName(w)
    BY ConnectionWordIs
  <2> HIDE DEF w
  <2>3. Post(Is(w), o)
    BY <1>5, <2>2
  <2> QED BY <2>1, <2>3
<1>10. CASE h = "h_transfer_encoding"
  <2> DEFINE w == IF ch = "c" THEN "h_matching_transfer_encoding_chunked" ELSE "h_general"
  <2>1. HeaderValueStart(p0, ch) = Is(w)
    BY <1>3, <1>10
  <2>2. NoName(w)
    BY DEF NoName
  <2> HIDE DEF w
  <2>3. Post(Is(w), o)
    BY <1>5, <2>2
  <2> QED BY <2>1, <2>3
<1>11. CASE h \notin {"h_upgrade", "h_content_length", "h_content_length_ws", "h_connection",
                      "h_matching_connection_token_start", "h_transfer_encoding"}
  <2>1. HeaderValueStart(p0, ch) = Is("h_general")
    BY <1>3, <1>11
  <2>2. Post(Is("h_general"), o)
    BY <1>5 DEF NoName
  <2> QED BY <2>1, <2>2
<1> QED BY <1>6, <1>7, <1>8, <1>9, <1>10, <1>11

LEMMA FlagOfIs ==
  ASSUME NEW h, h \in DOMAIN FlagOf
  PROVE  FlagOf[h] \in Flags \ {"F_TRAILING"}
<1>1. h \in {"h_connection_keep_alive", "h_connection_close", "h_connection_upgrade",
             "h_transfer_encoding_chunked"}
  BY DEF FlagOf
<1> QED BY <1>1 DEF FlagOf, Flags

LEMMA SetFlagK ==
  ASSUME NEW p, NEW o, K(p, o)
  PROVE  LET q == SetFlag(p)
         IN  /\ K(q, o) /\ q.state = p.state /\ q.header_state = p.header_state
             /\ After(q, o) = After(p, o) /\ BeforeLine(q) = BeforeLine(p)
<1> DEFINE fl == p.flags \cup {FlagOf[p.header_state]}
           q == [p EXCEPT !.flags = fl]
<1>1. CASE p.header_state \in DOMAIN FlagOf
  <2>1. SetFlag(p) = q
    BY <1>1 DEF SetFlag
  <2>2. FlagOf[p.header_state] \in Flags \ {"F_TRAILING"}
    BY <1>1, FlagOfIs
  <2>3. fl \subseteq Flags /\ ("F_TRAILING" \in fl <=> "F_TRAILING" \in p.flags)
    BY <2>2 DEF K, IsParser
  <2> HIDE DEF fl
  <2>4. /\ K(q, o) /\ q.state = p.state /\ q.header_state = p.header_state
        /\ After(q, o) = After(p, o) /\ q.flags = fl
    BY <2>3, FlagsK
  <2> HIDE DEF q
  <2>5. BeforeLine(q) = BeforeLine(p)
    BY <2>3, <2>4 DEF BeforeLine, Trailing
  <2> QED BY <2>1, <2>4, <2>5
<1>2. CASE p.header_state \notin DOMAIN FlagOf
  <2>1. SetFlag(p) = p
    BY <1>2 DEF SetFlag
  <2> QED BY <2>1
<1> QED BY <1>1, <1>2

LEMMA ContentLengthNumPost ==
  ASSUME NEW p, NEW o, NEW ch, InValue(p, o), NoName(p.header_state)
  PROVE  Post(ContentLengthNum(p, ch), o)
<1> DEFINE t == [p EXCEPT !.header_state = "h_content_length_ws"]
           v == (10 * p.content_length + Digit(ch)) % (MaxU + 1)
           q == [p EXCEPT !.content_length = v]
<1>0. K(p, o) /\ p.content_length \in Nat
  BY DEF InValue, K, IsParser
<1>1. ContentLengthNum(p, ch) \in {t, SET_ERRNO(p, "HPE_INVALID_CONTENT_LENGTH"), q}
  <2>1. ContentLengthNum(p, ch) =
          IF ch = "SP" THEN t
          ELSE IF ~IS_NUMBER(ch) \/ (MaxU - 10) \div 10 < p.content_length
               THEN SET_ERRNO(p, "HPE_INVALID_CONTENT_LENGTH")
          ELSE q
    BY DEF ContentLengthNum
  <2> HIDE DEF t, q
  <2> QED BY <2>1
<1>2. Post(t, o)
  BY IsPost DEF NoName
<1>3. Post(SET_ERRNO(p, "HPE_INVALID_CONTENT_LENGTH"), o)
  BY <1>0, ErrK
<1>4. v \in 0..MaxU
  <2>1. 10 * p.content_length + Digit(ch) \in Nat
    BY <1>0 DEF Digit
  <2> QED BY <2>1, WrapIn
<1> HIDE DEF v
<1>5. K(q, o) /\ q.state = p.state /\ After(q, o) = After(p, o) /\ q.header_state = p.header_state
  BY <1>0, <1>4, LengthK
<1> HIDE DEF q, t
<1>6. Post(q, o)
  BY <1>5, FineValue DEF InValue, NoName
<1> QED BY <1>1, <1>2, <1>3, <1>6

LEMMA WordRestIs ==
  ASSUME NEW h, h \in DOMAIN WordRest
  PROVE  /\ NoName(WordRest[h][2])
         /\ h \in {"h_matching_transfer_encoding_chunked", "h_matching_connection_keep_alive",
                   "h_matching_connection_close", "h_matching_connection_upgrade"}
<1>1. h \in {"h_matching_transfer_encoding_chunked", "h_matching_connection_keep_alive",
             "h_matching_connection_close", "h_matching_connection_upgrade"}
  BY DEF WordRest
<1>2. WordRest[h][2] \in {"h_transfer_encoding_chunked", "h_connection_keep_alive",
                          "h_connection_close", "h_connection_upgrade"}
  BY <1>1 DEF WordRest
<1> QED BY <1>1, <1>2 DEF NoName

LEMMA HeaderValueBytePost ==
  ASSUME NEW p, NEW o, NEW ch, InValue(p, o), NoName(p.header_state)
  PROVE  Post(HeaderValueByte(p, ch), o)
<1> DEFINE h == p.header_state
           Is(s) == [p EXCEPT !.header_state = s]
           word == IF ch = WordRest[h][1] THEN WordRest[h][2]
                   ELSE IF h = "h_matching_transfer_encoding_chunked" THEN "h_general"
                   ELSE "h_matching_connection_token"
           first == IF TOKEN(ch) THEN ConnectionWord(ch) ELSE "h_general"
           num == Is("h_content_length_num")
           f == SetFlag(p)
           set == [f EXCEPT !.header_state = "h_matching_connection_token_start"]
<1>0. K(p, o)
  BY DEF InValue
<1>1. ASSUME NEW s, NoName(s) PROVE Post(Is(s), o)
  BY <1>1, IsPost
<1>2. Post(p, o)
  BY FineValue DEF InValue, NoName
<1>3. Post(SET_ERRNO(p, "HPE_INVALID_CONTENT_LENGTH"), o)
  BY <1>0, ErrK
<1>4. Post(ContentLengthNum(num, ch), o)
  <2>1. InValue(num, o) /\ NoName(num.header_state)
    BY IsPost DEF NoName
  <2> HIDE DEF num
  <2> QED BY <2>1, ContentLengthNumPost
<1>5. Post(set, o)
  <2>1. /\ K(f, o) /\ f.state = p.state /\ f.header_state = p.header_state
        /\ After(f, o) = After(p, o)
    BY <1>0, SetFlagK
  <2> HIDE DEF f
  <2>2. InValue(f, o)
    BY <2>1 DEF InValue
  <2> QED BY <2>2, IsPost DEF NoName
<1>6. NoName(first)
  BY ConnectionWordIs DEF NoName
<1>7. h \in DOMAIN WordRest => NoName(word)
  BY WordRestIs DEF NoName
<1>8. /\ Post(Is("h_general"), o) /\ Post(Is("h_matching_connection_token"), o)
      /\ Post(Is("h_matching_connection_token_start"), o)
  BY <1>1 DEF NoName
<1>9. Post(Is(first), o)
  BY <1>1, <1>6
<1>10. h \in DOMAIN WordRest => Post(Is(word), o)
  BY <1>1, <1>7
<1>11. HeaderValueByte(p, ch) =
         CASE h \in {"h_connection", "h_transfer_encoding"} -> SET_ERRNO(p, "assert")
           [] h \in {"h_content_length", "h_content_length_num"} ->
                IF h = "h_content_length" /\ ch = "SP" THEN p ELSE ContentLengthNum(num, ch)
           [] h = "h_content_length_ws" ->
                IF ch = "SP" THEN p ELSE SET_ERRNO(p, "HPE_INVALID_CONTENT_LENGTH")
           [] h \in DOMAIN WordRest -> Is(word)
           [] h = "h_matching_connection_token_start" -> IF ch = "SP" THEN p ELSE Is(first)
           [] h = "h_matching_connection_token" ->
                IF ch = "," THEN Is("h_matching_connection_token_start") ELSE p
           [] h = "h_transfer_encoding_chunked" -> IF ch = "SP" THEN p ELSE Is("h_general")
           [] h \in {"h_connection_keep_alive", "h_connection_close", "h_connection_upgrade"} ->
                IF ch = "," THEN set
                ELSE IF ch = "SP" THEN p ELSE Is("h_matching_connection_token")
           [] OTHER -> Is("h_general")
  BY Zenon DEF HeaderValueByte
<1> DEFINE iGeneral == Is("h_general")
           iToken == Is("h_matching_connection_token")
           iStart == Is("h_matching_connection_token_start")
           iFirst == Is(first)
           iWord == Is(word)
           isWord == h \in DOMAIN WordRest
<1>12. HeaderValueByte(p, ch) \in {p, SET_ERRNO(p, "HPE_INVALID_CONTENT_LENGTH"),
                ContentLengthNum(num, ch), set, iGeneral, iToken, iStart, iFirst}
       \/ (isWord /\ HeaderValueByte(p, ch) = iWord)
  <2>1. isWord => h \in {"h_matching_transfer_encoding_chunked", "h_matching_connection_keep_alive",
                   "h_matching_connection_close", "h_matching_connection_upgrade"}
    BY WordRestIs
  <2>2. h \notin {"h_connection", "h_transfer_encoding"}
    BY DEF NoName
  <2> HIDE DEF h, Is, iGeneral, iToken, iStart, iFirst, iWord, isWord, num, set, word, first
  <2> QED BY <1>11, <2>1, <2>2 DEF iGeneral, iToken, iStart, iFirst, iWord, isWord
<1> HIDE DEF Is, num, set
<1> QED BY <1>2, <1>3, <1>4, <1>5, <1>8, <1>9, <1>10, <1>12

LEMMA HeaderAlmostDonePost ==
  ASSUME NEW p, NEW o, NEW ch, K(p, o), Clear(After(p, o)), After(p, o).last = "header_value"
  PROVE  Post(HeaderAlmostDone(p, ch), o)
<1> DEFINE t == To(p, "s_header_value_lws")
<1>1. K(t, o) /\ t.state = "s_header_value_lws" /\ After(t, o) = After(p, o)
  BY ToK
<1> HIDE DEF t
<1>2. t.state \in ValueEnd
  BY <1>1 DEF ValueEnd
<1>3. Post(t, o)
  BY <1>1, <1>2, FineValueEnd
<1>4. Post(SET_ERRNO(p, "HPE_LF_EXPECTED"), o)
  BY ErrK
<1>5. HeaderAlmostDone(p, ch) = IF ch = "LF" THEN t ELSE SET_ERRNO(p, "HPE_LF_EXPECTED")
  BY DEF HeaderAlmostDone, t
<1> QED BY <1>3, <1>4, <1>5

LEMMA HeaderValuePost ==
  ASSUME NEW p, NEW o, NEW ch, InValue(p, o), NoName(p.header_state)
  PROVE  Post(HeaderValue(p, ch), o)
<1> DEFINE t == To(p, "s_header_almost_done")
           q == CALLBACK_DATA(t, "header_value")
<1>0. /\ K(p, o) /\ On(After(p, o), "header_value")
      /\ After(p, o).last \in {"header_field", "header_value"}
  BY DEF InValue
<1>1. K(t, o) /\ t.state = "s_header_almost_done" /\ After(t, o) = After(p, o)
  BY <1>0, ToK
<1> HIDE DEF t
<1>2. "header_value" \in Element /\ After(t, o).last \in Follows["header_value"]
  BY <1>0, <1>1 DEF Element, Follows
<1>3. K(q, o) /\ q.state = t.state /\ Clear(After(q, o)) /\ After(q, o).last = "header_value"
  BY <1>0, <1>1, <1>2, CallK
<1> HIDE DEF q
<1>4. q.state \in ValueEnd
  BY <1>1, <1>3 DEF ValueEnd
<1>5. Post(q, o)
  BY <1>3, <1>4, FineValueEnd
<1>6. Post(HeaderAlmostDone(q, ch), o)
  BY <1>3, HeaderAlmostDonePost
<1>7. Post(SET_ERRNO(p, "HPE_INVALID_HEADER_TOKEN"), o)
  BY <1>0, ErrK
<1>8. Post(HeaderValueByte(p, ch), o)
  BY HeaderValueBytePost
<1>9. HeaderValue(p, ch) = IF ch = "CR" THEN q
                           ELSE IF ch = "LF" THEN HeaderAlmostDone(q, ch)
                           ELSE IF ch = "NUL" THEN SET_ERRNO(p, "HPE_INVALID_HEADER_TOKEN")
                           ELSE HeaderValueByte(p, ch)
  BY DEF HeaderValue, t, q
<1> QED BY <1>5, <1>6, <1>7, <1>8, <1>9

LEMMA HeaderValueLwsPost ==
  ASSUME NEW p, NEW o, NEW ch, K(p, o), Clear(After(p, o)), After(p, o).last = "header_value"
  PROVE  Post(HeaderValueLws(p, ch), o)
<1> DEFINE w == [p EXCEPT !.header_state = "h_content_length_ws"]
           folded == IF p.header_state = "h_content_length_num" THEN w ELSE p
           f == SetFlag(p)
           q == To(f, "s_header_field_start")
<1>1. K(w, o) /\ After(w, o) = After(p, o)
  BY HeaderStateK
<1> HIDE DEF w
<1>2. K(folded, o) /\ After(folded, o) = After(p, o)
  BY <1>1
<1> HIDE DEF folded
<1>3. Post(HeaderValueStart(folded, ch), o)
  BY <1>2, HeaderValueStartPost
<1>4. K(f, o) /\ After(f, o) = After(p, o)
  BY SetFlagK
<1> HIDE DEF f
<1>5. K(q, o) /\ After(q, o) = After(p, o)
  BY <1>4, ToK
<1> HIDE DEF q
<1>6. After(q, o).last \in BeforeLine(q)
  BY <1>5 DEF BeforeLine
<1>7. Post(HeaderFieldStart(q, ch), o)
  BY <1>5, <1>6, HeaderFieldStartPost
<1>8. HeaderValueLws(p, ch) = IF ch = "SP" THEN HeaderValueStart(folded, ch)
                              ELSE HeaderFieldStart(q, ch)
  BY DEF HeaderValueLws, q, f, folded, w
<1> QED BY <1>3, <1>7, <1>8

LEMMA DiscardTo ==
  ASSUME NEW p, NEW o, K(p, o), Clear(After(p, o)), After(p, o).last = "header_field",
         NEW s \in Discard
  PROVE  Post(To(p, s), o)
<1> DEFINE q == To(p, s)
<1>1. K(q, o) /\ q.state = s /\ After(q, o) = After(p, o)
  BY ToK
<1> HIDE DEF q
<1>2. Post(q, o)
  BY <1>1, FineDiscard
<1> QED BY <1>2 DEF q

LEMMA HeaderValueDiscardWsPost ==
  ASSUME NEW p, NEW o, NEW ch, K(p, o), p.state \in Discard, Clear(After(p, o)),
         After(p, o).last = "header_field"
  PROVE  Post(HeaderValueDiscardWs(p, ch), o)
<1>1. Post(p, o)
  BY FineDiscard
<1>2. /\ Post(To(p, "s_header_value_discard_ws_almost_done"), o)
      /\ Post(To(p, "s_header_value_discard_lws"), o)
  <2>1. /\ "s_header_value_discard_ws_almost_done" \in Discard
        /\ "s_header_value_discard_lws" \in Discard
    BY DEF Discard
  <2> QED BY <2>1, DiscardTo
<1>3. Post(HeaderValueStart(p, ch), o)
  BY HeaderValueStartPost
<1> QED BY <1>1, <1>2, <1>3 DEF HeaderValueDiscardWs

LEMMA HeaderValueDiscardLwsPost ==
  ASSUME NEW p, NEW o, NEW ch, K(p, o), Clear(After(p, o)), After(p, o).last = "header_field"
  PROVE  Post(HeaderValueDiscardLws(p, ch), o)
<1> DEFINE f == SetFlag(p)
           t == To(f, "s_header_field_start")
           m == MARK(t, "header_value")
           empty == CALLBACK_DATA(m, "header_value")
<1>1. K(f, o) /\ After(f, o) = After(p, o)
  BY SetFlagK
<1> HIDE DEF f
<1>2. K(t, o) /\ After(t, o) = After(p, o)
  BY <1>1, ToK
<1> HIDE DEF t
<1>3. "header_value" \in Element
  BY DEF Element
<1>4. K(m, o) /\ On(After(m, o), "header_value") /\ After(m, o).last = After(t, o).last
  BY <1>2, <1>3, MarkK
<1> HIDE DEF m
<1>5. After(m, o).last \in Follows["header_value"]
  BY <1>2, <1>4 DEF Follows
<1>6. K(empty, o) /\ Clear(After(empty, o)) /\ After(empty, o).last = "header_value"
  BY <1>3, <1>4, <1>5, CallK
<1> HIDE DEF empty
<1>7. After(empty, o).last \in BeforeLine(empty)
  BY <1>6 DEF BeforeLine
<1>8. Post(HeaderFieldStart(empty, ch), o)
  BY <1>6, <1>7, HeaderFieldStartPost
<1>9. Post(To(p, "s_header_value_discard_ws"), o)
  BY DiscardTo DEF Discard
<1>10. Post(SET_ERRNO(p, "HPE_INVALID_CONTENT_LENGTH"), o)
  BY ErrK
<1>11. HeaderValueDiscardLws(p, ch) =
         IF ch = "SP" THEN To(p, "s_header_value_discard_ws")
         ELSE IF p.header_state = "h_content_length" THEN SET_ERRNO(p, "HPE_INVALID_CONTENT_LENGTH")
         ELSE HeaderFieldStart(empty, ch)
  BY DEF HeaderValueDiscardLws, empty, m, t, f
<1> QED BY <1>8, <1>9, <1>10, <1>11

-----------------------------------------------------------------------------
(* One turn of the loop.                                                   *)

\* What is known of the parser when a byte arrives and has been counted.
Pre(p, o) == /\ K(p, o) /\ p.state \in States
             /\ LastOK(p.state, Trailing(p), After(p, o).last)
             /\ RestView(p.state, After(p, o)) /\ NumbersOK(p, 1)

LEMMA DeadPost ==
  ASSUME NEW p, NEW o, NEW ch, K(p, o), p.state = "s_dead", Clear(After(p, o))
  PROVE  Post(Dead(p, ch), o)
<1>1. Post(p, o)
  BY FineDead
<1>2. Post(SET_ERRNO(p, "HPE_CLOSED_CONNECTION"), o)
  BY ErrK
<1> QED BY <1>1, <1>2 DEF Dead

LEMMA DiscardAlmostDonePost ==
  ASSUME NEW p, NEW o, NEW ch, K(p, o), Clear(After(p, o)), After(p, o).last = "header_field"
  PROVE  Post(IF ch = "LF" THEN To(p, "s_header_value_discard_lws")
              ELSE SET_ERRNO(p, "HPE_STRICT"), o)
<1>1. Post(To(p, "s_header_value_discard_lws"), o)
  BY DiscardTo DEF Discard
<1>2. Post(SET_ERRNO(p, "HPE_STRICT"), o)
  BY ErrK
<1> QED BY <1>1, <1>2

\* The states in which no element has begun.
Calm == {"s_dead", "s_res_line_almost_done", "s_chunk_data_done"} \cup Begin \cup StartLine
        \cup AfterUrl \cup LineStart \cup Discard \cup ValueEnd \cup ChunkLine

LEMMA CalmIsClear ==
  ASSUME NEW p, NEW o, Pre(p, o), p.state \in Calm
  PROVE  K(p, o) /\ Clear(After(p, o))
<1>1. p.state \notin {"s_header_field", "s_header_value", "s_res_status", "s_chunk_data_almost_done"}
                     \cup UrlState \cup Bytes
  BY DEF Calm, Begin, StartLine, AfterUrl, LineStart, Discard, ValueEnd, ChunkLine, UrlState, Bytes,
         Identity
<1>2. View(p.state, After(p, o))
  BY <1>1 DEF Pre, RestView
<1> QED BY <1>1, <1>2 DEF View, Pre

LEMMA ExecutePost ==
  ASSUME NEW p, NEW o, NEW ch, Pre(p, o)
  PROVE  Post(Execute(p, ch), o)
<1>0. /\ K(p, o) /\ p.state \in States /\ LastOK(p.state, Trailing(p), After(p, o).last)
      /\ RestView(p.state, After(p, o)) /\ NumbersOK(p, 1)
  BY DEF Pre

<1>1. CASE p.state = "s_dead"
  <2>1. Execute(p, ch) = Dead(p, ch)
    BY <1>1 DEF Execute, UrlState
  <2>2. Clear(After(p, o))
    BY <1>1, CalmIsClear DEF Calm, Begin, StartLine, AfterUrl, LineStart, Discard, ValueEnd,
         ChunkLine
  <2> QED BY <1>0, <1>1, <2>1, <2>2, DeadPost
<1>2. CASE p.state = "s_start_req_or_res"
  <2>1. Execute(p, ch) = StartReqOrRes(p, ch)
    BY <1>2 DEF Execute, UrlState
  <2>2. Clear(After(p, o))
    BY <1>2, CalmIsClear DEF Calm, Begin, StartLine, AfterUrl, LineStart, Discard, ValueEnd,
         ChunkLine
  <2>3. After(p, o).last \in {"none", "message_complete"} /\ p.state \in Begin
    BY <1>0, <1>2 DEF LastOK, Begin
  <2> QED BY <1>0, <1>2, <2>1, <2>2, <2>3, StartReqOrResPost
<1>3. CASE p.state = "s_res_or_resp_H"
  <2>1. Execute(p, ch) = ResOrRespH(p, ch)
    BY <1>3 DEF Execute, UrlState
  <2>2. Clear(After(p, o))
    BY <1>3, CalmIsClear DEF Calm, Begin, StartLine, AfterUrl, LineStart, Discard, ValueEnd,
         ChunkLine
  <2>3. After(p, o).last = "message_begin"
    BY <1>0, <1>3 DEF LastOK, StartLine
  <2>4. ~Trailing(p)
    BY <1>0, <1>3 DEF NumbersOK, Heading, StartLine, UrlState, AfterUrl, Trailing
  <2> QED BY <1>0, <1>3, <2>1, <2>2, <2>3, <2>4, ResOrRespHPost
<1>4. CASE p.state = "s_start_res"
  <2>1. Execute(p, ch) = StartRes(p, ch)
    BY <1>4 DEF Execute, UrlState
  <2>2. Clear(After(p, o))
    BY <1>4, CalmIsClear DEF Calm, Begin, StartLine, AfterUrl, LineStart, Discard, ValueEnd,
         ChunkLine
  <2>3. After(p, o).last \in {"none", "message_complete"} /\ p.state \in Begin
    BY <1>0, <1>4 DEF LastOK, Begin
  <2> QED BY <1>0, <1>4, <2>1, <2>2, <2>3, StartResPost
<1>5. CASE p.state = "s_start_req"
  <2>1. Execute(p, ch) = StartReq(p, ch)
    BY <1>5 DEF Execute, UrlState
  <2>2. Clear(After(p, o))
    BY <1>5, CalmIsClear DEF Calm, Begin, StartLine, AfterUrl, LineStart, Discard, ValueEnd,
         ChunkLine
  <2>3. After(p, o).last \in {"none", "message_complete"} /\ p.state \in Begin
    BY <1>0, <1>5 DEF LastOK, Begin
  <2> QED BY <1>0, <1>5, <2>1, <2>2, <2>3, StartReqPost
<1>6. CASE p.state = "s_req_method"
  <2>1. Execute(p, ch) = ReqMethod(p, ch)
    BY <1>6 DEF Execute, UrlState
  <2>2. Clear(After(p, o))
    BY <1>6, CalmIsClear DEF Calm, Begin, StartLine, AfterUrl, LineStart, Discard, ValueEnd,
         ChunkLine
  <2>3. After(p, o).last = "message_begin"
    BY <1>0, <1>6 DEF LastOK, StartLine
  <2>4. ~Trailing(p)
    BY <1>0, <1>6 DEF NumbersOK, Heading, StartLine, UrlState, AfterUrl, Trailing
  <2> QED BY <1>0, <1>6, <2>1, <2>2, <2>3, <2>4, ReqMethodPost
<1>7. CASE p.state = "s_req_spaces_before_url"
  <2>1. Execute(p, ch) = ReqUrl(p, ch)
    BY <1>7 DEF Execute, UrlState
  <2>2. Clear(After(p, o))
    BY <1>7, CalmIsClear DEF Calm, Begin, StartLine, AfterUrl, LineStart, Discard, ValueEnd,
         ChunkLine
  <2>3. After(p, o).last = "message_begin"
    BY <1>0, <1>7 DEF LastOK, StartLine
  <2>4. ~Trailing(p)
    BY <1>0, <1>7 DEF NumbersOK, Heading, StartLine, UrlState, AfterUrl, Trailing
  <2> QED BY <1>0, <1>7, <2>1, <2>2, <2>3, <2>4, ReqUrlPost
<1>8. CASE p.state \in UrlState
  <2>1. Execute(p, ch) = ReqUrl(p, ch)
    BY <1>8 DEF Execute, UrlState
  <2>2. After(p, o).last \in {"message_begin", "url"}
    BY <1>0, <1>8 DEF LastOK
  <2>3. On(After(p, o), "url")
    BY <1>0, <1>8 DEF RestView, View, UrlState, Bytes, Identity
  <2>4. ~Trailing(p)
    BY <1>0, <1>8 DEF NumbersOK, Heading, StartLine, UrlState, AfterUrl, Trailing
  <2> QED BY <1>0, <1>8, <2>1, <2>2, <2>3, <2>4, ReqUrlPost
<1>9. CASE p.state \in {"s_req_http_start", "s_req_http_H", "s_req_http_major", "s_req_http_minor",
                     "s_req_http_end"}
  <2>1. Execute(p, ch) = ReqVersion(p, ch)
    BY <1>9 DEF Execute, UrlState
  <2>2. Clear(After(p, o))
    BY <1>9, CalmIsClear DEF Calm, Begin, StartLine, AfterUrl, LineStart, Discard, ValueEnd,
         ChunkLine
  <2>3. After(p, o).last = "url"
    BY <1>0, <1>9 DEF LastOK, AfterUrl
  <2>4. ~Trailing(p)
    BY <1>0, <1>9 DEF NumbersOK, Heading, StartLine, UrlState, AfterUrl, Trailing
  <2> QED BY <1>0, <1>9, <2>1, <2>2, <2>3, <2>4, ReqVersionPost
<1>10. CASE p.state \in {"s_res_H", "s_res_http_major", "s_res_http_minor", "s_res_http_end"}
  <2>1. Execute(p, ch) = ResVersion(p, ch)
    BY <1>10 DEF Execute, UrlState
  <2>2. Clear(After(p, o))
    BY <1>10, CalmIsClear DEF Calm, Begin, StartLine, AfterUrl, LineStart, Discard, ValueEnd,
         ChunkLine
  <2>3. After(p, o).last = "message_begin"
    BY <1>0, <1>10 DEF LastOK, StartLine
  <2>4. ~Trailing(p)
    BY <1>0, <1>10 DEF NumbersOK, Heading, StartLine, UrlState, AfterUrl, Trailing
  <2> QED BY <1>0, <1>10, <2>1, <2>2, <2>3, <2>4, ResVersionPost
<1>11. CASE p.state \in {"s_res_first_status_code", "s_res_status_code"}
  <2>1. Execute(p, ch) = ResCode(p, ch)
    BY <1>11 DEF Execute, UrlState
  <2>2. Clear(After(p, o))
    BY <1>11, CalmIsClear DEF Calm, Begin, StartLine, AfterUrl, LineStart, Discard, ValueEnd,
         ChunkLine
  <2>3. After(p, o).last = "message_begin"
    BY <1>0, <1>11 DEF LastOK, StartLine
  <2>4. ~Trailing(p)
    BY <1>0, <1>11 DEF NumbersOK, Heading, StartLine, UrlState, AfterUrl, Trailing
  <2> QED BY <1>0, <1>11, <2>1, <2>2, <2>3, <2>4, ResCodePost
<1>12. CASE p.state = "s_res_status_start"
  <2>1. Execute(p, ch) = ResStatusStart(p, ch)
    BY <1>12 DEF Execute, UrlState
  <2>2. Clear(After(p, o))
    BY <1>12, CalmIsClear DEF Calm, Begin, StartLine, AfterUrl, LineStart, Discard, ValueEnd,
         ChunkLine
  <2>3. After(p, o).last = "message_begin"
    BY <1>0, <1>12 DEF LastOK, StartLine
  <2>4. ~Trailing(p)
    BY <1>0, <1>12 DEF NumbersOK, Heading, StartLine, UrlState, AfterUrl, Trailing
  <2> QED BY <1>0, <1>12, <2>1, <2>2, <2>3, <2>4, ResStatusStartPost
<1>13. CASE p.state = "s_res_status"
  <2>1. Execute(p, ch) = ResStatus(p, ch)
    BY <1>13 DEF Execute, UrlState
  <2>2. After(p, o).last \in {"message_begin", "status"}
    BY <1>0, <1>13 DEF LastOK
  <2>3. On(After(p, o), "status")
    BY <1>0, <1>13 DEF RestView, View, Bytes, Identity
  <2>4. ~Trailing(p)
    BY <1>0, <1>13 DEF NumbersOK, Heading, StartLine, UrlState, AfterUrl, Trailing
  <2> QED BY <1>0, <1>13, <2>1, <2>2, <2>3, <2>4, ResStatusPost
<1>14. CASE p.state \in {"s_req_line_almost_done", "s_res_line_almost_done"}
  <2>1. Execute(p, ch) = LineAlmostDone(p, ch)
    BY <1>14 DEF Execute, UrlState
  <2>2. Clear(After(p, o))
    BY <1>14, CalmIsClear DEF Calm, Begin, StartLine, AfterUrl, LineStart, Discard, ValueEnd,
         ChunkLine
  <2>3. After(p, o).last \in {"url", "status"}
    BY <1>0, <1>14 DEF LastOK, AfterUrl
  <2>4. ~Trailing(p)
    BY <1>0, <1>14 DEF NumbersOK, Heading, StartLine, UrlState, AfterUrl, Trailing
  <2> QED BY <1>0, <1>14, <2>1, <2>2, <2>3, <2>4, LineAlmostDonePost
<1>15. CASE p.state = "s_header_field_start"
  <2>1. Execute(p, ch) = HeaderFieldStart(p, ch)
    BY <1>15 DEF Execute, UrlState
  <2>2. Clear(After(p, o))
    BY <1>15, CalmIsClear DEF Calm, Begin, StartLine, AfterUrl, LineStart, Discard, ValueEnd,
         ChunkLine
  <2>3. After(p, o).last \in BeforeLine(p)
    BY <1>0, <1>15 DEF LastOK, LineStart, BeforeLine
  <2> QED BY <1>0, <1>15, <2>1, <2>2, <2>3, HeaderFieldStartPost
<1>16. CASE p.state = "s_header_field"
  <2>1. Execute(p, ch) = HeaderField(p, ch)
    BY <1>16 DEF Execute, UrlState
  <2>2. After(p, o).last \in {"url", "status", "header_value", "chunk_header", "header_field"}
    BY <1>0, <1>16 DEF LastOK
  <2>3. On(After(p, o), "header_field")
    BY <1>0, <1>16 DEF RestView, View, Bytes, Identity
  <2> QED BY <1>0, <1>16, <2>1, <2>2, <2>3, HeaderFieldPost
<1>17. CASE p.state = "s_header_value_discard_ws"
  <2>1. Execute(p, ch) = HeaderValueDiscardWs(p, ch)
    BY <1>17 DEF Execute, UrlState
  <2>2. Clear(After(p, o))
    BY <1>17, CalmIsClear DEF Calm, Begin, StartLine, AfterUrl, LineStart, Discard, ValueEnd,
         ChunkLine
  <2>3. After(p, o).last = "header_field" /\ p.state \in Discard
    BY <1>0, <1>17 DEF LastOK, Discard
  <2> QED BY <1>0, <1>17, <2>1, <2>2, <2>3, HeaderValueDiscardWsPost
<1>18. CASE p.state = "s_header_value_discard_ws_almost_done"
  <2>1. Execute(p, ch) = IF ch = "LF" THEN To(p, "s_header_value_discard_lws")
                        ELSE SET_ERRNO(p, "HPE_STRICT")
    BY <1>18 DEF Execute, UrlState
  <2>2. Clear(After(p, o))
    BY <1>18, CalmIsClear DEF Calm, Begin, StartLine, AfterUrl, LineStart, Discard, ValueEnd,
         ChunkLine
  <2>3. After(p, o).last = "header_field"
    BY <1>0, <1>18 DEF LastOK, Discard
  <2> QED BY <1>0, <1>18, <2>1, <2>2, <2>3, DiscardAlmostDonePost
<1>19. CASE p.state = "s_header_value_discard_lws"
  <2>1. Execute(p, ch) = HeaderValueDiscardLws(p, ch)
    BY <1>19 DEF Execute, UrlState
  <2>2. Clear(After(p, o))
    BY <1>19, CalmIsClear DEF Calm, Begin, StartLine, AfterUrl, LineStart, Discard, ValueEnd,
         ChunkLine
  <2>3. After(p, o).last = "header_field"
    BY <1>0, <1>19 DEF LastOK, Discard
  <2> QED BY <1>0, <1>19, <2>1, <2>2, <2>3, HeaderValueDiscardLwsPost
<1>20. CASE p.state = "s_header_value"
  <2>1. Execute(p, ch) = HeaderValue(p, ch)
    BY <1>20 DEF Execute, UrlState
  <2>2. After(p, o).last \in {"header_field", "header_value"}
    BY <1>0, <1>20 DEF LastOK
  <2>3. On(After(p, o), "header_value")
    BY <1>0, <1>20 DEF RestView, View, Bytes, Identity
  <2>4. NoName(p.header_state)
    BY <1>0, <1>20 DEF NumbersOK, NoName
  <2> QED BY <1>0, <1>20, <2>1, <2>2, <2>3, <2>4, HeaderValuePost DEF InValue
<1>21. CASE p.state = "s_header_almost_done"
  <2>1. Execute(p, ch) = HeaderAlmostDone(p, ch)
    BY <1>21 DEF Execute, UrlState
  <2>2. Clear(After(p, o))
    BY <1>21, CalmIsClear DEF Calm, Begin, StartLine, AfterUrl, LineStart, Discard, ValueEnd,
         ChunkLine
  <2>3. After(p, o).last = "header_value"
    BY <1>0, <1>21 DEF LastOK, ValueEnd
  <2> QED BY <1>0, <1>21, <2>1, <2>2, <2>3, HeaderAlmostDonePost
<1>22. CASE p.state = "s_header_value_lws"
  <2>1. Execute(p, ch) = HeaderValueLws(p, ch)
    BY <1>22 DEF Execute, UrlState
  <2>2. Clear(After(p, o))
    BY <1>22, CalmIsClear DEF Calm, Begin, StartLine, AfterUrl, LineStart, Discard, ValueEnd,
         ChunkLine
  <2>3. After(p, o).last = "header_value"
    BY <1>0, <1>22 DEF LastOK, ValueEnd
  <2> QED BY <1>0, <1>22, <2>1, <2>2, <2>3, HeaderValueLwsPost
<1>23. CASE p.state = "s_headers_almost_done"
  <2>1. Execute(p, ch) = HeadersAlmostDone(p, ch)
    BY <1>23 DEF Execute, UrlState
  <2>2. Clear(After(p, o))
    BY <1>23, CalmIsClear DEF Calm, Begin, StartLine, AfterUrl, LineStart, Discard, ValueEnd,
         ChunkLine
  <2>3. After(p, o).last \in BeforeLine(p)
    BY <1>0, <1>23 DEF LastOK, LineStart, BeforeLine
  <2> QED BY <1>0, <1>23, <2>1, <2>2, <2>3, HeadersAlmostDonePost
<1>24. CASE p.state = "s_body_identity"
  <2>1. Execute(p, ch) = BodyIdentity(p)
    BY <1>24 DEF Execute, UrlState
  <2>2. After(p, o).last \in {"headers_complete", "body"}
    BY <1>0, <1>24 DEF LastOK, Identity
  <2>3. LET a == After(p, o) IN Clear(a) \/ On(a, "body") \/ Cut(a, "body")
    BY <1>0, <1>24 DEF RestView, View, Bytes, Identity
  <2>4. p.content_length \notin {0, MaxU}
    BY <1>0, <1>24 DEF NumbersOK
  <2> QED BY <1>0, <1>24, <2>1, <2>2, <2>3, <2>4, BodyIdentityPost
<1>25. CASE p.state = "s_body_identity_eof"
  <2>1. Execute(p, ch) = MARK(p, "body")
    BY <1>25 DEF Execute, UrlState
  <2>2. After(p, o).last \in {"headers_complete", "body"}
    BY <1>0, <1>25 DEF LastOK, Identity
  <2>3. LET a == After(p, o) IN Clear(a) \/ On(a, "body") \/ Cut(a, "body")
    BY <1>0, <1>25 DEF RestView, View, Bytes, Identity
  <2> QED BY <1>0, <1>25, <2>1, <2>2, <2>3, BodyEofPost
<1>26. CASE p.state \in {"s_chunk_size_start", "s_chunk_size", "s_chunk_parameters"}
  <2>1. Execute(p, ch) = ChunkSize(p, ch)
    BY <1>26 DEF Execute, UrlState
  <2>2. Clear(After(p, o))
    BY <1>26, CalmIsClear DEF Calm, Begin, StartLine, AfterUrl, LineStart, Discard, ValueEnd,
         ChunkLine
  <2>3. After(p, o).last \in {"headers_complete", "chunk_complete"}
    BY <1>0, <1>26 DEF LastOK, ChunkLine
  <2>4. "F_CHUNKED" \in p.flags
    BY <1>0, <1>26 DEF NumbersOK, ChunkLine, ChunkBytes
  <2>5. IF p.state = "s_chunk_size_start" THEN p.nread = 1 ELSE p.content_length < MaxU
    BY <1>0, <1>26 DEF NumbersOK, ChunkLine
  <2> QED BY <1>0, <1>26, <2>1, <2>2, <2>3, <2>4, <2>5, ChunkSizePost
<1>27. CASE p.state = "s_chunk_size_almost_done"
  <2>1. Execute(p, ch) = ChunkSizeAlmostDone(p, ch)
    BY <1>27 DEF Execute, UrlState
  <2>2. Clear(After(p, o))
    BY <1>27, CalmIsClear DEF Calm, Begin, StartLine, AfterUrl, LineStart, Discard, ValueEnd,
         ChunkLine
  <2>3. After(p, o).last \in {"headers_complete", "chunk_complete"}
    BY <1>0, <1>27 DEF LastOK, ChunkLine
  <2>4. "F_CHUNKED" \in p.flags
    BY <1>0, <1>27 DEF NumbersOK, ChunkLine, ChunkBytes
  <2>5. p.content_length < MaxU
    BY <1>0, <1>27 DEF NumbersOK, ChunkLine
  <2> QED BY <1>0, <1>27, <2>1, <2>2, <2>3, <2>4, <2>5, ChunkSizeAlmostDonePost
<1>28. CASE p.state = "s_chunk_data"
  <2>1. Execute(p, ch) = ChunkData(p)
    BY <1>28 DEF Execute, UrlState
  <2>2. After(p, o).last \in {"chunk_header", "body"}
    BY <1>0, <1>28 DEF LastOK, ChunkBytes
  <2>3. LET a == After(p, o) IN Clear(a) \/ On(a, "body") \/ Cut(a, "body")
    BY <1>0, <1>28 DEF RestView, View, Bytes, Identity
  <2>4. "F_CHUNKED" \in p.flags
    BY <1>0, <1>28 DEF NumbersOK, ChunkLine, ChunkBytes
  <2>5. p.content_length \notin {0, MaxU}
    BY <1>0, <1>28 DEF NumbersOK
  <2> QED BY <1>0, <1>28, <2>1, <2>2, <2>3, <2>4, <2>5, ChunkDataPost
<1>29. CASE p.state = "s_chunk_data_almost_done"
  <2>1. Execute(p, ch) = ChunkDataAlmostDone(p, ch)
    BY <1>29 DEF Execute, UrlState
  <2>2. After(p, o).last \in {"chunk_header", "body"}
    BY <1>0, <1>29 DEF LastOK, ChunkBytes
  <2>3. On(After(p, o), "body") \/ Cut(After(p, o), "body")
    BY <1>0, <1>29 DEF RestView, View, Bytes, Identity
  <2>4. "F_CHUNKED" \in p.flags
    BY <1>0, <1>29 DEF NumbersOK, ChunkLine, ChunkBytes
  <2>5. p.content_length = 0
    BY <1>0, <1>29 DEF NumbersOK
  <2> QED BY <1>0, <1>29, <2>1, <2>2, <2>3, <2>4, <2>5, ChunkDataAlmostDonePost
<1>30. CASE p.state = "s_chunk_data_done"
  <2>1. Execute(p, ch) = ChunkDataDone(p, ch)
    BY <1>30 DEF Execute, UrlState
  <2>2. Clear(After(p, o))
    BY <1>30, CalmIsClear DEF Calm, Begin, StartLine, AfterUrl, LineStart, Discard, ValueEnd,
         ChunkLine
  <2>3. After(p, o).last \in {"chunk_header", "body"}
    BY <1>0, <1>30 DEF LastOK, ChunkBytes
  <2>4. "F_CHUNKED" \in p.flags
    BY <1>0, <1>30 DEF NumbersOK, ChunkLine, ChunkBytes
  <2> QED BY <1>0, <1>30, <2>1, <2>2, <2>3, <2>4, ChunkDataDonePost
<1> QED BY <1>0, <1>1, <1>2, <1>3, <1>4, <1>5, <1>6, <1>7, <1>8, <1>9, <1>10, <1>11, <1>12,
       <1>13, <1>14, <1>15, <1>16, <1>17, <1>18, <1>19, <1>20, <1>21, <1>22, <1>23, <1>24,
       <1>25, <1>26, <1>27, <1>28, <1>29, <1>30 DEF States, Begin, StartLine, AfterUrl,
       LineStart, Discard,
       ValueEnd, Identity, ChunkLine, ChunkBytes

LEMMA NreadIs ==
  ASSUME NEW p, IsParser(p), NEW v \in 0..(max_header_size + 1)
  PROVE  LET n == [p EXCEPT !.nread = v]
         IN  /\ IsParser(n) /\ n.effects = p.effects /\ n.http_errno = p.http_errno
             /\ n.state = p.state /\ n.flags = p.flags /\ n.content_length = p.content_length
             /\ n.header_state = p.header_state /\ n.nread = v
  BY DEF IsParser

LEMMA ErrIs ==
  ASSUME NEW p, IsParser(p), NEW e
  PROVE  LET r == SET_ERRNO(p, e) IN IsParser(r) /\ r.effects = p.effects /\ r.http_errno = e
  BY DEF IsParser, SET_ERRNO

LEMMA TurnPost ==
  ASSUME NEW p, NEW o, NEW ch, IsParser(p), p.effects = <<>>, p.http_errno = "HPE_OK", Basic(o),
         Rest(p, o)
  PROVE  Post(Turn(p, ch), o)
<1> DEFINE v == p.nread + 1
           n == [p EXCEPT !.nread = v]
           q == IF PARSING_HEADER(p.state) THEN n ELSE p
<1>0. Turn(p, ch) = IF q.nread > max_header_size THEN SET_ERRNO(q, "HPE_HEADER_OVERFLOW")
                    ELSE Execute(q, ch)
  BY DEF Turn
<1>1. p.nread \in 0..max_header_size /\ v \in 0..(max_header_size + 1)
  BY HttpAssumption DEF IsParser, Rest
<1> HIDE DEF v
<1>2. /\ IsParser(n) /\ n.effects = <<>> /\ n.http_errno = "HPE_OK" /\ n.state = p.state
      /\ n.flags = p.flags /\ n.content_length = p.content_length
      /\ n.header_state = p.header_state /\ n.nread = v
  BY <1>1, NreadIs
<1> HIDE DEF n
<1>3. /\ IsParser(q) /\ q.effects = <<>> /\ q.http_errno = "HPE_OK" /\ q.state = p.state
      /\ q.flags = p.flags /\ q.content_length = p.content_length
      /\ q.header_state = p.header_state
      /\ q.nread = IF PARSING_HEADER(p.state) THEN p.nread + 1 ELSE p.nread
  BY <1>2 DEF v
<1> HIDE DEF q
<1>4. After(q, o) = o
  BY <1>3, HeardNone DEF After
<1>5. CASE q.nread > max_header_size
  <2> DEFINE r == SET_ERRNO(q, "HPE_HEADER_OVERFLOW")
  <2>1. IsParser(r) /\ r.effects = q.effects /\ r.http_errno = "HPE_HEADER_OVERFLOW"
    BY <1>3, ErrIs
  <2> HIDE DEF r
  <2>2. Basic(After(r, o))
    BY <1>4, <2>1 DEF After
  <2>3. Post(r, o)
    BY <2>1, <2>2 DEF Post
  <2> QED BY <1>0, <1>5, <2>3 DEF r
<1>6. CASE ~(q.nread > max_header_size)
  <2>1. q.nread <= max_header_size
    BY <1>3, <1>6, HttpAssumption DEF IsParser
  <2>2. K(q, o)
    BY <1>3, <1>4, <2>1 DEF K
  <2>3. NumbersOK(q, 1)
    <3>1. p.state = "s_chunk_size_start" => q.nread = 1
      BY <1>3, HttpAssumption DEF Rest, NumbersOK, PARSING_HEADER, BodyState
    <3> QED BY <1>3, <3>1 DEF Rest, NumbersOK
  <2>4. Pre(q, o)
    BY <1>3, <1>4, <2>2, <2>3 DEF Pre, Rest, Trailing
  <2> QED BY <1>0, <1>6, <2>4, ExecutePost
<1> QED BY <1>5, <1>6

-----------------------------------------------------------------------------
(* The steps of the specification.                                         *)

\* The view depends on the marks and on got.
LEMMA SameRest ==
  ASSUME NEW s, NEW a, NEW b, a.mark = b.mark, a.whole = b.whole, a.got = b.got
  PROVE  RestView(s, a) => RestView(s, b)
<1>1. /\ Clear(a) => Clear(b)
      /\ \A e : On(a, e) => On(b, e)
      /\ \A e : Cut(a, e) => Cut(b, e)
  BY DEF Clear, On, Cut, Others, Off
<1> QED BY <1>1 DEF RestView, View

LEMMA AdvanceRest ==
  ASSUME NEW s, NEW a, NEW b, Basic(a), b.mark = Advance(a.mark), b.whole = Advance(a.whole),
         b.got = a.got, View(s, a)
  PROVE  View(s, b)
<1>1. /\ a.mark \in [Element -> Int] /\ a.whole \in [Element -> Int] /\ a.got \in Nat
  BY DEF Basic
<1>2. \A e \in Element : /\ b.mark[e] = IF a.mark[e] = -1 THEN -1 ELSE a.mark[e] + 1
                         /\ b.whole[e] = IF a.whole[e] = -1 THEN -1 ELSE a.whole[e] + 1
  BY DEF Advance
<1>3. Clear(a) => Clear(b)
  BY <1>2 DEF Clear, Off
<1>4. \A e \in Element : On(a, e) => On(b, e)
  <2> SUFFICES ASSUME NEW e \in Element, On(a, e) PROVE On(b, e)
    OBVIOUS
  <2>1. Others(b, e)
    BY <1>2 DEF On, Others, Off
  <2>2. b.mark[e] = a.mark[e] + 1 /\ b.whole[e] = a.whole[e] + 1
    BY <1>1, <1>2 DEF On
  <2> QED BY <1>1, <2>1, <2>2 DEF On
<1>5. On(a, "header_field") => On(b, "header_field")
  BY <1>4 DEF Element
<1>6. On(a, "header_value") => On(b, "header_value")
  BY <1>4 DEF Element
<1>7. On(a, "status") => On(b, "status")
  BY <1>4 DEF Element
<1>8. On(a, "url") => On(b, "url")
  BY <1>4 DEF Element
<1>9. On(a, "body") => On(b, "body")
  BY <1>4 DEF Element
<1> QED BY <1>3, <1>5, <1>6, <1>7, <1>8, <1>9 DEF View

LEMMA InvRest == Inv /\ Reading => Rest(parser, Now) /\ parser.http_errno = "HPE_OK"
  BY DEF Inv, Reading

\* What the next state must be.
LEMMA InvNext ==
  ASSUME IsParser(parser)', (parser.effects = <<>>)', Basic(Now)', (parser.http_errno # "assert")',
         Reading' => Rest(parser, Now)'
  PROVE  Inv'
  BY DEF Inv

LEMMA FeedInv == Inv /\ Feed => Inv'
<1> SUFFICES ASSUME Inv, Feed PROVE Inv'
  OBVIOUS
<1> DEFINE ch == Head(script)
           q == Turn(parser, ch)
           a == After(q, Observed)
<1>1. /\ IsParser(parser) /\ parser.effects = <<>> /\ Basic(Now) /\ Rest(parser, Now)
      /\ parser.http_errno = "HPE_OK"
  BY InvRest DEF Feed, Inv
<1>2. Basic(Observed)
  BY <1>1 DEF Basic, Now, Observed
<1>3. Rest(parser, Observed)
  <2>1. /\ Observed.mark = Now.mark /\ Observed.whole = Now.whole /\ Observed.got = Now.got
        /\ Observed.last = Now.last
    BY DEF Observed, Now
  <2> QED BY <1>1, <2>1, SameRest DEF Rest
<1>4. Post(q, Observed)
  BY <1>1, <1>2, <1>3, TurnPost
<1>5. /\ parser' = [q EXCEPT !.effects = <<>>]
      /\ mark' = Advance(a.mark) /\ whole' = Advance(a.whole)
      /\ got' = a.got /\ ended' = a.ended /\ last' = a.last
      /\ ReadBody(ch, a.body)
  BY DEF Feed, After
<1> HIDE DEF q, ch
<1>6. /\ IsParser(q) /\ Basic(a) /\ q.http_errno # "assert"
      /\ q.http_errno = "HPE_OK" => Fine(q, Observed)
  BY <1>4 DEF Post
<1>7. /\ IsParser(parser') /\ parser'.effects = <<>> /\ parser'.state = q.state
      /\ parser'.flags = q.flags /\ parser'.content_length = q.content_length
      /\ parser'.nread = q.nread /\ parser'.header_state = q.header_state
      /\ parser'.http_errno = q.http_errno
  BY <1>5, <1>6 DEF IsParser
<1> HIDE DEF a
<1>8. body'.got \in Nat
  <2>1. a.body \in Nat
    BY <1>6 DEF Basic
  <2>2. CASE last' = "message_begin"
    <3>1. body' = [got |-> 0, due |-> 0]
      BY <1>5, <2>2 DEF ReadBody
    <3> QED BY <3>1
  <2>3. CASE last' # "message_begin"
    <3>1. PICK d : body' = [got |-> a.body, due |-> d]
      BY <1>5, <2>3 DEF ReadBody
    <3> QED BY <2>1, <3>1
  <2> QED BY <2>2, <2>3
<1>9. /\ Now'.mark = Advance(a.mark) /\ Now'.whole = Advance(a.whole) /\ Now'.got = a.got
      /\ Now'.ended = a.ended /\ Now'.last = a.last /\ Now'.body = body'.got
      /\ Now' = [mark |-> Now'.mark, whole |-> Now'.whole, got |-> Now'.got, ended |-> Now'.ended,
                 last |-> Now'.last, body |-> Now'.body]
  BY <1>5 DEF Now
<1>10. Advance(a.mark) \in [Element -> Int] /\ Advance(a.whole) \in [Element -> Int]
  <2>1. a.mark \in [Element -> Int] /\ a.whole \in [Element -> Int]
    BY <1>6 DEF Basic
  <2> QED BY <2>1 DEF Advance
<1>11. Basic(Now)'
  BY <1>6, <1>8, <1>9, <1>10 DEF Basic
<1>12. Reading' => Rest(parser, Now)'
  <2> SUFFICES ASSUME Reading' PROVE Rest(parser, Now)'
    OBVIOUS
  <2>1. Fine(q, Observed)
    BY <1>6, <1>7 DEF Reading
  <2>2. View(q.state, a) /\ LastOK(q.state, Trailing(q), a.last) /\ q.state \in States
        /\ NumbersOK(q, 0) /\ q.nread <= max_header_size
    BY <2>1 DEF Fine, a
  <2>3. View(q.state, Now')
    BY <1>6, <1>9, <2>2, AdvanceRest
  <2>4. RestView(parser'.state, Now')
    BY <1>7, <2>3 DEF RestView
  <2>5. NumbersOK(parser', 0)
    BY <1>7, <2>2 DEF NumbersOK
  <2>6. LastOK(parser'.state, Trailing(parser'), Now'.last)
    BY <1>7, <1>9, <2>2 DEF Trailing
  <2>7. parser'.state \in States /\ parser'.nread <= max_header_size
    BY <1>7, <2>2
  <2>8. Rest(parser', Now')
    BY <2>4, <2>5, <2>6, <2>7 DEF Rest
  <2> QED BY <2>8 DEF Rest, LastOK, RestView, NumbersOK, Trailing, View, On, Clear, Cut, Others, Off
<1> QED BY <1>6, <1>7, <1>11, <1>12, InvNext DEF IsParser

LEMMA SendInv == Inv /\ Send => Inv'
<1> SUFFICES ASSUME Inv, Send PROVE Inv'
  OBVIOUS
<1>1. /\ parser' = parser /\ mark' = mark /\ whole' = whole /\ got' = got /\ ended' = ended
      /\ last' = last /\ body' = body
  BY DEF Send
<1>2. Now' = Now /\ (Reading' => Reading)
  BY <1>1 DEF Now, Reading
<1>3. (Reading => Rest(parser, Now)) /\ (Reading' => Rest(parser', Now'))
  BY <1>1, <1>2 DEF Inv
<1> QED BY <1>1, <1>2, <1>3 DEF Inv

\* At most one mark is set, and it belongs to the state.
LEMMA OneMark ==
  ASSUME NEW s, NEW o, Basic(o), RestView(s, o)
  PROVE  \/ {e \in Element : o.mark[e] # -1} = {} /\ (Clear(o) \/ Cut(o, "body"))
            /\ (s \in Bytes \cup {"s_chunk_data_almost_done"} \/ Clear(o))
            /\ s \notin {"s_header_field", "s_header_value", "s_res_status"} \cup UrlState
         \/ \E e \in Element : /\ {f \in Element : o.mark[f] # -1} = {e} /\ On(o, e)
                               /\ e = "header_field" <=> s = "s_header_field"
                               /\ e = "header_value" <=> s = "s_header_value"
                               /\ e = "status" <=> s = "s_res_status"
                               /\ e = "url" <=> s \in UrlState
                               /\ e = "body" => s \in Bytes \cup {"s_chunk_data_almost_done"}
<1>1. ASSUME NEW e \in Element, On(o, e) PROVE {f \in Element : o.mark[f] # -1} = {e}
  <2>1. o.mark[e] # -1 /\ \A f \in Element : f # e => o.mark[f] = -1
    BY <1>1 DEF On, Others, Off
  <2> QED BY <2>1
<1>2. Clear(o) => {f \in Element : o.mark[f] # -1} = {}
  BY DEF Clear, Off
<1>3. Cut(o, "body") => {f \in Element : o.mark[f] # -1} = {}
  BY DEF Cut, Others, Off
<1>4. CASE s \in {"s_header_field", "s_header_value", "s_res_status"} \cup UrlState
  <2>0. View(s, o)
    BY <1>4 DEF RestView, UrlState, Bytes, Identity
  <2>1. PICK e \in Element : /\ On(o, e)
                             /\ e = "header_field" <=> s = "s_header_field"
                             /\ e = "header_value" <=> s = "s_header_value"
                             /\ e = "status" <=> s = "s_res_status"
                             /\ e = "url" <=> s \in UrlState
                             /\ e # "body"
    <3>1. CASE s = "s_header_field"
      BY <2>0, <3>1 DEF View, Element, UrlState
    <3>2. CASE s = "s_header_value"
      BY <2>0, <3>2 DEF View, Element, UrlState
    <3>3. CASE s = "s_res_status"
      BY <2>0, <3>3 DEF View, Element, UrlState
    <3>4. CASE s \in UrlState
      BY <2>0, <3>4 DEF View, Element, UrlState
    <3> QED BY <1>4, <3>1, <3>2, <3>3, <3>4
  <2> QED BY <1>1, <2>1
<1>5. CASE s \notin {"s_header_field", "s_header_value", "s_res_status"} \cup UrlState
  <2>1. \/ Clear(o)
        \/ (On(o, "body") \/ Cut(o, "body")) /\ s \in Bytes \cup {"s_chunk_data_almost_done"}
    BY <1>5 DEF RestView, View
  <2>2. CASE On(o, "body") /\ s \in Bytes \cup {"s_chunk_data_almost_done"}
    <3>1. "body" \in Element
      BY DEF Element
    <3>2. {f \in Element : o.mark[f] # -1} = {"body"}
      BY <1>1, <2>2, <3>1
    <3> QED BY <1>5, <2>2, <3>1, <3>2
  <2> QED BY <1>2, <1>3, <1>5, <2>1, <2>2
<1> QED BY <1>4, <1>5

LEMMA EndBufferInv == Inv /\ EndBuffer => Inv'
<1> SUFFICES ASSUME Inv, EndBuffer PROVE Inv'
  OBVIOUS
<1> DEFINE set == {e \in Element : mark[e] # -1}
           c == CHOOSE f \in set : TRUE
           s == parser.state
<1>1. /\ IsParser(parser) /\ parser.effects = <<>> /\ Basic(Now) /\ Rest(parser, Now)
      /\ parser.http_errno = "HPE_OK"
  BY InvRest DEF EndBuffer, Inv
<1>2. /\ parser' = IF Cardinality(set) <= 1 THEN parser ELSE SET_ERRNO(parser, "assert")
      /\ mark' = EntryMark(s)
      /\ got' = IF set = {} THEN got ELSE got + mark[c]
      /\ last' = IF set = {} THEN last ELSE Hear(last, c)
      /\ body' = IF "body" \in set THEN [got |-> body.got + mark["body"], due |-> body.due]
                 ELSE body
      /\ ended' = {} /\ whole' = whole
  BY DEF EndBuffer
<1>3. /\ Now.mark = mark /\ Now.whole = whole /\ Now.got = got /\ Now.last = last
      /\ Now.body = body.got
  BY DEF Now
<1>4. /\ mark \in [Element -> Int] /\ whole \in [Element -> Int] /\ got \in Nat /\ body.got \in Nat
      /\ last # "disorder"
  BY <1>1, <1>3 DEF Basic
<1>5. mark' \in [Element -> Int]
  BY <1>2 DEF EntryMark
<1>6. /\ Now'.mark = mark' /\ Now'.whole = whole /\ Now'.got = got' /\ Now'.last = last'
      /\ Now'.body = body'.got /\ Now'.ended = {}
      /\ Now' = [mark |-> Now'.mark, whole |-> Now'.whole, got |-> Now'.got, ended |-> Now'.ended,
                 last |-> Now'.last, body |-> Now'.body]
  BY <1>2 DEF Now
<1>7. RestView(s, Now) /\ LastOK(s, Trailing(parser), last)
  BY <1>1, <1>3 DEF Rest
<1>8. ASSUME parser' = parser, got' \in Nat, body'.got \in Nat, last' # "disorder",
             RestView(s, Now'), LastOK(s, Trailing(parser), last')
      PROVE  Inv'
  <2>1. Basic(Now')
    BY <1>4, <1>5, <1>6, <1>8 DEF Basic
  <2>2. Rest(parser', Now')
    BY <1>1, <1>6, <1>8 DEF Rest
  <2> HIDE DEF set, c, s
  <2>3. IsParser(parser') /\ parser'.effects = <<>> /\ parser'.http_errno # "assert"
    BY <1>1, <1>8
  <2> QED BY <2>1, <2>2, <2>3 DEF Inv
<1>9. CASE /\ set = {} /\ (Clear(Now) \/ Cut(Now, "body"))
           /\ s \in Bytes \cup {"s_chunk_data_almost_done"} \/ Clear(Now)
           /\ s \notin {"s_header_field", "s_header_value", "s_res_status"} \cup UrlState
  <2>1. Cardinality(set) = 0
    BY <1>9, FS_EmptySet
  <2>2. parser' = parser /\ got' = got /\ last' = last /\ body' = body
    <3>1. "body" \notin set
      BY <1>9
    <3> HIDE DEF set
    <3> QED BY <1>2, <1>9, <2>1, <3>1
  <2>3. \A e \in Element : mark'[e] = -1 /\ mark[e] = -1
    <3>1. \A e \in Element : mark[e] = -1
      BY <1>9
    <3>2. \A e \in Element : EntryMark(s)[e] = -1
      BY <1>9 DEF EntryMark
    <3> QED BY <1>2, <3>1, <3>2
  <2>4. Clear(Now) => Clear(Now')
    BY <1>3, <1>6, <2>2, <2>3 DEF Clear, Off
  <2>5. Cut(Now, "body") => Cut(Now', "body")
    BY <1>3, <1>6, <2>2, <2>3 DEF Cut, Others, Off, Element
  <2>6. RestView(s, Now')
    <3>1. CASE Clear(Now)
      <4>1. s # "s_chunk_data_almost_done" => View(s, Now')
        BY <1>9, <2>4, <3>1 DEF View
      <4>2. s = "s_chunk_data_almost_done" => Cut(Now', "body")
        BY <1>7, <2>5, <3>1 DEF RestView, View, Clear, On, Off, Element, Bytes, Identity
      <4> QED BY <4>1, <4>2 DEF RestView
    <3>2. CASE ~Clear(Now)
      BY <1>9, <2>5, <3>2 DEF RestView
    <3> QED BY <3>1, <3>2
  <2> QED BY <1>4, <1>7, <1>8, <2>2, <2>6
<1>10. CASE \E e \in Element : /\ set = {e} /\ On(Now, e)
                               /\ e = "header_field" <=> s = "s_header_field"
                               /\ e = "header_value" <=> s = "s_header_value"
                               /\ e = "status" <=> s = "s_res_status"
                               /\ e = "url" <=> s \in UrlState
                               /\ e = "body" => s \in Bytes \cup {"s_chunk_data_almost_done"}
  <2>1. PICK e \in Element : /\ set = {e} /\ On(Now, e)
                             /\ e = "header_field" <=> s = "s_header_field"
                             /\ e = "header_value" <=> s = "s_header_value"
                             /\ e = "status" <=> s = "s_res_status"
                             /\ e = "url" <=> s \in UrlState
                             /\ e = "body" => s \in Bytes \cup {"s_chunk_data_almost_done"}
    BY <1>10
  <2>2. Cardinality(set) = 1
    BY <2>1, FS_Singleton
  <2>3. c = e /\ set # {}
    BY <2>1
  <2>4. mark[e] \in Nat /\ whole[e] = got + mark[e] /\ Others(Now, e)
    BY <1>3, <2>1 DEF On
  <2>5. last \in Follows[e] /\ LastOK(s, Trailing(parser), e)
    <3>1. CASE e = "header_field"
      <4>1. s = "s_header_field" /\ last \in {"url", "status", "header_value", "chunk_header", "header_field"}
        BY <1>7, <2>1, <3>1 DEF LastOK
      <4> QED BY <3>1, <4>1 DEF LastOK, Follows, Begin, StartLine, UrlState, AfterUrl, LineStart,
            Discard, ValueEnd, Identity, ChunkLine, ChunkBytes
    <3>2. CASE e = "header_value"
      <4>1. s = "s_header_value" /\ last \in {"header_field", "header_value"}
        BY <1>7, <2>1, <3>2 DEF LastOK
      <4> QED BY <3>2, <4>1 DEF LastOK, Follows, Begin, StartLine, UrlState, AfterUrl, LineStart,
            Discard, ValueEnd, Identity, ChunkLine, ChunkBytes
    <3>3. CASE e = "status"
      <4>1. s = "s_res_status" /\ last \in {"message_begin", "status"}
        BY <1>7, <2>1, <3>3 DEF LastOK
      <4> QED BY <3>3, <4>1 DEF LastOK, Follows, Begin, StartLine, UrlState, AfterUrl, LineStart,
            Discard, ValueEnd, Identity, ChunkLine, ChunkBytes
    <3>4. CASE e = "url"
      <4>1. s \in UrlState /\ last \in {"message_begin", "url"}
        BY <1>7, <2>1, <3>4 DEF LastOK
      <4> QED BY <3>4, <4>1 DEF LastOK, Follows, Begin, StartLine, UrlState, AfterUrl, LineStart,
            Discard, ValueEnd, Identity, ChunkLine, ChunkBytes
    <3>5. CASE e = "body"
      <4>1. s \in Identity \cup {"s_chunk_data", "s_chunk_data_almost_done"}
        BY <2>1, <3>5 DEF Bytes
      <4>2. last \in {"headers_complete", "chunk_header", "body"}
        BY <1>7, <4>1 DEF LastOK, ChunkBytes
      <4> QED BY <3>5, <4>1, <4>2 DEF LastOK, Follows, Begin, StartLine, UrlState, AfterUrl,
            LineStart, Discard, ValueEnd, Identity, ChunkLine, ChunkBytes
    <3> QED BY <3>1, <3>2, <3>3, <3>4, <3>5 DEF Element
  <2>6. Hear(last, e) = e /\ e # "disorder"
    BY <2>5, HearIs
  <2>7. /\ parser' = parser /\ got' = got + mark[e] /\ last' = e
        /\ body'.got \in Nat
    <3>1. parser' = parser /\ got' = got + mark[e] /\ last' = e
      <4> HIDE DEF set, c
      <4> QED BY <1>2, <2>2, <2>3, <2>6
    <3>2. CASE e = "body"
      <4>1. "body" \in set
        BY <2>1, <3>2
      <4>2. body' = [got |-> body.got + mark["body"], due |-> body.due]
        <5> HIDE DEF set
        <5> QED BY <1>2, <4>1
      <4> QED BY <1>4, <2>4, <3>1, <3>2, <4>2
    <3>3. CASE e # "body"
      <4>1. "body" \notin set
        BY <2>1, <3>3
      <4>2. body' = body
        <5> HIDE DEF set
        <5> QED BY <1>2, <4>1
      <4> QED BY <1>4, <3>1, <4>2
    <3> QED BY <3>1, <3>2, <3>3
  <2> HIDE DEF set, c
  <2>8. \A f \in Element : f # e => mark'[f] = -1 /\ whole[f] = -1
    <3>1. \A f \in Element : f # e => whole[f] = -1
      BY <1>3, <2>4 DEF Others, Off
    <3>2. \A f \in Element : f # e => EntryMark(s)[f] = -1
      BY <2>1 DEF EntryMark
    <3> QED BY <1>2, <3>1, <3>2
  <2>9. mark'[e] = IF e = "body" THEN -1 ELSE 0
    BY <1>2, <2>1 DEF EntryMark, Element
  <2>10. e # "body" => On(Now', e)
    BY <1>6, <1>4, <2>4, <2>7, <2>8, <2>9 DEF On, Others, Off
  <2>11. e = "body" => Cut(Now', "body")
    BY <1>6, <1>4, <2>4, <2>7, <2>8, <2>9 DEF Cut, Others, Off
  <2>12. RestView(s, Now')
    <3>1. CASE e = "body"
      BY <2>1, <2>11, <3>1 DEF RestView
    <3>2. CASE e # "body"
      <4>1. View(s, Now')
        BY <2>1, <2>10, <3>2 DEF View, Element, UrlState, Bytes, Identity
      <4> QED BY <4>1 DEF RestView
    <3> QED BY <3>1, <3>2
  <2>13. got' \in Nat
    BY <1>4, <2>4, <2>7
  <2> QED BY <1>8, <2>5, <2>6, <2>7, <2>12, <2>13
<1>11. RestView(s, Now) /\ Basic(Now) /\ Now.mark = mark
  BY <1>1, <1>3, <1>7
<1> HIDE DEF s
<1> QED BY <1>9, <1>10, <1>11, OneMark

LEMMA EofInv == Inv /\ Eof => Inv'
<1> SUFFICES ASSUME Inv, Eof PROVE Inv'
  OBVIOUS
<1>1. /\ IsParser(parser) /\ parser.effects = <<>> /\ Basic(Now) /\ Rest(parser, Now)
      /\ parser.http_errno = "HPE_OK"
  BY InvRest DEF Eof, Inv
<1>2. /\ mark' = mark /\ whole' = whole /\ got' = got /\ body' = body
      /\ \A e \in Element : mark[e] <= 0
  BY DEF Eof
<1>3. /\ Now.mark = mark /\ Now.whole = whole /\ Now.got = got /\ Now.last = last
      /\ Now.body = body.got
  BY DEF Now
<1>4. /\ Now'.mark = mark /\ Now'.whole = whole /\ Now'.got = got /\ Now'.last = last'
      /\ Now'.body = body.got /\ Now'.ended = ended'
      /\ Now' = [mark |-> Now'.mark, whole |-> Now'.whole, got |-> Now'.got, ended |-> Now'.ended,
                 last |-> Now'.last, body |-> Now'.body]
  BY <1>2 DEF Now
<1>5. /\ mark \in [Element -> Int] /\ whole \in [Element -> Int] /\ got \in Nat /\ body.got \in Nat
      /\ last # "disorder"
  BY <1>1, <1>3 DEF Basic
<1>6. ASSUME NEW v, NEW e, e # "assert", parser' = [parser EXCEPT !.left = v, !.http_errno = e]
      PROVE  IsParser(parser') /\ parser'.effects = <<>> /\ parser'.http_errno = e /\ parser'.left = v
  BY <1>1, <1>6 DEF IsParser
<1>7. ASSUME NEW v, parser' = [parser EXCEPT !.left = v]
      PROVE  /\ IsParser(parser') /\ parser'.effects = <<>> /\ parser'.http_errno = "HPE_OK"
             /\ parser'.left = v
  BY <1>1, <1>7 DEF IsParser
<1>8. CASE parser.state = "s_body_identity_eof"
  <2>1. /\ last' = Hear(last, "message_complete") /\ parser' = [parser EXCEPT !.left = TRUE]
        /\ ended' = IF whole["body"] = -1 THEN {} ELSE {[got |-> got, whole |-> whole["body"]]}
    BY <1>8 DEF Eof
  <2>2. /\ IsParser(parser') /\ parser'.effects = <<>> /\ parser'.http_errno = "HPE_OK"
        /\ parser'.left = TRUE
    BY <1>7, <2>1, Zenon
  <2>3. last' = "message_complete"
    <3>1. last \in {"headers_complete", "body"}
      BY <1>1, <1>3, <1>8 DEF Rest, LastOK, Identity
    <3> QED BY <2>1, <3>1 DEF Hear, Follows
  <2>4. whole["body"] # -1 => got = whole["body"]
    <3>1. Clear(Now) \/ On(Now, "body") \/ Cut(Now, "body")
      BY <1>1, <1>8 DEF Rest, RestView, View, Bytes, Identity
    <3>2. "body" \in Element
      BY DEF Element
    <3> QED BY <1>2, <1>3, <1>5, <3>1, <3>2 DEF Clear, On, Cut, Off
  <2>5. \A x \in ended' : x.got = x.whole
    BY <2>1, <2>4
  <2>6. Basic(Now')
    BY <1>4, <1>5, <2>3, <2>5 DEF Basic
  <2>7. ~Reading'
    BY <2>2 DEF Reading
  <2>8. parser'.http_errno # "assert"
    BY <2>2
  <2> QED BY <2>2, <2>6, <2>7, <2>8 DEF Inv
<1>9. CASE parser.state # "s_body_identity_eof"
  <2> DEFINE e == IF parser.state \in {"s_dead", "s_start_req_or_res", "s_start_res", "s_start_req"}
                  THEN parser.http_errno ELSE "HPE_INVALID_EOF_STATE"
  <2>1. /\ parser' = [parser EXCEPT !.left = TRUE, !.http_errno = e]
        /\ ended' = {} /\ last' = last
    BY <1>9 DEF Eof
  <2>2. e # "assert"
    BY <1>1
  <2> HIDE DEF e
  <2>3. /\ IsParser(parser') /\ parser'.effects = <<>> /\ parser'.http_errno = e
        /\ parser'.left = TRUE
    BY <1>6, <2>1, <2>2, Zenon
  <2>4. Basic(Now')
    BY <1>4, <1>5, <2>1 DEF Basic
  <2>5. ~Reading'
    BY <2>3 DEF Reading
  <2>6. parser'.http_errno # "assert"
    BY <2>2, <2>3
  <2> QED BY <2>3, <2>4, <2>5, <2>6 DEF Inv
<1> QED BY <1>8, <1>9

LEMMA InitInv == Init => Inv
<1> SUFFICES ASSUME Init PROVE Inv
  OBVIOUS
<1>1. PICK t \in Types, a \in Answers : parser = http_parser_init(t, a)
  BY DEF Init
<1>2. /\ mark = NoMark /\ whole = NoMark /\ got = 0 /\ ended = {} /\ last = "none"
      /\ body = [got |-> 0, due |-> 0]
  BY DEF Init
<1> DEFINE s == CASE t = "HTTP_REQUEST" -> "s_start_req"
                  [] t = "HTTP_RESPONSE" -> "s_start_res"
                  [] OTHER -> "s_start_req_or_res"
<1>3. s \in Begin
  BY DEF Begin
<1> DEFINE p(x, v, w) ==
             [type |-> t, state |-> s, header_state |-> "h_general", flags |-> {},
              content_length |-> 0, method |-> "none", http11 |-> x, status_code |-> "none",
              upgrade |-> v, nread |-> 0, http_errno |-> "HPE_OK", on_headers_complete |-> a,
              left |-> w, effects |-> <<>>]
<1>4. ASSUME NEW x, NEW v, NEW w
      PROVE  LET q == p(x, v, w)
             IN  IsParser(q) /\ q.state = s /\ q.http_errno = "HPE_OK" /\ q.effects = <<>>
                 /\ q.nread = 0 /\ q.flags = {}
  <2> HIDE DEF s
  <2> QED BY HttpAssumption DEF IsParser
<1>5. parser = p(FALSE, FALSE, FALSE)
  BY <1>1, Zenon DEF http_parser_init
<1>6. /\ IsParser(parser) /\ parser.state = s /\ parser.http_errno = "HPE_OK"
      /\ parser.effects = <<>> /\ parser.nread = 0 /\ parser.flags = {}
  <2> HIDE DEF p
  <2> QED BY <1>4, <1>5, Zenon
<1> HIDE DEF s, p
<1>7. /\ Now.mark = NoMark /\ Now.whole = NoMark /\ Now.got = 0 /\ Now.ended = {}
      /\ Now.last = "none" /\ Now.body = 0
      /\ Now = [mark |-> Now.mark, whole |-> Now.whole, got |-> Now.got, ended |-> Now.ended,
                last |-> Now.last, body |-> Now.body]
  BY <1>2 DEF Now
<1>8. NoMark \in [Element -> Int] /\ \A e \in Element : NoMark[e] = -1
  BY DEF NoMark
<1>9. Basic(Now)
  BY <1>7, <1>8 DEF Basic
<1>10. After(parser, Now) = Now
  BY <1>6, HeardNone DEF After
<1>11. Clear(Now)
  BY <1>7, <1>8 DEF Clear, Off
<1>12. K(parser, Now)
  BY <1>6, <1>9, <1>10, HttpAssumption DEF K
<1>13. Post(parser, Now)
  BY <1>3, <1>6, <1>7, <1>10, <1>11, <1>12, FineBegin
<1>14. Rest(parser, Now)
  BY <1>6, <1>10, <1>13 DEF Post, Fine, Rest, RestView
<1>15. parser.http_errno # "assert"
  BY <1>6
<1> QED BY <1>6, <1>9, <1>14, <1>15 DEF Inv

LEMMA InvImplies == Inv => CallbacksFaithful
<1> SUFFICES ASSUME Inv PROVE CallbacksFaithful
  OBVIOUS
<1>1. IsParser(parser) /\ Basic(Now) /\ parser.http_errno # "assert"
  BY DEF Inv
<1>2. /\ Now.mark = mark /\ Now.got = got /\ Now.last = last /\ Now.ended = ended
      /\ Now.body = body.got
  BY DEF Now
<1>3. TypeOK
  BY <1>1, <1>2 DEF TypeOK, IsParser, Basic, Flags
<1>4. AssertsHold /\ PiecesCover /\ CallbackOrder
  BY <1>1, <1>2 DEF AssertsHold, PiecesCover, CallbackOrder, Basic
<1> QED BY <1>3, <1>4 DEF CallbacksFaithful

\* CallbacksFaithful holds for every text that peers send, every way to cut it
\* into buffers, every width of the lengths and every limit on the header: no
\* assertion of http_parser_execute fails, its callbacks come in the order of
\* a message, and their pieces add up to the whole of every element.
THEOREM CallbacksFaithfulAlways == MCSpec => []CallbacksFaithful
<1>1. MCInit => Inv
  BY InitInv DEF MCInit
<1>2. Inv /\ [MCNext]_<<vars, text, kind>> => Inv'
  <2> SUFFICES ASSUME Inv, [MCNext]_<<vars, text, kind>> PROVE Inv'
    OBVIOUS
  <2>1. CASE Next
    BY <2>1, SendInv, FeedInv, EndBufferInv, EofInv DEF Next
  <2>2. CASE UNCHANGED vars
    <3>1. /\ parser' = parser /\ mark' = mark /\ whole' = whole /\ got' = got /\ ended' = ended
          /\ last' = last /\ body' = body
      BY <2>2 DEF vars
    <3>2. Now' = Now /\ (Reading' => Reading)
      BY <3>1 DEF Now, Reading
    <3>3. (Reading => Rest(parser, Now)) /\ (Reading' => Rest(parser', Now'))
      BY <3>1, <3>2 DEF Inv
    <3> QED BY <3>1, <3>2, <3>3 DEF Inv
  <2> QED BY <2>1, <2>2 DEF MCNext
<1> QED BY <1>1, <1>2, InvImplies, PTL DEF MCSpec
=============================================================================
