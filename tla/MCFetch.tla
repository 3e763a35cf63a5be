------------------------------ MODULE MCFetch -------------------------------
(* Pages of two chunks of at most three bytes, three pages at most; every   *)
(* shape a reply may have, and replies of several pieces and of too many.   *)
EXTENDS Fetch

Text(enc, b) == [t |-> "text", text |-> [enc |-> enc, bytes |-> b, cut |-> FALSE]]
Cut(v) == [v EXCEPT !.text.cut = TRUE]
Numbers(b) == [t |-> "numbers", v |-> b]
List(e) == [t |-> "list", e |-> e]
Page(id, a, b) == [t |-> "page", id |-> id, chunks |-> [i \in 0 .. 1 |-> IF i = 0 THEN a ELSE b]]
Short(id, a) == [t |-> "page", id |-> id, chunks |-> [i \in {1} |-> a]]
Absent == [t |-> "absent"]
Null == [t |-> "null"]
Other == [t |-> "other"]

Zeros == <<0, 0, 0, 0, 0, 0>>
\* In base64 they are "abcd", which is hex, and "0xEC", which is data or hex by what follows.
Abcd == <<105, 183, 29>>
Marker == <<211, 17, 2>>
One == Numbers(<<1>>)
Two == Numbers(<<2>>)

\* Values the pages key may hold.
Elements ==
  {Numbers(<<1, 2>>), Numbers(<<1, 256>>), Numbers(Zeros), Text("hex", Zeros), Text("base64", Zeros),
   Text("hex", <<1, 2>>), Cut(Text("hex", <<1, 2>>)), Text("base64", <<1, 2>>), Text("neither", <<1>>),
   Text("marked", <<1, 2>>), Text("marked", <<>>), Text("raw", <<1, 2>>), Text("base64", Abcd),
   Text("base64", Marker \o <<2, 3, 4>>), Text("raw", Marker \o <<100>>), Text("raw", Marker \o <<16>>),
   Page({}, One, Two), Page({0}, One, Two), Page({1}, Text("hex", <<2>>), One),
   Page({0}, Two, Two), Page({2}, Two, One), Page({1}, Other, One), Short({1}, One), Other}
Values ==
  {List(<<a>>) : a \in Elements} \cup {List(<<a, b>>) : a, b \in Elements}
    \cup {List(<<Page({2}, One, One), Page({0}, Two, One), Page({1}, Two, Two)>>),
          List(<<One, One, One, One>>), List(<<>>), Other, Absent}
    \cup {Text(enc, b) : enc \in {"hex", "base64", "raw"}, b \in {<<1, 2>>, <<1, 2, 3, 4>>, <<1, 2, 3, 4, 5>>, Zeros}}
    \cup {Cut(Text("base64", <<1, 2>>)), Cut(Text("base64", <<1>>)), Cut(Text("base64", <<1, 2, 3>>)),
          Cut(Text("raw", <<1, 2>>)), Cut(Text("raw", <<1>>)), Cut(Text("raw", Abcd)),
          Cut(Text("marked", <<1>>)), Text("marked", <<1>>), Text("hex", <<>>)}
    \cup {Numbers(b) : b \in {<<1>>, <<1, 2, 3, 4, 5>>, <<1, 2, 300>>, [i \in 1 .. 13 |-> i]}}

Object(a, b, c, size, crc) ==
  [t |-> "object", app_bin |-> a, app_bin_data |-> b, firmware |-> c, page_size |-> size,
   crc |-> crc, app_version |-> <<"c", "dot", "c">>, version |-> <<"dot">>]
Plain(v) == Object(v, Absent, Absent, 0, {7})
Simple == List(<<Numbers(<<1, 2>>)>>)

\* A version of each kind: clean, to be cleaned, too long, and cut at one, two or more blanks.
Versions ==
  {<<>>, <<"esc">>, <<"blank", "c", "esc", "blank">>, <<"c", "blank", "c">>, <<"c", "c", "c", "c", "c">>,
   <<"c", "c", "c", "blank", "c">>, <<"c", "c", "blank", "blank", "c">>, <<"c", "blank", "blank", "blank", "c">>,
   <<"blank", "blank", "blank", "blank", "c">>, <<"blank", "c", "esc", "c", "c", "c", "c">>,
   <<"esc", "c", "dot", "c", "dot", "esc", "blank">>}
Dated(v, w) == [Plain(Simple) EXCEPT !.app_version = v, !.version = w]

Docs ==
  {Plain(v) : v \in Values} \cup {Dated(v, <<"c">>) : v \in Versions}
    \cup {Dated(<<>>, v) : v \in Versions} \cup {[t |-> "array", value |-> v] : v \in {Simple, Numbers(<<1, 2, 3>>), List(<<>>)}}
    \cup {Object(Null, Simple, Absent, 0, {}), Object(Absent, Null, Simple, 0, {0}),
          Object(Absent, Absent, Absent, 0, {}), Object(Simple, Absent, Absent, 0, {256})}
    \cup {Object(Numbers(<<1, 2, 3>>), Absent, Absent, n, {}) : n \in {2, 3, 6, 8}}
    \cup {Object(Numbers(<<1, 2, 3>>), Absent, Absent, -2, {}),
          [t |-> "raw", bytes |-> <<>>], [t |-> "raw", bytes |-> <<1, 2, 3>>], [t |-> "malformed"]}

AReply == Plain(List(<<Page({1}, One, Two), Page({0}, Two, One)>>))
TheReplies ==
  {[doc |-> d, size |-> 1] : d \in Docs} \cup {[doc |-> AReply, size |-> n] : n \in {3, 4}}
TheOld == Plain(Simple)
TheTorn == [t |-> "malformed"]
=============================================================================
