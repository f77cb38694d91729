---------------------------- MODULE Http11Table ----------------------------
(***************************************************************************)
(* The automaton of http11_parser.cc, which Ragel generated from           *)
(* http11_parser.rl: its states, and in each the bytes that lead on, where *)
(* to, and the actions on the way (marks are set before they are used).    *)
(* Bytes that no state tells apart are one class, named by a member: "!"   *)
(* stands for ! $ & ' * _ and ~, "(" for ( ) , ; and =, "3" for the digits *)
(* 3 4 6 7 8 9, "A" and "a" for the other hexadecimal digits, "G" and "g"  *)
(* for the other letters, "ctl" for the other control characters, ` and |. *)
(* A state is the number its case label has; 0 is the error state.  The    *)
(* operators with a parameter o describe a part of the automaton that the  *)
(* generated code holds twice, the second time with numbers o higher.      *)
(***************************************************************************)
EXTENDS Integers

Digit == {"0", "1", "2", "3", "5"}
Upper == {"A", "G", "H", "P", "T"}
Lower == {"a", "g", "v"}
Alpha == Upper \cup Lower
Af == {"A", "a"}
Hex == Digit \cup Af
Ctl == {"ctl", "x02", "x03", "x04", "x05", "x06", "VT"}
Loose == {"^", "lbrace", "rbrace"}
Bytes == {"NUL", "TAB", "LF", "CR", "SP", "!", "quote", "#", "%", "(", "+",
          "-", ".", "/", ":", "<", ">", "?", "@", "[", "]", "DEL", "x80"}
         \cup Digit \cup Alpha \cup Ctl \cup Loose

\* What a name of a URI is made of.  "relaxed" stands for Loose while
\* uri_relaxed is set.
Sub == {"!", "(", "relaxed"}
Uri == Sub \cup {"+", "-", "."} \cup Digit \cup Alpha
FieldChar == {"LF", "CR", "!", "#", "%", "+", "-", ".", "^"}
             \cup Ctl \cup Digit \cup Alpha

Rule(on, to, do) == [on |-> on, to |-> to, do |-> do]
To(on, to) == Rule(on, to, {})

\* State n has these rules.
From(n, rules) == {[from |-> n, rule |-> r] : r \in rules}

\* State n takes the byte to state to.
Char(n, on, to) == From(n, {To(on, to)})

\* %XX: the first digit is read in state n.
Escape(n, to) == Char(n, Hex, n + 1) \cup Char(n + 1, Hex, to)

\* Mutant: a path in front of a fragment is not handed over.
EndsNoPath(before) ==
  {Rule({"SP"}, 4, before \cup {"request_path", "request_uri"}),
   Rule({"#"}, 20, before), Rule({"?"}, 29, before \cup {"request_path"})}

\* The end of the path; before: what is done first, if it is empty.
Ends(before) ==
  {Rule({"SP"}, 4, before \cup {"request_path", "request_uri"}),
   Rule({"#"}, 20, before \cup {"request_path", "request_uri"}),
   Rule({"?"}, 29, before \cup {"request_path"})}

-----------------------------------------------------------------------------
(* The request line *)

MethodStart ==
  From(1, {Rule(Digit \cup Upper, 2, {"mark"}), Rule({"<"}, 194, {"mark"}),
         Rule({"@"}, 198, {"mark"})}) \cup
  From(2, {Rule({"SP"}, 3, {"request_method"}), To(Digit \cup Upper, 175)})

\* A method has at most twenty characters.
MethodRest ==
  UNION {From(n, {Rule({"SP"}, 3, {"request_method"})}
                   \cup (IF n < 193 THEN {To(Digit \cup Upper, n + 1)} ELSE {})) :
         n \in 175 .. 193}

UriStart == From(3, Ends({"mark"}) \cup
       {Rule((Uri \ Alpha) \cup {"@"}, 19, {"mark"}), Rule({"%"}, 24, {"mark"}),
        Rule({"/"}, 33, {"mark"}), Rule(Alpha, 173, {"mark"})})

RelativePath ==
  From(19, Ends({}) \cup {To(Uri \cup {"@"}, 19), To({"%"}, 24), To({"/"}, 26)}) \cup
  Escape(24, 19)

Scheme ==
  From(173, Ends({}) \cup
     {To(Sub \cup {"@"}, 19), To({"%"}, 24), To({"/"}, 26), To({":"}, 174),
      To({"+", "-", "."} \cup Digit \cup Alpha, 173)}) \cup
  From(174, Ends({"mark"}) \cup
     {Rule(Uri \cup {":", "@", "x80"}, 26, {"mark"}), Rule({"%"}, 27, {"mark"}),
      Rule({"/"}, 33, {"mark"})})

Path ==
  From(26, Ends({}) \cup {To(Uri \cup {":", "@", "/", "x80"}, 26), To({"%"}, 27)}) \cup
  Escape(27, 26)

Query ==
  LET Q(before) ==
        {Rule({"SP"}, 4, before \cup {"query_string", "request_uri"}),
         Rule({"#"}, 20, before \cup {"query_string", "request_uri"})}
      Pchar == Uri \cup {":", "@", "/", "?", "x80"}
  IN  From(29, Q({"start_query"}) \cup
         {Rule(Pchar, 30, {"start_query"}), Rule({"%"}, 31, {"start_query"})}) \cup
      From(30, Q({}) \cup {To(Pchar, 30), To({"%"}, 31)}) \cup Escape(31, 30)

Fragment ==
  LET Pchar == Uri \cup {":", "@", "/", "?", "x80"}
  IN  From(20, {Rule({"SP"}, 4, {"mark", "fragment"}), Rule(Pchar, 21, {"mark"}),
              Rule({"%"}, 22, {"mark"})}) \cup
      From(21, {Rule({"SP"}, 4, {"fragment"}), To(Pchar, 21), To({"%"}, 22)}) \cup
      Escape(22, 21)

-----------------------------------------------------------------------------
(* "//" host ":" port.  Exits: what may follow in place of the host. *)

Slashes ==
  From(33, Ends({}) \cup {To(Uri \cup {":", "@", "x80"}, 26), To({"%"}, 27),
                          To({"/"}, 34)}) \cup
  From(34, Ends({}) \cup {To(Uri, 35), To({"%"}, 36), To({"/"}, 26), To({":"}, 38),
                          To({"@"}, 42), To({"["}, 47)})

RegName ==
  From(35, Ends({}) \cup {To(Uri, 35), To({"%"}, 36), To({"/"}, 26), To({":"}, 38),
                          To({"@"}, 42)}) \cup Escape(36, 35)

PortOrUserInfo ==
  From(38, Ends({}) \cup {To((Uri \ Digit) \cup {":"}, 39), To({"%"}, 40),
                          To({"/"}, 26), To(Digit, 38), To({"@"}, 42)}) \cup
  From(39, {To(Uri \cup {":"}, 39), To({"%"}, 40), To({"@"}, 42)}) \cup Escape(40, 39)

Host ==
  From(42, Ends({}) \cup {To(Uri, 43), To({"%"}, 44), To({"/"}, 26), To({":"}, 46),
                          To({"["}, 47)}) \cup
  From(43, Ends({}) \cup {To(Uri, 43), To({"%"}, 44), To({"/"}, 26), To({":"}, 46)}) \cup
  Escape(44, 43) \cup
  From(46, Ends({}) \cup {To({"/"}, 26), To(Digit, 46)})

-----------------------------------------------------------------------------
(* "[" an IP literal "]", as the generated states read it *)

\* Up to three more hexadecimal digits and a colon; state n has read one.
Group(n, colon) ==
  UNION {From(s, {To({":"}, colon)} \cup (IF s < n + 3 THEN {To(Hex, s + 1)} ELSE {})) :
         s \in n .. n + 3}

LiteralStart(o) ==
  From(47 + o, {To({"x06"}, 48 + o), To(Hex, 91 + o), To({":"}, 167 + o),
              To({"v"}, 169 + o)}) \cup
  Char(48 + o, Hex, 49 + o) \cup Group(49 + o, 53 + o)

\* What may begin a group or the first number of an IPv4 address: hexadecimal
\* states from h, decimal ones from one and two, and the state of a letter.
First(o, h, one, two, letter) ==
  {To({"0", "3", "5"}, h + o), To({"1"}, one + o), To({"2"}, two + o),
   To(Af, letter + o)}

\* The group from state h on, h having read a digit that may also be the
\* number of an address; more: what else may follow.
HexDigits(o, h, next, colon, more) ==
  UNION {From(s, more \cup {To({":"}, colon + o)}
                   \cup (IF s = h + o THEN {To({"."}, 55 + o), To(Hex, next + o)}
                         ELSE IF s < next + o + 2 THEN {To(Hex, s + 1)} ELSE {})) :
         s \in {h + o} \cup (next + o .. next + o + 2)}

\* Numbers that begin with 1 (states from one) or with 2 (states from two).
DecDigits(o, one, two, next, colon, more) ==
  LET Dot == {To({"."}, 55 + o)}
      Always == more \cup {To({":"}, colon + o)}
  IN  From(one + o, Always \cup Dot \cup {To(Digit, one + o + 1), To(Af, next + o)}) \cup
      From(one + o + 1, Always \cup Dot
                        \cup {To(Digit, one + o + 2), To(Af, next + o + 1)}) \cup
      From(one + o + 2, Always \cup Dot \cup {To(Hex, next + o + 2)}) \cup
      From(two + o, Always \cup Dot \cup
         {To({"0"}, two + o + 1), To({"5"}, two + o + 2),
          To(Hex \ {"0", "5"}, next + o)}) \cup
      From(two + o + 1, Always \cup {To(Digit, one + o + 2), To(Af, next + o + 1)}) \cup
      From(two + o + 2, Always \cup
         {To({"0"}, one + o + 2), To(Hex \ {"0"}, next + o + 1)}) \cup
      From(two + o + 3, Always \cup {To(Hex, next + o)})

\* One number of an IPv4 address, read from state start on.
Octet(start, one, two, full, dot, next) ==
  From(start, {To({"0", "3", "5"}, full), To({"1"}, one), To({"2"}, two)}) \cup
  Char(full, dot, next) \cup
  From(one, {To(dot, next), To(Digit, one + 1)}) \cup
  From(one + 1, {To(dot, next), To(Digit, full)}) \cup
  From(two, {To(dot, next), To({"0"}, two + 1), To({"5"}, two + 2)}) \cup
  Char(two + 1, Digit, full) \cup Char(two + 2, {"0"}, full)

SecondOctet(o) == Octet(55 + o, 72 + o, 74 + o, 56 + o, {"."}, 57 + o)
ThirdOctet(o) == Octet(57 + o, 67 + o, 69 + o, 58 + o, {"."}, 59 + o)
LastOctet(o) == Octet(59 + o, 62 + o, 64 + o, 60 + o, {"]"}, 61 + o)

\* The last two groups, or an address, after the byte 6.
LowStart(o) == From(53 + o, First(o, 54, 84, 87, 90))
LowDigits(o) == HexDigits(o, 54, 77, 80, {})
LowDecimals(o) == DecDigits(o, 84, 87, 77, 80, {})
LastGroup(o) ==
  Char(80 + o, Hex, 81 + o) \cup
  UNION {From(s, {To({"]"}, 61 + o), To(Hex, IF s = 83 + o THEN 60 + o ELSE s + 1)}) :
         s \in 81 + o .. 83 + o}

\* Groups one after the other: a colon more leaves the row for "::".
Between(o, s, beyond) == From(s + o, {To(Hex, s + o + 1), To({":"}, beyond + o)})

FirstGroups(o) ==
  Group(91 + o, 95 + o) \cup Between(o, 95, 166) \cup
  Group(96 + o, 100 + o) \cup Between(o, 100, 165)
MiddleGroups(o) ==
  Group(101 + o, 105 + o) \cup Between(o, 105, 164) \cup
  Group(106 + o, 110 + o) \cup Between(o, 110, 163)
LastGroups(o) ==
  Group(111 + o, 115 + o) \cup Between(o, 115, 151) \cup
  Group(116 + o, 120 + o) \cup Between(o, 120, 150)
MoreGroups(o) ==
  Group(121 + o, 125 + o) \cup From(125 + o, {To(Hex, 121 + o), To({":"}, 126 + o)})

\* After "::": nothing, a group or an address, with or without groups before.
Close(o) == {To({"]"}, 61 + o)}
Elided(o) == From(126 + o, Close(o) \cup {To({"x02", "x03"}, 48 + o)}
               \cup First(o, 127, 143, 146, 149))
ElidedDigits(o) == HexDigits(o, 127, 128, 131, Close(o))
ElidedDecimals(o) == DecDigits(o, 143, 146, 128, 131, Close(o))
SecondDigits(o) ==
  From(131 + o, First(o, 132, 136, 139, 142)) \cup HexDigits(o, 132, 133, 80, Close(o))
SecondDecimals(o) == DecDigits(o, 136, 139, 133, 80, Close(o))
ElidedOne(o) ==
  From(150 + o, {To({"x02", "x03"}, 48 + o)} \cup First(o, 127, 143, 146, 149)) \cup
  From(151 + o, {To({"x02", "x03"}, 48 + o)} \cup First(o, 152, 156, 159, 162))
    \cup HexDigits(o, 152, 153, 131, {})
ElidedOneDecimals(o) == DecDigits(o, 156, 159, 153, 131, {})
ElidedMore(o) ==
  From(163 + o, {To({"x02", "x03"}, 48 + o), To(Hex, 49 + o)}) \cup
  Char(164 + o, {"x02", "x03"}, 48 + o) \cup Char(165 + o, {"x03"}, 48 + o) \cup
  Char(166 + o, {"x04"}, 48 + o) \cup Char(167 + o, {":"}, 168 + o) \cup
  From(168 + o, Close(o) \cup {To({"x02", "x03", "x04", "x05"}, 48 + o)}
                \cup First(o, 127, 143, 146, 149))
FutureAddress(o) ==
  Char(169 + o, Hex, 170 + o) \cup
  From(170 + o, {To({"."}, 171 + o), To(Hex, 170 + o)}) \cup
  Char(171 + o, Uri \cup {":"}, 172 + o) \cup
  From(172 + o, Close(o) \cup {To(Uri \cup {":"}, 172 + o)})

AfterLiteral == From(61, Ends({}) \cup {To({"/"}, 26), To({":"}, 46)})

Literal ==
  LiteralStart(0) \cup SecondOctet(0) \cup ThirdOctet(0) \cup LastOctet(0) \cup
  LowStart(0) \cup LowDigits(0) \cup LowDecimals(0) \cup LastGroup(0) \cup
  FirstGroups(0) \cup MiddleGroups(0) \cup LastGroups(0) \cup MoreGroups(0) \cup
  Elided(0) \cup ElidedDigits(0) \cup ElidedDecimals(0) \cup SecondDigits(0) \cup
  SecondDecimals(0) \cup ElidedOne(0) \cup ElidedOneDecimals(0) \cup ElidedMore(0) \cup
  FutureAddress(0) \cup AfterLiteral

-----------------------------------------------------------------------------
(* The version and the header *)

Version ==
  From(4, {Rule({"H"}, 5, {"mark"})}) \cup Char(5, {"T"}, 6) \cup Char(6, {"T"}, 7) \cup
  Char(7, {"P"}, 8) \cup Char(8, {"/"}, 9) \cup Char(9, {"1"}, 10) \cup
  Char(10, {"."}, 11) \cup Char(11, {"0", "1"}, 12) \cup
  From(12, {Rule({"LF"}, 13, {"http_version"}), Rule({"CR"}, 17, {"http_version"})})

FieldName ==
  From(13, {Rule(FieldChar \ {"LF", "CR"}, 14, {"start_field"}),
          Rule({"LF"}, 348, {"start_field", "done"}),
          Rule({"CR"}, 18, {"start_field"})}) \cup
  From(14, {To(FieldChar, 14), Rule({":"}, 15, {"write_field"})})

FieldValue ==
  LET Field(before) ==
        {Rule({"LF"}, 13, before \cup {"http_field"}), Rule({"CR"}, 17, before \cup {"http_field"})}
  IN  From(15, Field({"mark"}) \cup
         {Rule({"TAB", "SP"}, 15, {"mark"}),
          Rule(Bytes \ {"NUL", "TAB", "LF", "CR", "SP", "DEL"}, 16, {"mark"})}) \cup
      From(16, Field({}) \cup {To(Bytes \ {"NUL", "LF", "CR", "DEL"}, 16)}) \cup
      Char(17, {"LF"}, 13)

\* A line that begins with CR or, behind the header, with LF may still turn
\* out to be a field.
EmptyLine ==
  From(18, {To(FieldChar \ {"LF"}, 14), Rule({"LF"}, 348, {"done"}),
          Rule({":"}, 15, {"write_field"})}) \cup
  From(348, {To(FieldChar, 14), Rule({":"}, 15, {"write_field"})})

-----------------------------------------------------------------------------
(* The two other protocols of Mongrel2: XML and JSON messages that end in NUL *)

XmlSocket ==
  Char(194, {"-", "."} \cup Digit \cup Alpha, 195) \cup
  From(195, {Rule({"TAB", "LF", "VT", "CR", "SP", "/", ">"}, 196, {"request_path"}),
           To({"-", "."} \cup Digit \cup Alpha, 195)}) \cup
  From(196, {To(Bytes \ {">"}, 196), To({">"}, 197)}) \cup
  From(197, {Rule({"NUL"}, 349, {"xml_sent", "done"}), To(Bytes \ {"NUL", ">"}, 196),
           To({">"}, 197)}) \cup
  From(349, {})

JsonPath == {Rule({"SP"}, 199, {"request_path"})}

JsonStart ==
  From(198, JsonPath \cup {To(Uri \cup {"@"}, 202), To({"%"}, 203), To({"/"}, 208)}) \cup
  From(199, {Rule({"lbrace"}, 200, {"mark"})}) \cup
  From(200, {To(Bytes \ {"rbrace"}, 200), To({"rbrace"}, 201)}) \cup
  From(201, {Rule({"NUL"}, 349, {"json_sent", "done"}), To(Bytes \ {"NUL", "rbrace"}, 200),
           To({"rbrace"}, 201)})

JsonRelative ==
  From(202, JsonPath \cup {To(Uri \cup {"@"}, 202), To({"%"}, 203), To({"/"}, 205)}) \cup
  Escape(203, 202) \cup
  From(205, JsonPath \cup {To(Uri \cup {":", "@", "/", "x80"}, 205), To({"%"}, 206)}) \cup
  Escape(206, 205)

JsonSlashes ==
  From(208, JsonPath \cup {To(Uri \cup {":", "@", "x80"}, 205), To({"%"}, 206),
                         To({"/"}, 209)}) \cup
  From(209, JsonPath \cup {To(Uri, 210), To({"%"}, 211), To({"/"}, 205), To({":"}, 213),
                         To({"@"}, 217), To({"["}, 222)}) \cup
  From(210, JsonPath \cup {To(Uri, 210), To({"%"}, 211), To({"/"}, 205), To({":"}, 213),
                         To({"@"}, 217)}) \cup Escape(211, 210)

JsonPortOrUserInfo ==
  From(213, JsonPath \cup {To((Uri \ Digit) \cup {":"}, 214), To({"%"}, 215),
                         To({"/"}, 205), To(Digit, 213), To({"@"}, 217)}) \cup
  From(214, {To(Uri \cup {":"}, 214), To({"%"}, 215), To({"@"}, 217)}) \cup
  Escape(215, 214)

JsonHost ==
  From(217, JsonPath \cup {To(Uri, 218), To({"%"}, 219), To({"/"}, 205), To({":"}, 221),
                         To({"["}, 222)}) \cup
  From(218, JsonPath \cup {To(Uri, 218), To({"%"}, 219), To({"/"}, 205), To({":"}, 221)})
    \cup Escape(219, 218) \cup
  From(221, JsonPath \cup {To({"/"}, 205), To(Digit, 221)})

JsonAfterLiteral == From(236, JsonPath \cup {To({"/"}, 205), To({":"}, 221)})

\* The literal again.
JsonLiteralStart == LiteralStart(175) \cup LowStart(175)
JsonOctets == SecondOctet(175) \cup ThirdOctet(175) \cup LastOctet(175)
JsonLowGroups == LowDigits(175) \cup LastGroup(175)
JsonLowDecimals == LowDecimals(175)
JsonFirstGroups == FirstGroups(175)
JsonMiddleGroups == MiddleGroups(175)
JsonLastGroups == LastGroups(175)
JsonMoreGroups == MoreGroups(175) \cup Elided(175) \cup ElidedDigits(175)
JsonSecondDigits == SecondDigits(175)
JsonSecondDecimals == SecondDecimals(175)
JsonElidedDecimals == ElidedDecimals(175)
JsonElidedOne == ElidedOne(175)
JsonElidedOneDecimals == ElidedOneDecimals(175)
JsonElidedMore == ElidedMore(175)
JsonFutureAddress == FutureAddress(175)

-----------------------------------------------------------------------------

Transitions ==
  MethodStart \cup MethodRest \cup UriStart \cup RelativePath \cup Scheme \cup Path \cup
  Query \cup Fragment \cup Slashes \cup RegName \cup PortOrUserInfo \cup Host \cup
  Literal \cup Version \cup FieldName \cup FieldValue \cup EmptyLine \cup XmlSocket \cup
  JsonStart \cup JsonRelative \cup JsonSlashes \cup JsonPortOrUserInfo \cup JsonHost \cup
  JsonLiteralStart \cup JsonOctets \cup JsonLowGroups \cup JsonLowDecimals \cup
  JsonFirstGroups \cup JsonMiddleGroups \cup JsonLastGroups \cup JsonMoreGroups \cup
  JsonSecondDigits \cup JsonSecondDecimals \cup JsonElidedDecimals \cup JsonElidedOne \cup
  JsonElidedOneDecimals \cup JsonElidedMore \cup JsonFutureAddress \cup JsonAfterLiteral

\* The end states 348 and 349 among them.
States == 1 .. 349

Delta == [n \in States |-> {t.rule : t \in {t \in Transitions : t.from = n}}]
=============================================================================
