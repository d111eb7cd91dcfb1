---------------------------- MODULE RequestsProof ----------------------------
(***************************************************************************)
(* Proofs about Requests, for any words, numerals and lines of any number  *)
(* of tokens: that the parser accepts the manual's table and nothing else, *)
(* and the invariant IInv of the LED and the light sensor, with one step   *)
(* per action.                                                             *)
(***************************************************************************)
EXTENDS Requests, SequenceTheorems, TLAPS

-----------------------------------------------------------------------------
(* The command table *)

LEMMA EntryFields ==
  \A d, a, c, arg, lo, hi :
    /\ Entry(d, a, c, arg, lo, hi).device = d
    /\ Entry(d, a, c, arg, lo, hi).action = a
    /\ Entry(d, a, c, arg, lo, hi).command = c
    /\ Entry(d, a, c, arg, lo, hi).arg = arg
    /\ Entry(d, a, c, arg, lo, hi).min = lo
    /\ Entry(d, a, c, arg, lo, hi).max = hi
BY DEF Entry

LEMMA ParsedFields ==
  \A c, v, str :
    /\ Parsed(c, v, str).type = c /\ Parsed(c, v, str).value = v
    /\ Parsed(c, v, str).str = str
    /\ Rejected(c).type = c
BY DEF Parsed, Rejected

(* The entries without an argument are the manual's lines of one or two    *)
(* words.                                                                  *)
PlainDocumented(s) ==
  /\ s.command \notin Rejection \cup {"BUZZER_MUSIC", "LED_ON_BRIGHT",
                                      "BUZZER_BEEP", "SEG_DISPLAY"}
  /\ IF s.action = NoToken THEN <<<<s.device>>, s.command>> \in Documented
     ELSE <<<<s.device, s.action>>, s.command>> \in Documented

(* Those with a number are its lines with a number in the same range.      *)
IntDocumented(s) ==
  /\ s.command \in {"LED_ON_BRIGHT", "BUZZER_BEEP", "SEG_DISPLAY"}
  /\ s.min \in Nat /\ s.max \in Nat
  /\ s.action # NoToken
  /\ \A n \in In(s.min .. s.max) :
       <<<<s.device, s.action, n>>, s.command>> \in Documented

StringDocumented(s) ==
  s.command = "BUZZER_MUSIC" /\ s.device = "BUZZER" /\ s.action = "MUSIC"

LEMMA TableIsDocumented ==
  ASSUME NEW s \in command_specs
  PROVE  /\ s.device # NoToken
         /\ \/ s.arg = "NONE" /\ PlainDocumented(s)
            \/ s.arg = "INT" /\ IntDocumented(s)
            \/ s.arg = "STRING" /\ StringDocumented(s)
<1>1. ASSUME NEW d, NEW a, NEW c, s = Plain(d, a, c),
             \/ a = NoToken /\ <<d, c>> \in {<<"HELP", "HELP">>,
                  <<"STATUS", "STATUS">>, <<"QUIT", "QUIT">>}
             \/ a # NoToken /\ <<d, a, c>> \in {<<"PLUGIN", "LIST", "PLUGIN_LIST">>,
                  <<"DEVICE", "LIST", "PLUGIN_LIST">>, <<"LED", "ON", "LED_ON">>,
                  <<"LED", "OFF", "LED_OFF">>, <<"BUZZER", "ON", "BUZZER_ON">>,
                  <<"BUZZER", "OFF", "BUZZER_OFF">>,
                  <<"LIGHT", "READ", "LIGHT_READ">>,
                  <<"SEG", "CLEAR", "SEG_CLEAR">>}
      PROVE  s.device # NoToken /\ s.arg = "NONE" /\ PlainDocumented(s)
  <2>1. s.device = d /\ s.action = a /\ s.command = c /\ s.arg = "NONE"
    BY <1>1, EntryFields DEF Plain
  <2>2. CASE a = NoToken
    BY <1>1, <2>1, <2>2 DEF PlainDocumented, Documented, Rejection, NoToken
  <2>3. CASE a # NoToken
    BY <1>1, <2>1, <2>3 DEF PlainDocumented, Documented, Rejection, NoToken
  <2>4. QED
    BY <2>1, <2>2, <2>3
<1>2. ASSUME NEW d, NEW a, NEW c, NEW lo \in Nat, NEW hi \in Nat,
             s = WithInt(d, a, c, lo, hi),
             <<d, a, c, lo, hi>> \in {
               <<"LED", "BRIGHT", "LED_ON_BRIGHT", 0, 255>>,
               <<"BUZZER", "BEEP", "BUZZER_BEEP", 1, 10000>>,
               <<"SEG", "DISPLAY", "SEG_DISPLAY", 0, 9>>}
      PROVE  s.device # NoToken /\ s.arg = "INT" /\ IntDocumented(s)
  <2>1. /\ s.device = d /\ s.action = a /\ s.command = c /\ s.arg = "INT"
        /\ s.min = lo /\ s.max = hi
    BY <1>2, EntryFields DEF WithInt
  <2>2. d # NoToken /\ a # NoToken
        /\ c \in {"LED_ON_BRIGHT", "BUZZER_BEEP", "SEG_DISPLAY"}
    BY <1>2 DEF NoToken
  <2>3. ASSUME NEW n \in In(lo..hi)
        PROVE  <<<<d, a, n>>, c>> \in Documented
    <3>1. CASE c = "LED_ON_BRIGHT"
      BY <1>2, <3>1 DEF Documented
    <3>2. CASE c = "BUZZER_BEEP"
      BY <1>2, <3>2 DEF Documented
    <3>3. CASE c = "SEG_DISPLAY"
      BY <1>2, <3>3 DEF Documented
    <3>4. QED
      BY <2>2, <3>1, <3>2, <3>3
  <2>4. QED
    BY <2>1, <2>2, <2>3 DEF IntDocumented
<1>3. CASE s = WithString("BUZZER", "MUSIC", "BUZZER_MUSIC")
  BY <1>3, EntryFields DEF WithString, StringDocumented, NoToken
<1>4. QED
  BY <1>1, <1>2, <1>3 DEF command_specs, NoToken

-----------------------------------------------------------------------------
(* The parser *)

LEMMA Tokens ==
  ASSUME NEW l \in Seq(Word), NEW i \in Nat \ {0}
  PROVE  /\ Token(l, i) = NoToken <=> Len(l) < i
         /\ Token(l, i) # NoToken => Token(l, i) = l[i] /\ l[i] \in Word
BY CommandConstants DEF Token

LEMMA LenIs ==
  ASSUME NEW l \in Seq(Word)
  PROVE  /\ Len(l) >= 1 /\ Len(l) < 2 => Len(l) = 1
         /\ Len(l) >= 2 /\ Len(l) < 3 => Len(l) = 2
         /\ Len(l) >= 3 /\ Len(l) < 4 => Len(l) = 3
         /\ Len(l) >= 3 => Len(l) > 3 \/ Len(l) = 3
<1>1. Len(l) \in Nat
  OBVIOUS
<1>2. \A k \in Nat : /\ k >= 1 /\ k < 2 => k = 1
                     /\ k >= 2 /\ k < 3 => k = 2
                     /\ k >= 3 /\ k < 4 => k = 3
                     /\ k >= 3 => k > 3 \/ k = 3
  OBVIOUS
<1>3. QED
  BY <1>1, <1>2, Zenon

LEMMA Tuples ==
  ASSUME NEW l \in Seq(Word)
  PROVE  /\ Len(l) = 1 => l = <<l[1]>>
         /\ Len(l) = 2 => l = <<l[1], l[2]>>
         /\ Len(l) = 3 => l = <<l[1], l[2], l[3]>>
         /\ Len(l) > 3 => SubSeq(l, 1, 3) = <<l[1], l[2], l[3]>>
<1>1. ASSUME NEW k \in Seq(Word), Len(k) = 3 PROVE k = <<k[1], k[2], k[3]>>
  BY <1>1
<1>2. CASE Len(l) = 1
  <2> l[1] \in Word
    BY <1>2
  <2>1. <<l[1]>> \in Seq(Word) /\ Len(<<l[1]>>) = 1
    BY <1>2
  <2>2. \A i \in 1..Len(l) : l[i] = <<l[1]>>[i]
    BY <1>2
  <2>3. QED
    BY <1>2, <2>1, <2>2, SeqEqual
<1>3. CASE Len(l) = 2
  <2> l[1] \in Word /\ l[2] \in Word
    BY <1>3
  <2>1. <<l[1], l[2]>> \in Seq(Word) /\ Len(<<l[1], l[2]>>) = 2
    BY <1>3
  <2>2. \A i \in 1..Len(l) : l[i] = <<l[1], l[2]>>[i]
    BY <1>3
  <2>3. QED
    BY <1>3, <2>1, <2>2, SeqEqual
<1>4. CASE Len(l) > 3
  <2>1. PICK k : k = SubSeq(l, 1, 3)
    OBVIOUS
  <2>2. /\ k \in Seq(Word) /\ Len(k) = 3
        /\ k[1] = l[1] /\ k[2] = l[2] /\ k[3] = l[3]
    BY <1>4, <2>1
  <2>3. k = <<k[1], k[2], k[3]>>
    BY <1>1, <2>2
  <2>4. QED
    BY <1>4, <2>1, <2>2, <2>3
<1>5. QED
  BY <1>1, <1>2, <1>3, <1>4

(* A line is accepted by an entry of the table, as its command, with the   *)
(* argument that the entry calls for.                                      *)
LEMMA AcceptedBy ==
  ASSUME NEW l \in Seq(Word), command_parse(l).type \notin Rejection
  PROVE  /\ ~TooLong(l)
         /\ \E s \in Matching(l) :
              /\ command_parse(l).type = s.command
              /\ \/ s.arg = "NONE" /\ Token(l, 3) = NoToken
                 \/ /\ s.arg = "INT" /\ Token(l, 4) = NoToken
                    /\ IntArg(Token(l, 3), s)
                    /\ command_parse(l).value = ValueOf[Token(l, 3)]
                 \/ /\ s.arg = "STRING" /\ Token(l, 3) # NoToken
                    /\ command_parse(l).str = Token(l, 3)
<1>1. {"EMPTY", "INVALID", "INVALID_VALUE"} \subseteq Rejection
  BY DEF Rejection
<1>2. ~TooLong(l) /\ l # << >> /\ Matching(l) # {}
  BY <1>1, ParsedFields DEF command_parse
<1>3. PICK s \in Matching(l) : command_parse(l) = WithArguments(s, l)
  BY <1>2 DEF command_parse
<1>4. s.arg \in {"NONE", "INT", "STRING"}
  BY TableIsDocumented DEF Matching
<1>5. CASE s.arg = "NONE"
  BY <1>1, <1>2, <1>3, <1>5, ParsedFields DEF WithArguments
<1>6. CASE s.arg = "INT"
  BY <1>1, <1>2, <1>3, <1>6, ParsedFields DEF WithArguments
<1>7. CASE s.arg = "STRING"
  BY <1>1, <1>2, <1>3, <1>7, ParsedFields DEF WithArguments
<1>8. QED
  BY <1>4, <1>5, <1>6, <1>7

(* The brightness of an accepted line. *)
LEMMA BrightValue ==
  ASSUME NEW l \in Seq(Word), command_parse(l).type = "LED_ON_BRIGHT"
  PROVE  command_parse(l).value = ValueOf[l[3]] /\ ValueOf[l[3]] \in 0..255
<1>1. command_parse(l).type \notin Rejection
  BY DEF Rejection
<1>2. PICK s \in Matching(l) :
              /\ command_parse(l).type = s.command
              /\ \/ s.arg = "NONE" /\ Token(l, 3) = NoToken
                 \/ /\ s.arg = "INT" /\ Token(l, 4) = NoToken
                    /\ IntArg(Token(l, 3), s)
                    /\ command_parse(l).value = ValueOf[Token(l, 3)]
                 \/ /\ s.arg = "STRING" /\ Token(l, 3) # NoToken
                    /\ command_parse(l).str = Token(l, 3)
  BY <1>1, AcceptedBy
<1>3. s \in command_specs /\ s.command = "LED_ON_BRIGHT"
  BY <1>2 DEF Matching
<1>4. s = WithInt("LED", "BRIGHT", "LED_ON_BRIGHT", 0, 255)
  BY <1>3, EntryFields DEF command_specs, Plain, WithInt, WithString
<1>5. s.arg = "INT" /\ s.min = 0 /\ s.max = 255
  BY <1>4, EntryFields DEF WithInt
<1>6. IntArg(Token(l, 3), s) /\ command_parse(l).value = ValueOf[Token(l, 3)]
  BY <1>2, <1>5
<1>7. Token(l, 3) \in Numeral
  BY <1>6 DEF IntArg
<1>8. Token(l, 3) = l[3]
  BY <1>7, Tokens, CommandConstants
<1>9. ValueOf[l[3]] \in Int /\ 0 <= ValueOf[l[3]] /\ ValueOf[l[3]] <= 255
  BY <1>5, <1>6, <1>7, <1>8, CommandConstants DEF IntArg
<1>10. command_parse(l).value = ValueOf[l[3]]
  BY <1>6, <1>8
<1>11. \A v \in Int : 0 <= v /\ v <= 255 => v \in 0..255
  OBVIOUS
<1>12. QED
  BY <1>9, <1>10, <1>11

(* No two entries begin with the same words.                               *)
LEMMA EntriesDiffer ==
  ASSUME NEW s \in command_specs, NEW t \in command_specs,
         s.device = t.device, s.action = t.action
  PROVE  s = t
BY EntryFields DEF command_specs, Plain, WithInt, WithString, NoToken

(* What an entry of the table asks of the words behind the first two.      *)
ArgumentsFit(s, l) ==
  \/ s.arg = "NONE" /\ Token(l, 3) = NoToken
  \/ s.arg = "INT" /\ Token(l, 4) = NoToken /\ IntArg(Token(l, 3), s)
  \/ s.arg = "STRING" /\ Token(l, 3) # NoToken

(* A line that fits an entry is parsed as that entry's command.            *)
LEMMA FittingIsAccepted ==
  ASSUME NEW l \in Seq(Word), NEW s \in Matching(l), l # << >>, ~TooLong(l),
         ArgumentsFit(s, l)
  PROVE  command_parse(l).type = s.command
<1>1. \A t \in Matching(l) : t = s
  BY EntriesDiffer DEF Matching
<1>2. (CHOOSE t \in Matching(l) : TRUE) = s
  BY <1>1
<1>3. command_parse(l) = WithArguments(s, l)
  BY <1>2 DEF command_parse
<1>4. CASE s.arg = "NONE"
  BY <1>3, <1>4, ParsedFields DEF WithArguments, ArgumentsFit
<1>5. CASE s.arg = "INT"
  BY <1>3, <1>5, ParsedFields DEF WithArguments, ArgumentsFit
<1>6. CASE s.arg = "STRING"
  BY <1>3, <1>6, ParsedFields DEF WithArguments, ArgumentsFit
<1>7. QED
  BY <1>4, <1>5, <1>6 DEF ArgumentsFit

(* The table has an entry for each kind of line of the manual.             *)
EntryFor(d, a, c, arg, lo, hi) ==
  \E s \in command_specs :
    /\ s.device = d /\ s.action = a /\ s.command = c /\ s.arg = arg
    /\ s.min = lo /\ s.max = hi

LEMMA ManualHasEntries ==
  /\ EntryFor("HELP", NoToken, "HELP", "NONE", 0, 0)
  /\ EntryFor("STATUS", NoToken, "STATUS", "NONE", 0, 0)
  /\ EntryFor("QUIT", NoToken, "QUIT", "NONE", 0, 0)
  /\ EntryFor("PLUGIN", "LIST", "PLUGIN_LIST", "NONE", 0, 0)
  /\ EntryFor("DEVICE", "LIST", "PLUGIN_LIST", "NONE", 0, 0)
  /\ EntryFor("LED", "ON", "LED_ON", "NONE", 0, 0)
  /\ EntryFor("LED", "OFF", "LED_OFF", "NONE", 0, 0)
  /\ EntryFor("BUZZER", "ON", "BUZZER_ON", "NONE", 0, 0)
  /\ EntryFor("BUZZER", "OFF", "BUZZER_OFF", "NONE", 0, 0)
  /\ EntryFor("LIGHT", "READ", "LIGHT_READ", "NONE", 0, 0)
  /\ EntryFor("SEG", "CLEAR", "SEG_CLEAR", "NONE", 0, 0)
  /\ EntryFor("LED", "BRIGHT", "LED_ON_BRIGHT", "INT", 0, 255)
  /\ EntryFor("BUZZER", "BEEP", "BUZZER_BEEP", "INT", 1, 10000)
  /\ EntryFor("SEG", "DISPLAY", "SEG_DISPLAY", "INT", 0, 9)
  /\ EntryFor("BUZZER", "MUSIC", "BUZZER_MUSIC", "STRING", 0, 0)
<1>1. \A d, a, c, arg, lo, hi :
        Entry(d, a, c, arg, lo, hi) \in command_specs
          => EntryFor(d, a, c, arg, lo, hi)
  BY EntryFields DEF EntryFor
<1>2. QED
  BY <1>1 DEF command_specs, Plain, WithInt, WithString

(* Lines of one, two and three words *)
LEMMA OneWord ==
  ASSUME NEW d, NEW c, EntryFor(d, NoToken, c, "NONE", 0, 0),
         <<d>> \in Seq(Word), ~TooLong(<<d>>)
  PROVE  command_parse(<<d>>).type = c
<1>1. PICK l \in Seq(Word) : l = <<d>>
  OBVIOUS
<1>2. l # << >> /\ Token(l, 1) = d /\ Token(l, 2) = NoToken /\ Token(l, 3) = NoToken
  BY <1>1 DEF Token
<1>3. PICK s \in command_specs : s.device = d /\ s.action = NoToken
        /\ s.command = c /\ s.arg = "NONE"
  BY DEF EntryFor
<1>4. s \in Matching(l) /\ ArgumentsFit(s, l)
  BY <1>2, <1>3 DEF Matching, ArgumentsFit
<1>5. QED
  BY <1>1, <1>2, <1>3, <1>4, FittingIsAccepted

LEMMA TwoWords ==
  ASSUME NEW d, NEW a, NEW c, EntryFor(d, a, c, "NONE", 0, 0),
         <<d, a>> \in Seq(Word), ~TooLong(<<d, a>>)
  PROVE  command_parse(<<d, a>>).type = c
<1>1. PICK l \in Seq(Word) : l = <<d, a>>
  OBVIOUS
<1>2. l # << >> /\ Token(l, 1) = d /\ Token(l, 2) = a /\ Token(l, 3) = NoToken
  BY <1>1 DEF Token
<1>3. PICK s \in command_specs : s.device = d /\ s.action = a
        /\ s.command = c /\ s.arg = "NONE"
  BY DEF EntryFor
<1>4. s \in Matching(l) /\ ArgumentsFit(s, l)
  BY <1>2, <1>3 DEF Matching, ArgumentsFit
<1>5. QED
  BY <1>1, <1>2, <1>3, <1>4, FittingIsAccepted

LEMMA ThreeWords ==
  ASSUME NEW l \in Seq(Word), ~TooLong(l), NEW s \in command_specs, NEW n,
         l = <<s.device, s.action, n>>,
         s.arg = "STRING" \/ (s.arg = "INT" /\ n \in In(s.min .. s.max))
  PROVE  command_parse(l).type = s.command
<1>1. /\ l # << >> /\ Token(l, 1) = s.device /\ Token(l, 2) = s.action
      /\ Token(l, 3) = n /\ Token(l, 4) = NoToken /\ n \in Word
  BY DEF Token
<1>2. CASE s.arg = "STRING"
  <2>1. s \in Matching(l) /\ ArgumentsFit(s, l)
    BY <1>1, <1>2, CommandConstants DEF Matching, ArgumentsFit
  <2>2. QED
    BY <1>1, <2>1, FittingIsAccepted
<1>3. CASE s.arg = "INT" /\ n \in In(s.min .. s.max)
  <2>1. s.min \in Int /\ s.max \in Int
    BY <1>3, TableIsDocumented DEF IntDocumented
  <2>2. IntArg(n, s)
    BY <1>3, <2>1, CommandConstants DEF IntArg, In
  <2>3. s \in Matching(l) /\ ArgumentsFit(s, l)
    BY <1>1, <1>3, <2>2 DEF Matching, ArgumentsFit
  <2>4. QED
    BY <1>1, <2>3, FittingIsAccepted
<1>4. QED
  BY <1>2, <1>3

LEMMA NumberLine ==
  ASSUME NEW l \in Seq(Word), ~TooLong(l), NEW d, NEW a, NEW c,
         NEW lo \in Nat, NEW hi \in Nat, NEW n \in In(lo..hi),
         l = <<d, a, n>>, EntryFor(d, a, c, "INT", lo, hi)
  PROVE  command_parse(l).type = c
<1>1. PICK s \in command_specs :
        /\ s.device = d /\ s.action = a /\ s.command = c /\ s.arg = "INT"
        /\ s.min = lo /\ s.max = hi
  BY DEF EntryFor
<1>2. l = <<s.device, s.action, n>> /\ n \in In(s.min .. s.max)
  BY <1>1
<1>3. QED
  BY <1>1, <1>2, ThreeWords

LEMMA FileLine ==
  ASSUME NEW l \in Seq(Word), ~TooLong(l), NEW d, NEW a, NEW n, NEW c,
         l = <<d, a, n>>, EntryFor(d, a, c, "STRING", 0, 0)
  PROVE  command_parse(l).type = c
<1>1. PICK s \in command_specs :
        s.device = d /\ s.action = a /\ s.command = c /\ s.arg = "STRING"
  BY DEF EntryFor
<1>2. l = <<s.device, s.action, n>>
  BY <1>1
<1>3. s.arg = "STRING" \/ (s.arg = "INT" /\ n \in In(s.min .. s.max))
  BY <1>1
<1>4. command_parse(l).type = s.command
  BY <1>2, <1>3, ThreeWords, Zenon
<1>5. QED
  BY <1>1, <1>4

(* Every line of the manual is parsed as the command it stands for.        *)
LEMMA ManualIsAccepted ==
  ASSUME NEW l \in Seq(Word), ~TooLong(l), NEW d \in Documented, d[1] = l
  PROVE  command_parse(l).type = d[2]
<1> DEFINE Simple == { <<<<"HELP">>, "HELP">>, <<<<"STATUS">>, "STATUS">>,
    <<<<"PLUGIN", "LIST">>, "PLUGIN_LIST">>,
    <<<<"DEVICE", "LIST">>, "PLUGIN_LIST">>,
    <<<<"LED", "ON">>, "LED_ON">>, <<<<"LED", "OFF">>, "LED_OFF">>,
    <<<<"BUZZER", "ON">>, "BUZZER_ON">>,
    <<<<"BUZZER", "OFF">>, "BUZZER_OFF">>,
    <<<<"LIGHT", "READ">>, "LIGHT_READ">>,
    <<<<"SEG", "CLEAR">>, "SEG_CLEAR">>, <<<<"QUIT">>, "QUIT">> }
           Bright == {<<<<"LED", "BRIGHT", n>>, "LED_ON_BRIGHT">> : n \in In(0..255)}
           BeepFor == {<<<<"BUZZER", "BEEP", n>>, "BUZZER_BEEP">> : n \in In(1..10000)}
           Display == {<<<<"SEG", "DISPLAY", n>>, "SEG_DISPLAY">> : n \in In(0..9)}
           MusicOf == {<<<<"BUZZER", "MUSIC", f>>, "BUZZER_MUSIC">> : f \in Word}
<1>1. ASSUME NEW w, NEW c, d = <<<<w>>, c>>, EntryFor(w, NoToken, c, "NONE", 0, 0)
      PROVE  command_parse(l).type = d[2]
  BY <1>1, OneWord
<1>2. ASSUME NEW w, NEW a, NEW c, d = <<<<w, a>>, c>>, EntryFor(w, a, c, "NONE", 0, 0)
      PROVE  command_parse(l).type = d[2]
  BY <1>2, TwoWords
<1>3. ASSUME NEW w, NEW a, NEW c, NEW lo \in Nat, NEW hi \in Nat,
             NEW n \in In(lo..hi), d = <<<<w, a, n>>, c>>,
             EntryFor(w, a, c, "INT", lo, hi)
      PROVE  command_parse(l).type = d[2]
  BY <1>3, NumberLine
<1>4. CASE d \in Bright
  <2>1. PICK lo \in Nat, hi \in Nat : lo = 0 /\ hi = 255
    OBVIOUS
  <2>2. EntryFor("LED", "BRIGHT", "LED_ON_BRIGHT", "INT", lo, hi)
    BY <2>1, ManualHasEntries
  <2>3. PICK n \in In(lo..hi) : d = <<<<"LED", "BRIGHT", n>>, "LED_ON_BRIGHT">>
    BY <1>4, <2>1
  <2>4. QED
    BY <1>3, <2>2, <2>3, Zenon
<1>5. CASE d \in BeepFor
  <2>1. PICK lo \in Nat, hi \in Nat : lo = 1 /\ hi = 10000
    OBVIOUS
  <2>2. EntryFor("BUZZER", "BEEP", "BUZZER_BEEP", "INT", lo, hi)
    BY <2>1, ManualHasEntries
  <2>3. PICK n \in In(lo..hi) : d = <<<<"BUZZER", "BEEP", n>>, "BUZZER_BEEP">>
    BY <1>5, <2>1
  <2>4. QED
    BY <1>3, <2>2, <2>3, Zenon
<1>6. CASE d \in Display
  <2>1. PICK lo \in Nat, hi \in Nat : lo = 0 /\ hi = 9
    OBVIOUS
  <2>2. EntryFor("SEG", "DISPLAY", "SEG_DISPLAY", "INT", lo, hi)
    BY <2>1, ManualHasEntries
  <2>3. PICK n \in In(lo..hi) : d = <<<<"SEG", "DISPLAY", n>>, "SEG_DISPLAY">>
    BY <1>6, <2>1
  <2>4. QED
    BY <1>3, <2>2, <2>3, Zenon
<1>7. CASE d \in MusicOf
  <2>1. PICK f \in Word : d = <<<<"BUZZER", "MUSIC", f>>, "BUZZER_MUSIC">>
    BY <1>7
  <2>2. EntryFor("BUZZER", "MUSIC", "BUZZER_MUSIC", "STRING", 0, 0)
    BY ManualHasEntries
  <2>3. l = <<"BUZZER", "MUSIC", f>>
    BY <2>1
  <2>4. QED
    BY <2>1, <2>2, <2>3, FileLine
<1>8. CASE d \in Simple
  BY <1>1, <1>2, <1>8, ManualHasEntries
<1>9. \/ d \in Simple
      \/ d \in Bright
      \/ d \in BeepFor
      \/ d \in Display
      \/ d \in MusicOf
  BY DEF Documented
<1> HIDE DEF Simple, Bright, BeepFor, Display, MusicOf
<1>10. QED
  BY <1>4, <1>5, <1>6, <1>7, <1>8, <1>9

(* The parser accepts what the manual's table lists and nothing else, for  *)
(* every line of any words.                                                *)
LEMMA ManualIsAll ==
  ASSUME line \in Seq(Word) PROVE AcceptsTheManual
<1> DEFINE isMusic == command.type = "BUZZER_MUSIC"
           seen == IF isMusic /\ Len(line) > 3 THEN SubSeq(line, 1, 3) ELSE line
<1>1. ASSUME ~TooLong(line), NEW d \in Documented, d[1] = line
      PROVE  command.type = d[2]
  BY <1>1, ManualIsAccepted DEF command
<1>2. ASSUME command.type \notin Rejection
      PROVE  /\ ~TooLong(line)
             /\ \E d \in Documented : d[1] = seen /\ d[2] = command.type
             /\ command.type \in {"LED_ON_BRIGHT", "BUZZER_BEEP", "SEG_DISPLAY"} =>
                  command.value = ValueOf[line[3]]
             /\ isMusic => command.str = line[3]
  <2>1. ~TooLong(line)
    BY <1>2, AcceptedBy DEF command
  <2>2. PICK s \in Matching(line) :
              /\ command.type = s.command
              /\ \/ s.arg = "NONE" /\ Token(line, 3) = NoToken
                 \/ /\ s.arg = "INT" /\ Token(line, 4) = NoToken
                    /\ IntArg(Token(line, 3), s)
                    /\ command.value = ValueOf[Token(line, 3)]
                 \/ /\ s.arg = "STRING" /\ Token(line, 3) # NoToken
                    /\ command.str = Token(line, 3)
    BY <1>2, AcceptedBy DEF command
  <2>3. /\ s \in command_specs /\ Token(line, 1) = s.device
        /\ Token(line, 2) = s.action /\ s.device # NoToken
    BY TableIsDocumented DEF Matching
  <2>4. Len(line) \in Nat /\ Len(line) >= 1
    BY <2>3, Tokens
  <2>9. line[1] = s.device
    BY <2>3, Tokens
  <2>5. CASE s.arg = "NONE"
    <3>1. PlainDocumented(s) /\ Token(line, 3) = NoToken
      BY <2>2, <2>3, <2>5, TableIsDocumented
    <3>2. Len(line) < 3 /\ seen = line
      BY <3>1, Tokens
    <3>3. CASE s.action = NoToken
      <4>1. line = <<s.device>>
        <5>1. Len(line) < 2
          BY <2>3, <3>3, Tokens
        <5>2. Len(line) = 1
          BY <2>4, <5>1, LenIs, Zenon
        <5>3. QED
          BY <2>9, <5>2, Tuples
      <4>2. QED
        BY <2>1, <2>2, <3>1, <3>2, <3>3, <4>1 DEF PlainDocumented
    <3>4. CASE s.action # NoToken
      <4>1. line = <<s.device, s.action>>
        <5>1. Len(line) >= 2 /\ line[2] = s.action
          BY <2>3, <2>4, <3>4, Tokens
        <5>2. Len(line) = 2
          BY <2>4, <3>2, <5>1, LenIs, Zenon
        <5>3. QED
          BY <2>9, <5>1, <5>2, Tuples
      <4>2. QED
        BY <2>1, <2>2, <3>1, <3>2, <3>4, <4>1 DEF PlainDocumented
    <3>5. QED
      BY <3>3, <3>4
  <2>6. CASE s.arg = "INT"
    <3>1. /\ IntDocumented(s) /\ Token(line, 4) = NoToken
          /\ IntArg(Token(line, 3), s) /\ command.value = ValueOf[Token(line, 3)]
      BY <2>2, <2>3, <2>6, TableIsDocumented
    <3>2. Token(line, 3) \in Numeral
      BY <3>1 DEF IntArg
    <3>3. Len(line) = 3 /\ line[3] = Token(line, 3) /\ line[2] = s.action
      <4>1. Len(line) < 4
        BY <3>1, Tokens
      <4>2. Token(line, 3) # NoToken /\ Token(line, 2) # NoToken
        BY <2>3, <3>1, <3>2, CommandConstants DEF IntDocumented
      <4>3. Len(line) >= 3 /\ line[3] = Token(line, 3)
        BY <4>2, Tokens
      <4>4. line[2] = s.action
        BY <2>3, <4>2, Tokens
      <4>5. Len(line) = 3
        BY <2>4, <4>1, <4>3, LenIs, Zenon
      <4>6. QED
        BY <4>3, <4>4, <4>5
    <3>4. line = <<s.device, s.action, line[3]>> /\ seen = line
      BY <2>9, <3>3, Tuples
    <3>5. line[3] \in In(s.min .. s.max)
      <4>1. ValueOf[line[3]] \in Int
        BY <3>2, <3>3, CommandConstants
      <4>2. QED
        BY <3>1, <3>2, <3>3, <4>1 DEF IntArg, In, IntDocumented
    <3>6. <<line, s.command>> \in Documented
      BY <3>1, <3>4, <3>5 DEF IntDocumented
    <3>7. ~isMusic
      BY <2>2, <3>1 DEF IntDocumented
    <3>8. QED
      BY <2>1, <2>2, <3>1, <3>3, <3>4, <3>6, <3>7
  <2>7. CASE s.arg = "STRING"
    <3>1. /\ StringDocumented(s) /\ Token(line, 3) # NoToken
          /\ command.str = Token(line, 3)
      BY <2>2, <2>3, <2>7, TableIsDocumented
    <3>2. Len(line) >= 3 /\ line[3] = Token(line, 3) /\ line[3] \in Word
      BY <3>1, Tokens
    <3>3. line[1] = "BUZZER" /\ line[2] = "MUSIC" /\ isMusic
      BY <2>2, <2>3, <2>9, <3>1, <3>2, Tokens DEF StringDocumented, NoToken
    <3>4. seen = <<"BUZZER", "MUSIC", line[3]>>
      <4>1. CASE Len(line) > 3
        BY <2>4, <3>3, <4>1, Tuples
      <4>2. CASE Len(line) = 3
        BY <2>4, <3>3, <4>2, Tuples
      <4>3. Len(line) > 3 \/ Len(line) = 3
        BY <2>4, <3>2, LenIs, Zenon
      <4>4. QED
        BY <4>1, <4>2, <4>3
    <3>5. <<<<"BUZZER", "MUSIC", line[3]>>, "BUZZER_MUSIC">> \in Documented
      BY <3>2 DEF Documented
    <3>6. QED
      BY <2>1, <3>1, <3>2, <3>3, <3>4, <3>5
  <2>8. QED
    BY <2>2, <2>5, <2>6, <2>7
<1>3. QED
  BY <1>1, <1>2 DEF AcceptsTheManual

-----------------------------------------------------------------------------
(* The invariant *)

LEMMA InitIInv == Init => IInv
<1> SUFFICES ASSUME Init PROVE IInv
  OBVIOUS
<1>1. << >> \in Seq(Word) /\ Len(<< >>) = 0
  OBVIOUS
<1>2. TypeOK
  <2>1. line \in Seq(Word) /\ Len(line) <= MaxTokens
    BY <1>1, RequestsConstants DEF Init
  <2>2. duty \in {NoPwm} \cup 0..255 /\ last_light_value \in {NoValue, 0, 1}
        /\ sensed \in {NoValue, 0, 1}
    BY DEF Init
  <2>3. QED
    BY <2>1, <2>2 DEF Init, TypeOK
<1>3. ResponseIsTrue
  BY DEF Init, ResponseIsTrue
<1>4. StatusIsTrue
  BY DEF Init, StatusIsTrue, IsLit
<1>5. QED
  BY <1>2, <1>3, <1>4 DEF Init, IInv

(* What a request does to the LED and the sensor is what its response      *)
(* says.                                                                   *)
LEMMA ExecuteIInv == IInv /\ Execute => IInv'
<1> SUFFICES ASSUME IInv, Execute PROVE IInv'
  OBVIOUS
<1> USE DEF IInv, plugin, pin, light, Answer, NoPwm, NoValue
<1>1. /\ pc = "read" /\ pc' = "answered" /\ line' = line /\ before' = before
      /\ before = pin /\ command' = command
  BY DEF Execute, SubmitFails, Reject, ExecuteElsewhere, PluginList, Status,
     ExecuteLedOn, ExecuteLedOff, ExecuteLedBright, LedBrightFails,
     ExecuteLightRead, LightReadHalf, ExecuteQuit, command
<1>2. CASE response'.head = "ERR" /\ UNCHANGED <<plugin, pin>>
           /\ last_light_value' = sensed' /\ sensed' \in {NoValue, 0, 1}
  BY <1>1, <1>2 DEF TypeOK, ResponseIsTrue, StatusIsTrue, IsLit
<1>3. CASE response'.head # "ERR" /\ UNCHANGED <<plugin, pin, light>>
           /\ command.type \notin {"STATUS", "LIGHT_READ", "LED_ON", "LED_OFF",
                                   "LED_ON_BRIGHT"}
  BY <1>1, <1>3 DEF TypeOK, ResponseIsTrue, StatusIsTrue, IsLit
<1>4. CASE SubmitFails
  BY <1>1, <1>2, <1>4 DEF SubmitFails, DeviceError, TypeOK, StatusIsTrue
<1>5. CASE Reject
  BY <1>1, <1>2, <1>5 DEF Reject, TypeOK, StatusIsTrue
<1>6. CASE ExecuteElsewhere
  BY <1>1, <1>3, <1>6 DEF ExecuteElsewhere, Ok
<1>7. CASE PluginList
  BY <1>1, <1>3, <1>7 DEF PluginList
<1>8. CASE Status
  BY <1>1, <1>8 DEF Status, TypeOK, ResponseIsTrue, StatusIsTrue, IsLit
<1>9. CASE ExecuteLedOn
  BY <1>1, <1>9 DEF ExecuteLedOn, LedOn, DrivePin, Ok, TypeOK, ResponseIsTrue,
     StatusIsTrue, IsLit
<1>10. CASE ExecuteLedOff
  BY <1>1, <1>10 DEF ExecuteLedOff, LedOff, DrivePin, Ok, TypeOK, ResponseIsTrue,
     StatusIsTrue, IsLit
<1>11. CASE ExecuteLedBright
  <2>1. command.value = ValueOf[line[3]] /\ ValueOf[line[3]] \in 0..255
    BY <1>11, BrightValue DEF ExecuteLedBright, command, TypeOK
  <2>2. PICK v \in 0..255 : v = ValueOf[line[3]]
    BY <2>1
  <2>3. /\ duty' = v /\ level' = "LOW" /\ pwm_started' = TRUE
        /\ led_state' = (v > 0) /\ UNCHANGED light /\ response'.head = "OK"
        /\ command.type = "LED_ON_BRIGHT"
    BY <1>11, <2>1, <2>2 DEF ExecuteLedBright, LedOnBright, Ok
  <2>4. TypeOK' /\ StatusIsTrue'
    <3>1. duty' \in 0..255 /\ duty' # NoPwm /\ led_state' = (duty' > 0)
      BY <2>3
    <3>2. led_state' \in BOOLEAN /\ led_state' = IsLit'
      BY <3>1 DEF IsLit
    <3>3. QED
      BY <1>1, <2>3, <3>1, <3>2 DEF TypeOK, StatusIsTrue
  <2>5. ResponseIsTrue'
    BY <1>1, <2>2, <2>3 DEF ResponseIsTrue
  <2>6. QED
    BY <1>1, <2>4, <2>5
<1>12. CASE LedBrightFails
  BY <1>1, <1>2, <1>12 DEF LedBrightFails, DeviceError, TypeOK, StatusIsTrue
<1>13. CASE ExecuteLightRead
  <2>1. PICK v \in {0, 1} :
          /\ LightRead(v)
          /\ IF v = 0 THEN LedOn ELSE LedOff
          /\ response' = [head |-> "DATA", type |-> "LIGHT", led |-> v = 0,
                          light |-> v]
    BY <1>13 DEF ExecuteLightRead
  <2>2. QED
    BY <1>1, <1>13, <2>1 DEF ExecuteLightRead, LightRead, LedOn, LedOff, DrivePin,
       TypeOK, ResponseIsTrue, StatusIsTrue, IsLit
<1>14. CASE LightReadHalf
  BY <1>1, <1>2, <1>14 DEF LightReadHalf, LightRead, DeviceError, TypeOK
<1>15. CASE ExecuteQuit
  BY <1>1, <1>3, <1>15 DEF ExecuteQuit, Ok
<1>16. QED
  BY <1>4, <1>5, <1>6, <1>7, <1>8, <1>9, <1>10, <1>11, <1>12, <1>13, <1>14, <1>15
  DEF Execute

LEMMA NextIInv == IInv /\ [Next]_vars => IInv'
<1> SUFFICES ASSUME IInv, [Next]_vars PROVE IInv'
  OBVIOUS
<1> USE DEF IInv, plugin, pin, light, NoPwm, NoValue
<1>1. CASE ReadToken
  <2>1. PICK w \in Word : line' = Append(line, w)
    BY <1>1, RequestsConstants DEF ReadToken
  <2>2. line' \in Seq(Word) /\ Len(line') <= MaxTokens
    BY <1>1, <2>1, RequestsConstants DEF ReadToken, TypeOK
  <2>3. QED
    BY <1>1, <2>2 DEF ReadToken, TypeOK, ResponseIsTrue, StatusIsTrue, IsLit
<1>2. CASE NextRequest
  <2>1. << >> \in Seq(Word) /\ Len(<< >>) <= MaxTokens
    BY RequestsConstants
  <2>2. QED
    BY <1>2, <2>1 DEF NextRequest, TypeOK, ResponseIsTrue, StatusIsTrue, IsLit
<1>3. CASE Cleanup
  BY <1>3 DEF Cleanup, DrivePin, TypeOK, ResponseIsTrue, StatusIsTrue, IsLit
<1>4. CASE UNCHANGED vars
  BY <1>4 DEF vars, TypeOK, ResponseIsTrue, StatusIsTrue, IsLit, command
<1>5. QED
  BY <1>1, <1>2, <1>3, <1>4, ExecuteIInv DEF Next, Rest

(* IInv holds in every state and is kept by every step, whatever the lines *)
(* and wherever a request fails.                                           *)
THEOREM Inductive == Spec => []IInv
BY InitIInv, NextIInv, PTL DEF Spec

(* command_parse accepts the manual's table, and nothing else.             *)
THEOREM ParserIsDocumented == Spec => []AcceptsTheManual
<1>1. IInv => AcceptsTheManual
  BY ManualIsAll DEF IInv, TypeOK
<1>2. QED
  BY Inductive, <1>1, PTL

(* exec_command's response says what the pin and the sensor do.            *)
THEOREM ResponsesTrue == Spec => []ResponseIsTrue
<1>1. IInv => ResponseIsTrue
  BY DEF IInv
<1>2. QED
  BY Inductive, <1>1, PTL

(* What led.c and light.c remember, and STATUS tells, is what the pins do. *)
THEOREM StatusTrue == Spec => []StatusIsTrue
<1>1. IInv => StatusIsTrue
  BY DEF IInv
<1>2. QED
  BY Inductive, <1>1, PTL

=============================================================================
