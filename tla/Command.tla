------------------------------ MODULE Command ------------------------------
(***************************************************************************)
(* command_parse (common/command.c): from a line to a command.             *)
(*                                                                         *)
(* strtok_r splits the line at blanks and line ends alike, so a line is    *)
(* the sequence of its tokens, in one letter case since tokens are         *)
(* compared without regard to case.  A token that strtol converts whole is *)
(* a numeral; one that overflows has a value out of every range.           *)
(***************************************************************************)
EXTENDS Integers, Sequences

CONSTANTS
  Word,          \* the tokens lines are made of
  Numeral,       \* those that are decimal numbers
  ValueOf,       \* their values
  LongWord       \* those that make a line 256 characters long or longer

NoToken == "NULL"

ASSUME CommandConstants ==
  /\ Numeral \subseteq Word /\ ValueOf \in [Numeral -> Int]
  /\ LongWord \subseteq Word /\ NoToken \notin Word

Entry(d, a, c, arg, lo, hi) ==
  [device |-> d, action |-> a, command |-> c, arg |-> arg,
   min |-> lo, max |-> hi]
Plain(d, a, c) == Entry(d, a, c, "NONE", 0, 0)
WithInt(d, a, c, lo, hi) == Entry(d, a, c, "INT", lo, hi)
WithString(d, a, c) == Entry(d, a, c, "STRING", 0, 0)

command_specs ==
  { Plain("HELP", NoToken, "HELP"), Plain("STATUS", NoToken, "STATUS"),
    Plain("PLUGIN", "LIST", "PLUGIN_LIST"),
    Plain("DEVICE", "LIST", "PLUGIN_LIST"),
    Plain("QUIT", NoToken, "QUIT"),
    Plain("LED", "ON", "LED_ON"),
    WithInt("LED", "BRIGHT", "LED_ON_BRIGHT", 0, 255),
    Plain("LED", "OFF", "LED_OFF"),
    WithString("BUZZER", "MUSIC", "BUZZER_MUSIC"),
    Plain("BUZZER", "ON", "BUZZER_ON"), Plain("BUZZER", "OFF", "BUZZER_OFF"),
    WithInt("BUZZER", "BEEP", "BUZZER_BEEP", 1, 10000),
    Plain("LIGHT", "READ", "LIGHT_READ"),
    WithInt("SEG", "DISPLAY", "SEG_DISPLAY", 0, 9),
    Plain("SEG", "CLEAR", "SEG_CLEAR") }

CommandType == {s.command : s \in command_specs}
Rejection == {"EMPTY", "INVALID", "INVALID_VALUE"}

(* strtok_r: the i-th token, NULL behind the last. *)
Token(l, i) == IF i <= Len(l) THEN l[i] ELSE NoToken

(* token_equals with NULL tokens *)
Matching(l) ==
  {s \in command_specs : s.device = Token(l, 1) /\ s.action = Token(l, 2)}

(* Mutant: the upper bound is excluded. *)
IntArgBelowMax(token, s) ==
  token \in Numeral /\ s.min <= ValueOf[token] /\ ValueOf[token] < s.max

(* parse_int_arg *)
IntArg(token, s) ==
  token \in Numeral /\ s.min <= ValueOf[token] /\ ValueOf[token] <= s.max

Parsed(c, v, str) == [type |-> c, value |-> v, str |-> str]
Rejected(c) == Parsed(c, 0, NoToken)

(* What a matching table entry makes of the tokens behind it. *)
WithArguments(s, l) ==
  CASE s.arg = "NONE" ->
         IF Token(l, 3) # NoToken THEN Rejected("INVALID")
         ELSE Parsed(s.command, 0, NoToken)
    [] s.arg = "INT" ->
         IF Token(l, 4) # NoToken \/ ~IntArg(Token(l, 3), s)
         THEN Rejected("INVALID_VALUE")
         ELSE Parsed(s.command, ValueOf[Token(l, 3)], NoToken)
    [] s.arg = "STRING" ->
         IF Token(l, 3) = NoToken THEN Rejected("INVALID_VALUE")
         ELSE Parsed(s.command, 0, Token(l, 3))

(* strlen(line) >= COMMAND_LINE_MAX *)
TooLong(l) == \E i \in 1..Len(l) : l[i] \in LongWord

command_parse(l) ==
  IF TooLong(l) THEN Rejected("INVALID")
  ELSE IF l = << >> THEN Rejected("EMPTY")
  ELSE IF Matching(l) # {}
    THEN WithArguments(CHOOSE s \in Matching(l) : TRUE, l)
  ELSE Rejected(IF Token(l, 3) = NoToken THEN "INVALID" ELSE "INVALID_VALUE")

=============================================================================
