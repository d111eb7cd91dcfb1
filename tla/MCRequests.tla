----------------------------- MODULE MCRequests -----------------------------
(* Requests with every word of the command table, a file, an overlong word, *)
(* and the numerals at the ends of the ranges.                              *)
EXTENDS Requests, TLC

MCValueOf ==
  "0" :> 0 @@ "1" :> 1 @@ "9" :> 9 @@ "10" :> 10 @@ "255" :> 255
  @@ "256" :> 256 @@ "10000" :> 10000 @@ "10001" :> 10001 @@ "-1" :> -1

MCNumeral == DOMAIN MCValueOf

MCWord ==
  MCNumeral \cup
  { "HELP", "STATUS", "PLUGIN", "DEVICE", "LIST", "QUIT", "LED", "BUZZER",
    "LIGHT", "SEG", "ON", "OFF", "BRIGHT", "MUSIC", "BEEP", "READ",
    "DISPLAY", "CLEAR", "FILE", "LONG" }

=============================================================================
