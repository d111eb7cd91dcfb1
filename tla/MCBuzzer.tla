------------------------------ MODULE MCBuzzer ------------------------------
(* Buzzer with two or three tasks, two pitches and a rest. *)
EXTENDS Buzzer

CONSTANTS t1, t2, t3,      \* tasks
          none             \* no task

MCTask == {t1, t2, t3}
MCTwoTasks == {t1, t2}
MCPitch == {0, 440, 523}

=============================================================================
