--------------------------- MODULE MCDeviceWorker ---------------------------
(* DeviceWorker with the server's two submitting threads and three tasks. *)
EXTENDS DeviceWorker

CONSTANTS main, segment,   \* the server's main thread and the segment thread
          t1, t2, t3,      \* tasks
          none             \* the NULL pointer

MCCaller == {main, segment}
MCTask == {t1, t2, t3}

=============================================================================
