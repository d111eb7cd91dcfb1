---------------------------- MODULE DeviceResult ----------------------------
(***************************************************************************)
(* The result codes every layer of the server returns (device_result.h).   *)
(* A code is represented by the text device_result_message gives it, which *)
(* is what reaches a client after "ERR DEVICE_ERROR".                      *)
(***************************************************************************)

DeviceResult ==
  { "OK", "NOT_INITIALIZED", "GPIO_SETUP_FAILED", "THREAD_FAILED",
    "INVALID_VALUE", "PLUGIN_LOAD_FAILED", "SYMBOL_LOAD_FAILED",
    "DEVICE_FAILED", "CANCELLED" }

=============================================================================
