---------------------------- MODULE MCSessions ----------------------------
(* Bounded instances of Sessions. *)
EXTENDS Sessions

SafeUart   == {"VER", "KEY", "SWITCH", "PAIR", "BEGIN", "OTA"}
SafeCdc    == {"KEY", "WRITE", "REBOOT"}
LiveUart   == {"VER"}
LiveCdc    == {"PAIR", "WRITE", "BOOT", "ABORT"}
ReopenUart == {"VER", "PAIR"}
=============================================================================
