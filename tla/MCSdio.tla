------------------------------- MODULE MCSdio -------------------------------
(* SdioRequest for TLC. *)
EXTENDS SdioRequest
=============================================================================
