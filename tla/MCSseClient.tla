---------------------------- MODULE MCSseClient ----------------------------
(***************************************************************************)
(* Three subscriptions: two for one key, one for another.                  *)
(***************************************************************************)
EXTENDS SseClient

CONSTANTS s1, s2, s3, k1, k2

KeyOf == [s \in Subscriptions |-> IF s = s3 THEN k2 ELSE k1]
=============================================================================
