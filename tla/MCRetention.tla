---------------------------- MODULE MCRetention ----------------------------
(* Small instances of RetentionLifecycle.                                  *)
EXTENDS RetentionLifecycle

CONSTANTS s1, a1, p1

\* every asset and phrase belongs to the one song
MCSongOf == [k \in Keys |-> s1]
=============================================================================
