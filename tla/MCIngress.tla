------------------------------ MODULE MCIngress ------------------------------
(* An instance of Ingress for TLC: repeated and conflicting uses of one key. *)
EXTENDS Ingress

CONSTANTS first, retry, dry

AllCalls == {first, retry, dry}

\* retry repeats first, dry uses their key for a run without the write.
OneKey == [c \in AllCalls |-> "key"]
IntentOf == [c \in AllCalls |-> IF c = dry THEN "dry run" ELSE "write"]
Writing == {"write"}

\* Before, between and after the two steps that write a file.
CrashPoints == {"reserve", "reserving", "execute", "running", "cache", "caching"}
AllFaults == {"kernel", "drift"}
=============================================================================
