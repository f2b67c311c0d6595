---------------------------- MODULE UploadSession ----------------------------
(***************************************************************************)
(* What a chunked upload promises its client, without processes, locks or  *)
(* files: chunks are acknowledged in any order, an archive is stored only  *)
(* while every one of its chunks stands acknowledged, the client is told   *)
(* so only then, and nothing is stored any more once it has been told.     *)
(***************************************************************************)
EXTENDS Naturals

CONSTANT Chunks

VARIABLES
    received,   \* chunks that stand acknowledged
    archives,   \* archives stored from this upload
    told        \* the client has been told of one

vars == <<received, archives, told>>

Init ==
    /\ received = {}
    /\ archives = 0
    /\ told = FALSE

Receive(k) ==
    /\ received' = received \cup {k}
    /\ UNCHANGED <<archives, told>>

Restart ==
    /\ received' = {}
    /\ UNCHANGED <<archives, told>>

Store ==
    /\ received = Chunks
    /\ ~told
    /\ archives' = archives + 1
    /\ UNCHANGED <<received, told>>

Tell ==
    /\ archives > 0
    /\ told' = TRUE
    /\ UNCHANGED <<received, archives>>

Next == (\E k \in Chunks : Receive(k)) \/ Restart \/ Store \/ Tell

Spec == Init /\ [][Next]_vars
=============================================================================
