------------------------------ MODULE Exchange ------------------------------
(***************************************************************************)
(* What the secure element's driver promises of one command: in a session  *)
(* the card was powered up for, the card runs it at most once, and an      *)
(* answer belongs to that run; otherwise the command is reported as failed *)
(* (when it may have run or not). "prefix" is the part of the promise the  *)
(* driver does not keep as well as one would like: the answer that is      *)
(* handed out may end early. Over a card that was left powered by an       *)
(* earlier session nothing is promised.                                    *)
(***************************************************************************)
VARIABLES
    fresh,    \* the card was powered up for this session
    asked,    \* a command has been submitted and has no outcome yet
    runs,     \* how often the card ran it
    outcome   \* of the last command

vars == <<fresh, asked, runs, outcome>>

Init == fresh = FALSE /\ asked = FALSE /\ runs = 0 /\ outcome = "none"

\* A session begins or ends.
Connect ==
    /\ ~asked
    /\ fresh' \in BOOLEAN
    /\ UNCHANGED <<asked, runs, outcome>>

Submit ==
    /\ ~asked
    /\ asked' = TRUE
    /\ runs' = 0
    /\ outcome' = "none"
    /\ UNCHANGED fresh

Run ==
    /\ asked
    /\ \/ runs = 0 /\ runs' = 1
       \/ ~fresh /\ runs' = 2
    /\ UNCHANGED <<fresh, asked, outcome>>

Succeed ==
    /\ asked
    /\ \/ runs = 1 /\ outcome' \in {"whole", "prefix"}
       \/ ~fresh /\ outcome' \in {"whole", "prefix", "wrong"}
    /\ asked' = FALSE
    /\ UNCHANGED <<fresh, runs>>

Fail ==
    /\ asked
    /\ asked' = FALSE
    /\ outcome' = "failure"
    /\ UNCHANGED <<fresh, runs>>

Next == Connect \/ Submit \/ Run \/ Succeed \/ Fail

Spec == Init /\ [][Next]_vars
=============================================================================
