---------------------------- MODULE SecureElement ----------------------------
(***************************************************************************)
(* The secure element's device node (kernel/drivers/snvm/sec_star.c), its  *)
(* supply (sec_k250a.c) and its user in libfprint (el721-qtee.c), on top   *)
(* of the block protocol. Everything the node does is under one lock, so   *)
(* one command is under way at a time.                                     *)
(*                                                                         *)
(* The user opens the node, sends CORE_OPEN, after which the card starts   *)
(* numbering afresh and the user has the driver do the same, sends its     *)
(* commands, and closes the node after the first one that is not answered  *)
(* with the status it wants. A write may hold a chain of commands, each    *)
(* with the status it expects.                                             *)
(***************************************************************************)
EXTENDS IsoT1

CONSTANT MaxChain  \* commands in one write

ASSUME ChainAssumption == MaxChain \in Nat \ {0}

VARIABLES
    powered,  \* rpmh_powered, and with it the card
    user,     \* where the user of the node is
    left,     \* commands of the write that is under way which have no answer yet
    rsp,      \* star->rsp: none, of this session, of an earlier one
    fresh     \* the card was powered up for this session

deviceVars == <<powered, user, left, rsp, fresh>>
allVars == <<vars, deviceVars>>

SEInit ==
    /\ Init
    /\ powered = FALSE
    /\ user = "closed"
    /\ left = 0
    /\ rsp = "none"
    /\ fresh = FALSE

------------------------------------------------------------------------------
\* k250a_poweron and k250a_poweroff, which may both fail; switching on what is
\* on already asks nobody.
SupplyOn == powered' = TRUE /\ NoFault
SupplyOnFails == ~powered /\ Fault /\ UNCHANGED powered
SupplyOff ==
    \/ powered' = FALSE /\ NoFault
    \/ Fault /\ UNCHANGED powered

\* star_dev_open: the host starts afresh whatever the supply does, and a card
\* that is still powered is left as it is.
DevOpen ==
    /\ user = "closed"
    /\ ResetParams
    /\ \/ /\ SupplyOn
          /\ user' = "open"
          /\ fresh' = ~powered
          /\ IF powered THEN UNCHANGED cardVars ELSE ResetCard
       \/ /\ SupplyOnFails
          /\ UNCHANGED <<user, fresh, cardVars>>
    /\ UNCHANGED <<turn, received, cmdLen, wire, pathVars, left, rsp>>

\* star_dev_close: the node counts as closed even if the supply stays on, and
\* an answer nobody read stays where it is.
DevClose ==
    /\ user # "closed"
    /\ left = 0
    /\ user' = "closed"
    /\ rsp' = IF rsp = "none" THEN "none" ELSE "earlier"
    /\ fresh' = FALSE
    /\ SupplyOff
    /\ UNCHANGED <<turn, hostVars, wire, cardVars, pathVars, left>>

\* star_dev_write: the answer of the write before is dropped, the first
\* command of the chain asked. The first write of a session is CORE_OPEN.
DevWrite ==
    /\ user \in {"open", "ready"}
    /\ left = 0 /\ rsp # "this"
    /\ rsp' = "none"
    /\ left' \in IF user = "open" THEN {1} ELSE 1 .. MaxChain
    /\ \E n \in 1 .. MaxCmd : Ask(n)
    /\ UNCHANGED <<powered, user, fresh>>

\* star_transceive after an exchange: the next command of the chain if the
\* expected status came, otherwise what there is is handed out. An answer
\* that is not this command's may well end in the expected status.
Settled(outcomes) == turn = "idle" /\ left > 0 /\ outcome \in outcomes

ChainNext ==
    /\ Settled({"whole", "wrong"})
    /\ left > 1
    /\ left' = left - 1
    /\ \E n \in 1 .. MaxCmd : Ask(n)
    /\ UNCHANGED <<powered, user, rsp, fresh>>

ChainEnds ==
    /\ Settled({"whole", "prefix", "wrong"})
    /\ outcome # "prefix" => left = 1
    /\ left' = 0
    /\ rsp' = "this"
    /\ UNCHANGED <<vars, powered, user, fresh>>

ChainFails ==
    /\ Settled({"failure"})
    /\ left' = 0
    /\ user' = "failed"
    /\ UNCHANGED <<vars, powered, rsp, fresh>>

\* The user looks at the status of what it has read.
ExpectStatus ==
    IF outcome = "prefix" THEN "failed"
    ELSE IF user = "open" THEN "greeted" ELSE user

\* star_dev_read.
DevRead ==
    /\ rsp = "this"
    /\ rsp' = "none"
    /\ user' = ExpectStatus
    /\ UNCHANGED <<vars, powered, left, fresh>>

\* STAR_RESET_PROTOCOL after CORE_OPEN, with which the card has started afresh.
ResetProtocol ==
    /\ user = "greeted"
    /\ ResetParams
    /\ ResetCard
    /\ user' = "ready"
    /\ UNCHANGED <<turn, received, cmdLen, wire, pathVars, faults, powered, left, rsp, fresh>>

Protocol == (LineFails \/ SendFirst \/ Card \/ Host) /\ UNCHANGED deviceVars

SENext ==
    \/ DevOpen \/ DevClose \/ DevWrite \/ DevRead \/ ResetProtocol
    \/ ChainNext \/ ChainEnds \/ ChainFails
    \/ Protocol

\* A write that has begun is gone on with; the card answers.
SESpec ==
    /\ SEInit /\ [][SENext]_allVars
    /\ WF_allVars((SendFirst \/ Host) /\ UNCHANGED deviceVars)
    /\ WF_allVars(Card /\ UNCHANGED deviceVars)

------------------------------------------------------------------------------
\* Every variable of the driver and the card has a value of its type.
SETypeOK ==
    /\ turn \in {"idle", "start", "card", "host"}
    /\ last \in Lasts
    /\ lastFrame \in {"none", "I", "R", "S"}
    /\ rxSeq \in Bit
    /\ recovery \in 0 .. FrameRetries
    /\ timeouts \in 0 .. TimeoutRetries
    /\ rnacks \in 0 .. NackRetries
    /\ received \in Seq(Pieces)
    /\ cmdLen \in 1 .. MaxCmd
    /\ wire \in Blocks
    /\ expect \in Bit /\ cardSeq \in Bit
    /\ collected \in Seq(Pieces)
    /\ answer \in [len: 0 .. MaxAns, at: 0 .. MaxAns, now: BOOLEAN]
    /\ asking \in BOOLEAN
    /\ runs \in 0 .. 2
    /\ outcome \in {"none", "whole", "prefix", "wrong", "failure"}
    /\ gaveUp \in BOOLEAN
    /\ faults \in 0 .. MaxFaults
    /\ powered \in BOOLEAN
    /\ user \in {"closed", "open", "greeted", "ready", "failed"}
    /\ left \in 0 .. MaxChain
    /\ rsp \in {"none", "this", "earlier"}
    /\ fresh \in BOOLEAN

\* The driver keeps the abstract promise: whatever the line does, in a session
\* the card was powered up for, a command runs at most once and as it was
\* asked, and an answer that is handed out is that command's
\* (ese_iso7816_t1.c:254, 619).
Promise == INSTANCE Exchange WITH asked <- turn # "idle"
KeepsPromise == Promise!Spec

\* An answer of this session that ends early is only ever handed out after
\* the recovery was given up (iso7816_t1_finish_recovery), not because a block
\* was taken for another one or skipped.
WholeUnlessGivenUp ==
    fresh /\ (left > 0 \/ rsp = "this") /\ outcome = "prefix" => gaveUp

\* The chain of I-blocks never runs past the end of the command's buffer:
\* iso7816_t1_next_iframe does not look whether there is a next block.
NoOverrun == fresh /\ turn = "card" => last.at <= cmdLen

\* A command of one block, as all of libfprint's are, gets an outcome however
\* the line fails, so nobody holds the node's lock for ever; and repaired
\* exchanges leave no trace: once the line no longer fails its answer is whole.
EveryAnswered ==
    LET asks == turn = "start" /\ cmdLen = 1 /\ fresh
    IN  /\ asks ~> turn = "idle"
        /\ (asks /\ faults = MaxFaults) ~> outcome = "whole"
=============================================================================
