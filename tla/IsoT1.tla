-------------------------------- MODULE IsoT1 --------------------------------
(***************************************************************************)
(* The block protocol between the driver and the secure element            *)
(* (kernel/drivers/snvm/protocol/ese_iso7816_t1.c), one command at a time, *)
(* over a line that damages and loses blocks.                              *)
(*                                                                         *)
(* A block is what the program can tell of a frame: I-blocks carry their   *)
(* sequence bit, whether more follow, and which block of which command or  *)
(* answer they are; R-blocks the expected bit and whether they ask for a   *)
(* repetition; S is a request for more time or the answer to one. A damaged*)
(* frame never passes the checksum. The fields of next_tx equal those of   *)
(* last_tx after every iso7816_t1_send (the memcpy of line 598), and state *)
(* is the kind of block sent last, so last stands for all three.           *)
(*                                                                         *)
(* The card is not in this repository. It is modelled as what the driver's *)
(* reactions are written for: it answers a block with one block, takes an  *)
(* I-block only with the bit it expects, and repeats what it was asked to  *)
(* repeat (ISO/IEC 7816-3, 11.6).                                          *)
(***************************************************************************)
EXTENDS Naturals, Sequences

CONSTANTS
    MaxCmd,          \* blocks of the longest command
    MaxAns,          \* blocks of the longest answer
    FrameRetries,    \* PROTOCOL_FRAME_RETRY_COUNT
    TimeoutRetries,  \* PROTOCOL_TIMEOUT_RETRY_COUNT
    NackRetries,     \* PROTOCOL_MAX_RNACK_RETRY_LIMIT
    MaxFaults        \* how often the line, or the card's supply, fails

ASSUME SizesAssumption == MaxCmd \in Nat \ {0} /\ MaxAns \in Nat \ {0}
ASSUME RetriesAssumption ==
    FrameRetries \in Nat /\ TimeoutRetries \in Nat /\ NackRetries \in Nat
ASSUME FaultsAssumption == MaxFaults \in Nat

Bit == {0, 1}
Flip(b) == 1 - b

\* A piece of a command or an answer: of the command now asked, or of an
\* earlier one, and its place. Over a card left powered the place may lie
\* beyond the end of the command: iso7816_t1_next_iframe does not look.
Pieces == [now: BOOLEAN, at: Nat]

IBlock(seq, more, piece) == [kind |-> "I", seq |-> seq, more |-> more, piece |-> piece]
RBlock(seq, nack) == [kind |-> "R", seq |-> seq, nack |-> nack]
SBlock == [kind |-> "S"]

\* What the line makes of a block: nothing arrives, the checksum is wrong, or
\* what is read does not even begin with the address.
Silence == [kind |-> "silence"]
Damaged == [kind |-> "damaged"]
Noise == [kind |-> "noise"]

\* What may be on the line, and what a side may have sent last.
Blocks ==
    {Silence, Damaged, Noise, SBlock}
    \union [kind: {"R"}, seq: Bit, nack: BOOLEAN]
    \union [kind: {"I"}, seq: Bit, more: BOOLEAN, piece: Pieces]

Lasts == [type: {"none", "I", "R", "S"}, nack: BOOLEAN, seq: Bit, at: Nat]

VARIABLES
    turn,      \* who acts next: "idle" (no command under way), "start", "card" or "host"
    last,      \* last_tx: its type, whether it is an error R-frame, iframe.seq_no, iframe.offset
    lastFrame, \* last_frame: last block that was not an error R-frame
    rxSeq,     \* last_rx.iframe.seq_no
    recovery, timeouts, rnacks,  \* recovery_counter, timeout_counter, rnack_counter
    received,  \* recv_data
    cmdLen,    \* blocks of the command asked (total_size)
    wire       \* the block on the line

hostVars == <<last, lastFrame, rxSeq, recovery, timeouts, rnacks, received, cmdLen>>

VARIABLES
    expect,    \* the card: the sequence bit it expects of the next I-block
    cardSeq,   \* the sequence bit of its last I-block
    collected, \* the blocks of a command it has so far
    answer,    \* the answer it is giving: its length, the block it is at, whether it is of the command now asked
    asking     \* it waits for the answer to a request for more time

cardVars == <<expect, cardSeq, collected, answer, asking>>

VARIABLES
    runs,      \* how often the command now asked has been run, as it was asked
    outcome,   \* what the driver made of the exchange
    gaveUp,    \* iso7816_t1_finish_recovery ran in this exchange
    faults     \* failures so far

pathVars == <<runs, outcome, gaveUp>>
vars == <<turn, hostVars, wire, cardVars, pathVars, faults>>

NoAnswer == [len |-> 0, at |-> 0, now |-> FALSE]
Answering == answer.at > 0

------------------------------------------------------------------------------
\* iso7816_t1_reset_params: the host's half of a fresh connection.
ResetParams ==
    /\ last' = [type |-> "none", nack |-> FALSE, seq |-> 1, at |-> 0]
    /\ lastFrame' = "none"
    /\ rxSeq' = 1
    /\ recovery' = 0
    /\ timeouts' = 0
    /\ rnacks' = 0

\* The card's half, after power on.
ResetCard ==
    /\ expect' = 0
    /\ cardSeq' = 1
    /\ collected' = <<>>
    /\ answer' = NoAnswer
    /\ asking' = FALSE

Init ==
    /\ turn = "idle"
    /\ last = [type |-> "none", nack |-> FALSE, seq |-> 1, at |-> 0]
    /\ lastFrame = "none"
    /\ rxSeq = 1
    /\ recovery = 0 /\ timeouts = 0 /\ rnacks = 0
    /\ received = <<>>
    /\ cmdLen = 1
    /\ wire = Silence
    /\ expect = 0
    /\ cardSeq = 1
    /\ collected = <<>>
    /\ answer = NoAnswer
    /\ asking = FALSE
    /\ runs = 0 /\ outcome = "none" /\ gaveUp = FALSE
    /\ faults = 0

Fault == faults < MaxFaults /\ faults' = faults + 1
NoFault == UNCHANGED faults

------------------------------------------------------------------------------
\* The frame that iso7816_t1_send_iframe, _rframe and _sframe build.
Frame(t, seqSeen) ==
    CASE t.type = "I" -> IBlock(t.seq, t.at < cmdLen, [now |-> TRUE, at |-> t.at])
      [] t.type = "R" -> RBlock(Flip(seqSeen), t.nack)
      [] OTHER -> SBlock

\* An error R-frame leaves last_frame alone.
Remembered(t) == IF t.type = "R" /\ t.nack THEN lastFrame ELSE t.type

\* iso7816_t1_send: the block is on the line, or the bus refuses it and the
\* caller gives the exchange up.
Send(t, seqSeen, got) ==
    /\ last' = t
    /\ lastFrame' = Remembered(t)
    /\ \/ /\ turn' = "card"
          /\ wire' = Frame(t, seqSeen)
          /\ received' = got
          /\ UNCHANGED <<outcome, faults>>
       \/ /\ Fault
          /\ turn' = "idle"
          /\ outcome' = "failure"
          /\ received' = <<>>
          /\ UNCHANGED wire

\* What iso7816_t1_receive hands out when the state is idle again.
Verdict(clean, got) ==
    IF ~clean \/ got = <<>> THEN "failure"
    ELSE IF \E i \in DOMAIN got : got[i] # [now |-> TRUE, at |-> i] THEN "wrong"
    ELSE IF Len(got) = answer.len THEN "whole"
    ELSE "prefix"

\* The end of iso7816_t1_receive: ese_data_get empties the list in any case.
End(clean, got) ==
    /\ turn' = "idle"
    /\ outcome' = Verdict(clean, got)
    /\ received' = <<>>
    /\ UNCHANGED <<last, lastFrame, wire>>

Ack == [last EXCEPT !.type = "R", !.nack = FALSE]
Nack == [last EXCEPT !.type = "R", !.nack = TRUE]

------------------------------------------------------------------------------
\* A command is handed to the driver. All that is still going on at the card
\* becomes that of an earlier command.
Ask(n) ==
    /\ turn = "idle"
    /\ turn' = "start"
    /\ cmdLen' = n
    /\ collected' = [i \in DOMAIN collected |-> [collected[i] EXCEPT !.now = FALSE]]
    /\ answer' = [answer EXCEPT !.now = FALSE]
    /\ runs' = 0
    /\ outcome' = "none"
    /\ gaveUp' = FALSE
    /\ UNCHANGED <<last, lastFrame, rxSeq, recovery, timeouts, rnacks, received, wire,
                   expect, cardSeq, asking, faults>>

\* iso7816_t1_send in idle state: set_iframe and the first block.
SendFirst ==
    /\ turn = "start"
    /\ Send([last EXCEPT !.type = "I", !.seq = Flip(@), !.at = 1], rxSeq, received)
    /\ UNCHANGED <<rxSeq, recovery, timeouts, rnacks, cmdLen, cardVars, runs, gaveUp>>

------------------------------------------------------------------------------
\* The line, in either direction.
LineFails ==
    /\ turn \in {"card", "host"}
    /\ wire.kind \in {"I", "R", "S"}
    /\ Fault
    /\ wire' \in {Silence, Damaged} \union IF turn = "host" THEN {Noise} ELSE {}
    /\ UNCHANGED <<turn, hostVars, cardVars, pathVars>>

------------------------------------------------------------------------------
\* The card answers every block it sees with one of its own.
Reply(b) ==
    /\ turn' = "host"
    /\ wire' = b
    /\ UNCHANGED <<hostVars, outcome, gaveUp, faults>>

CardAnswers(a) ==
    /\ answer' = a
    /\ cardSeq' = Flip(cardSeq)
    /\ Reply(IBlock(Flip(cardSeq), a.at < a.len, [now |-> a.now, at |-> a.at]))

CardTurn(kind) == turn = "card" /\ wire.kind = kind

\* A block of a chained command.
CardCollects ==
    /\ CardTurn("I") /\ wire.seq = expect /\ wire.more
    /\ expect' = Flip(expect)
    /\ collected' = Append(collected, wire.piece)
    /\ answer' = NoAnswer
    /\ asking' = FALSE
    /\ UNCHANGED <<cardSeq, runs>>
    /\ Reply(RBlock(Flip(expect), FALSE))

\* The last block: the command is run, as it was asked or not. The card
\* answers at once, or asks for time first.
CardRuns ==
    /\ CardTurn("I") /\ wire.seq = expect /\ ~wire.more
    /\ expect' = Flip(expect)
    /\ collected' = <<>>
    /\ LET command == Append(collected, wire.piece)
           intact == /\ Len(command) = cmdLen
                     /\ \A i \in DOMAIN command : command[i] = [now |-> TRUE, at |-> i]
       IN  runs' = IF intact /\ runs = 0 THEN 1 ELSE 2
    /\ \E len \in 1 .. MaxAns :
         \/ CardAnswers([len |-> len, at |-> 1, now |-> TRUE]) /\ asking' = FALSE
         \/ /\ answer' = [len |-> len, at |-> 0, now |-> TRUE]
            /\ asking' = TRUE
            /\ UNCHANGED cardSeq
            /\ Reply(SBlock)

\* It got the time it asked for.
CardResumes ==
    /\ CardTurn("S") /\ asking
    /\ asking' = FALSE
    /\ UNCHANGED <<expect, collected, runs>>
    /\ CardAnswers([answer EXCEPT !.at = 1])

\* The block it sent has arrived, the next one of the answer follows.
CardContinues ==
    /\ CardTurn("R") /\ ~asking
    /\ Answering /\ wire.seq # cardSeq /\ answer.at < answer.len
    /\ UNCHANGED <<expect, collected, asking, runs>>
    /\ CardAnswers([answer EXCEPT !.at = @ + 1])

\* It repeats what it sent last: a block of its answer, its request for time,
\* its acknowledgement.
CardRepeats ==
    /\ CardTurn("R")
    /\ \/ asking /\ Reply(SBlock)
       \/ /\ ~asking /\ Answering /\ wire.seq = cardSeq
          /\ Reply(IBlock(cardSeq, answer.at < answer.len, [now |-> answer.now, at |-> answer.at]))
       \/ /\ ~asking /\ ~Answering /\ collected # <<>>
          /\ Reply(RBlock(expect, FALSE))
    /\ UNCHANGED <<cardVars, runs>>

\* Everything else it cannot use.
CardRefuses ==
    /\ turn = "card"
    /\ \/ wire = Damaged
       \/ wire.kind = "I" /\ wire.seq # expect
       \/ wire.kind = "S" /\ ~asking
       \/ /\ wire.kind = "R" /\ ~asking
          /\ IF Answering THEN wire.seq # cardSeq /\ answer.at = answer.len ELSE collected = <<>>
    /\ UNCHANGED <<cardVars, runs>>
    /\ Reply(RBlock(expect, TRUE))

CardMisses ==
    /\ turn = "card" /\ wire = Silence
    /\ UNCHANGED <<cardVars, runs>>
    /\ Reply(Silence)

Card ==
    \/ CardCollects \/ CardRuns \/ CardResumes \/ CardContinues
    \/ CardRepeats \/ CardRefuses \/ CardMisses

------------------------------------------------------------------------------
\* The host: one turn of the loop in iso7816_t1_receive, which is
\* iso7816_t1_process and, unless the state is idle then, iso7816_t1_send.
HostTurn(kind) ==
    /\ turn = "host"
    /\ wire.kind = kind
    /\ UNCHANGED <<cmdLen, cardVars, runs>>

\* A frame with a good checksum ends a row of bad ones.
GoodFrame == timeouts' = 0 /\ rnacks' = 0

\* iso7816_t1_finish_recovery.
GiveUp ==
    /\ recovery' = 0
    /\ gaveUp' = TRUE
    /\ End(TRUE, received)
    /\ NoFault

\* Mutant: the bit is not kept.
HostStoresForgetful ==
    /\ HostTurn("I") /\ wire.seq # rxSeq
    /\ GoodFrame
    /\ UNCHANGED <<rxSeq, gaveUp>>
    /\ recovery' = 0
    /\ LET got == Append(received, wire.piece)
       IN  IF wire.more THEN Send(Ack, rxSeq, got)
           ELSE End(TRUE, got) /\ NoFault

\* An I-block with the other bit than the last one: store it, acknowledge it
\* if more follow.
HostStores ==
    /\ HostTurn("I") /\ wire.seq # rxSeq
    /\ GoodFrame
    /\ rxSeq' = wire.seq
    /\ recovery' = 0
    /\ UNCHANGED gaveUp
    /\ LET got == Append(received, wire.piece)
       IN  IF wire.more THEN Send(Ack, wire.seq, got)
           ELSE End(TRUE, got) /\ NoFault

\* An I-block that has been here before.
HostRefuses ==
    /\ HostTurn("I") /\ wire.seq = rxSeq
    /\ GoodFrame
    /\ UNCHANGED rxSeq
    /\ IF recovery < FrameRetries
         THEN recovery' = recovery + 1 /\ Send(Nack, rxSeq, received) /\ UNCHANGED gaveUp
         ELSE GiveUp

\* The card has the block and waits for the next, or (same bit) has not.
HostContinues ==
    /\ HostTurn("R") /\ ~wire.nack
    /\ GoodFrame
    /\ recovery' = 0
    /\ IF wire.seq # last.seq
         THEN Send([last EXCEPT !.type = "I", !.seq = Flip(@), !.at = @ + 1], rxSeq, received)
         ELSE Send(last, rxSeq, received)
    /\ UNCHANGED <<rxSeq, gaveUp>>

\* What an error R-block asks for depends on what was sent before it.
Wanted(n) ==
    CASE last.type # "R" -> last
      [] last.type = "R" /\ n = last.seq /\ lastFrame = "I" -> [last EXCEPT !.type = "I"]
      [] last.type = "R" /\ n # last.seq /\ lastFrame = "R" -> Ack
      [] OTHER -> Nack

HostRepeats ==
    /\ HostTurn("R") /\ wire.nack
    /\ GoodFrame
    /\ UNCHANGED rxSeq
    /\ IF recovery < FrameRetries
         THEN /\ recovery' = recovery + 1
              /\ Send(Wanted(wire.seq), rxSeq, received)
              /\ UNCHANGED gaveUp
         ELSE GiveUp

\* Mutant: the request for time is taken for something to be repeated.
HostWaitsNot ==
    /\ HostTurn("S")
    /\ GoodFrame
    /\ Send(Nack, rxSeq, received)
    /\ UNCHANGED <<rxSeq, recovery, gaveUp>>

\* The card asks for more time: wait, and grant it.
HostWaits ==
    /\ HostTurn("S")
    /\ GoodFrame
    /\ Send([last EXCEPT !.type = "S"], rxSeq, received)
    /\ UNCHANGED <<rxSeq, recovery, gaveUp>>

\* Nothing could be made of the answer: ask for it again, a few times.
AskAgain ==
    /\ IF rnacks < NackRetries
         THEN rnacks' = rnacks + 1 /\ Send(Nack, rxSeq, received)
         ELSE rnacks' = 0 /\ End(FALSE, received) /\ NoFault
    /\ UNCHANGED <<rxSeq, recovery, gaveUp>>

HostDamaged ==
    /\ HostTurn("damaged")
    /\ timeouts' = 0
    /\ AskAgain

HostNoise ==
    /\ \/ HostTurn("noise")
       \/ HostTurn("silence") /\ last.type = "S"
    /\ timeouts' = IF rnacks < NackRetries THEN timeouts ELSE 0
    /\ AskAgain

\* No answer at all: the same block once more.
HostTimeout ==
    /\ HostTurn("silence") /\ last.type # "S"
    /\ IF timeouts < TimeoutRetries
         THEN timeouts' = timeouts + 1 /\ Send(last, rxSeq, received)
         ELSE timeouts' = 0 /\ End(FALSE, received) /\ NoFault
    /\ UNCHANGED <<rxSeq, recovery, rnacks, gaveUp>>

Host ==
    \/ HostStores \/ HostRefuses \/ HostContinues \/ HostRepeats \/ HostWaits
    \/ HostDamaged \/ HostNoise \/ HostTimeout
=============================================================================
