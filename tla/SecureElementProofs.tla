-------------------------- MODULE SecureElementProofs --------------------------
(***************************************************************************)
(* Proofs about the secure element's driver: for commands and answers of   *)
(* any length, any number of retries, and any number of failures of the    *)
(* line and the supply. The module shows that the block protocol keeps the *)
(* promise of Exchange, step by step.                                      *)
(*                                                                         *)
(* The argument is the one of the alternating bit. Neither side sees the   *)
(* other's state; each knows from the bit of a block whether the block     *)
(* before it arrived. Fresh says how far both have come, in the four       *)
(* phases of an exchange, and InStep how they must stand between two       *)
(* exchanges for the next one to start right.                              *)
(***************************************************************************)
EXTENDS SecureElement, TLAPS

------------------------------------------------------------------------------
\* The invariant.

\* The pieces of the command or answer now under way, in order.
Own(pieces) == \A i \in 1 .. Len(pieces) : pieces[i] = [now |-> TRUE, at |-> i]

\* Between two exchanges: the card expects the bit the driver uses next, the
\* driver has seen the card's last block, and nothing is left over.
InStep ==
    /\ expect = Flip(last.seq) /\ rxSeq = cardSeq
    /\ collected = <<>> /\ ~asking /\ answer.at = answer.len

\* The block the driver is at has not reached the card.
Sending ==
    /\ runs = 0 /\ received = <<>>
    /\ last.at \in 1 .. cmdLen /\ expect = last.seq
    /\ Len(collected) = last.at - 1 /\ Own(collected)
    /\ rxSeq = cardSeq /\ ~asking /\ answer.at = answer.len

\* It has, and the card waits for the next one.
Chained ==
    /\ runs = 0 /\ received = <<>>
    /\ last.at \in 1 .. cmdLen /\ last.at < cmdLen /\ expect = Flip(last.seq)
    /\ Len(collected) = last.at /\ Own(collected)
    /\ rxSeq = cardSeq /\ ~asking /\ answer.at = answer.len

\* The card has run the command.
Ran ==
    /\ runs = 1
    /\ last.at = cmdLen /\ expect = Flip(last.seq)
    /\ collected = <<>> /\ answer.now

\* It has asked for time, and answers nothing yet.
Thinking ==
    /\ Ran /\ asking
    /\ answer.at = 0 /\ answer.len > 0 /\ rxSeq = cardSeq /\ received = <<>>

\* It is at a block of its answer, which the driver has, or has not.
Telling ==
    /\ Ran /\ ~asking
    /\ answer.at \in 1 .. answer.len /\ Own(received)
    /\ \/ rxSeq # cardSeq /\ Len(received) = answer.at - 1
       \/ rxSeq = cardSeq /\ Len(received) = answer.at /\ answer.at < answer.len

Phase == Sending \/ Chained \/ Thinking \/ Telling

\* What a block on the line says is so.
ToCard ==
    /\ wire.kind = "I" => /\ wire.seq = last.seq /\ (wire.more <=> last.at < cmdLen)
                          /\ wire.piece = [now |-> TRUE, at |-> last.at]
    /\ wire.kind = "R" => wire.seq = Flip(rxSeq)

ToHost ==
    /\ wire.kind = "I" => /\ Telling
                          /\ wire.seq = cardSeq /\ (wire.more <=> answer.at < answer.len)
                          /\ wire.piece = [now |-> TRUE, at |-> answer.at]
    /\ wire.kind = "R" => wire.seq = expect /\ (~wire.nack => collected # <<>>)

\* The outcome is this session's, and its user goes on after it.
Settling == left > 0 \/ rsp = "this"
GoesOn == user \in {"open", "greeted", "ready"} /\ (Settling => outcome = "whole")

\* A session over a card that was powered up for it.
Fresh ==
    /\ turn = "idle" /\ GoesOn => InStep
    /\ turn = "idle" /\ Settling => outcome \in {"whole", "prefix", "failure"}
    /\ rsp = "this" => outcome # "failure"
    /\ Settling /\ outcome = "prefix" => gaveUp
    /\ Settling /\ outcome \in {"whole", "prefix"} => runs = 1
    /\ turn = "start" => InStep /\ runs = 0
    /\ turn \in {"card", "host"} => Phase
    /\ turn = "card" => ToCard
    /\ turn = "host" => ToHost

\* What holds in every session: an exchange belongs to a write, a write to an
\* open node, and there is no answer until the write is through.
Sessions ==
    /\ turn # "idle" => left > 0 /\ outcome = "none"
    /\ left > 0 => user \in {"open", "ready"} /\ rsp = "none"
    /\ rsp = "this" => user \in {"open", "ready"}
    /\ user = "closed" => ~fresh
    /\ turn \in {"idle", "start"} => received = <<>>

SEInv == SETypeOK /\ Sessions /\ (fresh => Fresh)

------------------------------------------------------------------------------
\* Types.

LEMMA FlipBit == \A b \in Bit : Flip(b) \in Bit /\ Flip(b) # b /\ Flip(Flip(b)) = b
BY DEF Flip, Bit

\* An I-block says whether more follow.
LEMMA IBlockIs ==
    ASSUME NEW seq, NEW piece, NEW at, NEW len, NEW b, b = IBlock(seq, at < len, piece)
    PROVE  b.kind = "I" /\ b.seq = seq /\ b.piece = piece /\ (b.more <=> at < len)
<1>1. b.kind = "I" /\ b.seq = seq /\ b.piece = piece
  BY DEF IBlock
<1>2. CASE at < len
  <2>1. (at < len) = TRUE
    BY <1>2
  <2>2. b = [kind |-> "I", seq |-> seq, more |-> TRUE, piece |-> piece]
    BY <2>1, Zenon DEF IBlock
  <2> QED
    BY <1>1, <1>2, <2>2
<1>3. CASE ~(at < len)
  <2>1. (at < len) = FALSE
    BY <1>3
  <2>2. b = [kind |-> "I", seq |-> seq, more |-> FALSE, piece |-> piece]
    BY <2>1, Zenon DEF IBlock
  <2> QED
    BY <1>1, <1>3, <2>2
<1> QED
  BY <1>2, <1>3

\* The frame that stands for a block is a block, and says what the block says.
LEMMA FrameIs ==
    ASSUME SETypeOK, NEW t \in Lasts, NEW b \in Bit
    PROVE  /\ Frame(t, b) \in Blocks
           /\ Frame(t, b).kind = (IF t.type \in {"I", "R"} THEN t.type ELSE "S")
           /\ t.type = "I" => Frame(t, b) = IBlock(t.seq, t.at < cmdLen, [now |-> TRUE, at |-> t.at])
           /\ t.type = "R" => Frame(t, b) = RBlock(Flip(b), t.nack)
BY FlipBit DEF Frame, Blocks, Lasts, IBlock, RBlock, SBlock, Pieces

\* What iso7816_t1_send leaves behind: the block on the line, or a failed exchange.
LEMMA SendTyped ==
    ASSUME SETypeOK, NEW t \in Lasts, NEW b \in Bit, NEW got \in Seq(Pieces), Send(t, b, got)
    PROVE  /\ last' \in Lasts /\ lastFrame' \in {"none", "I", "R", "S"}
           /\ turn' \in {"card", "idle"} /\ wire' \in Blocks
           /\ received' \in Seq(Pieces)
           /\ outcome' \in {"none", "whole", "prefix", "wrong", "failure"}
           /\ faults' \in 0 .. MaxFaults
<1>1. Frame(t, b) \in Blocks
  BY FrameIs
<1>2. t.type \in {"none", "I", "R", "S"}
  BY DEF Lasts
<1>3. lastFrame' \in {"none", "I", "R", "S"}
  BY <1>2 DEF SETypeOK, Send, Remembered
<1>4. <<>> \in Seq(Pieces)
  OBVIOUS
<1>5. Fault => faults' \in 0 .. MaxFaults
  BY FaultsAssumption DEF Fault, SETypeOK
<1>6. last' = t /\ (\/ turn' = "card" /\ wire' = Frame(t, b) /\ received' = got
                       /\ UNCHANGED <<outcome, faults>>
                    \/ turn' = "idle" /\ wire' = wire /\ received' = <<>>
                       /\ outcome' = "failure" /\ Fault)
  BY DEF Send
<1> QED
  BY <1>1, <1>3, <1>4, <1>5, <1>6 DEF SETypeOK

LEMMA VerdictIs ==
    ASSUME NEW clean, NEW got
    PROVE  Verdict(clean, got) \in {"whole", "prefix", "wrong", "failure"}
BY DEF Verdict

LEMMA AnswersTyped ==
    ASSUME SETypeOK, NEW a \in [len: 0 .. MaxAns, at: 0 .. MaxAns, now: BOOLEAN],
           CardAnswers(a)
    PROVE  /\ answer' = a /\ cardSeq' \in Bit /\ wire' \in Blocks /\ turn' = "host"
           /\ UNCHANGED <<hostVars, outcome, gaveUp, faults>>
<1>1. a.at \in Nat /\ a.now \in BOOLEAN
  BY SizesAssumption
<1>2. [now |-> a.now, at |-> a.at] \in Pieces
  BY <1>1 DEF Pieces
<1> QED
  BY <1>2, FlipBit DEF SETypeOK, CardAnswers, Reply, IBlock, Blocks

\* The collected blocks, once they are those of an earlier command.
LEMMA AgedIs ==
    ASSUME NEW pieces \in Seq(Pieces)
    PROVE  LET aged == [i \in DOMAIN pieces |-> [pieces[i] EXCEPT !.now = FALSE]]
           IN  aged \in Seq(Pieces) /\ Len(aged) = Len(pieces)
<1> DEFINE aged == [i \in DOMAIN pieces |-> [pieces[i] EXCEPT !.now = FALSE]]
<1>1. DOMAIN pieces = 1 .. Len(pieces) /\ Len(pieces) \in Nat
  OBVIOUS
<1>2. \A i \in 1 .. Len(pieces) : [pieces[i] EXCEPT !.now = FALSE] \in Pieces
  <2>1. \A p \in Pieces : [p EXCEPT !.now = FALSE] \in Pieces
    BY DEF Pieces
  <2> QED
    BY <2>1, <1>1
<1>3. aged \in [1 .. Len(pieces) -> Pieces]
  BY <1>1, <1>2
<1>4. aged \in Seq(Pieces) /\ Len(aged) = Len(pieces)
  BY <1>1, <1>3
<1> QED
  BY <1>4

LEMMA InitTyped == SEInit => SETypeOK
<1> SUFFICES ASSUME SEInit PROVE SETypeOK
  OBVIOUS
<1>1. last \in Lasts /\ wire \in Blocks /\ answer \in [len: 0 .. MaxAns, at: 0 .. MaxAns, now: BOOLEAN]
  BY SizesAssumption DEF SEInit, Init, Bit, NoAnswer, Blocks, Lasts
<1>2. /\ cmdLen \in 1 .. MaxCmd /\ left \in 0 .. MaxChain /\ faults \in 0 .. MaxFaults
      /\ recovery \in 0 .. FrameRetries /\ timeouts \in 0 .. TimeoutRetries
      /\ rnacks \in 0 .. NackRetries
  BY SizesAssumption, RetriesAssumption, FaultsAssumption, ChainAssumption DEF SEInit, Init
<1>3. received \in Seq(Pieces) /\ collected \in Seq(Pieces)
  BY DEF SEInit, Init
<1>4. rxSeq \in Bit /\ expect \in Bit /\ cardSeq \in Bit /\ runs \in 0 .. 2
  BY DEF SEInit, Init, Bit
<1>5. asking \in BOOLEAN /\ gaveUp \in BOOLEAN /\ powered \in BOOLEAN /\ fresh \in BOOLEAN
  BY DEF SEInit, Init
<1>6. /\ turn \in {"idle", "start", "card", "host"} /\ lastFrame \in {"none", "I", "R", "S"}
      /\ outcome \in {"none", "whole", "prefix", "wrong", "failure"}
      /\ user \in {"closed", "open", "greeted", "ready", "failed"}
      /\ rsp \in {"none", "this", "earlier"}
  BY DEF SEInit, Init
<1> QED
  BY <1>1, <1>2, <1>3, <1>4, <1>5, <1>6 DEF SETypeOK

\* What sending or ending leaves behind besides the driver's counters.
SentTyped ==
    /\ turn' \in {"idle", "start", "card", "host"}
    /\ last' \in Lasts /\ lastFrame' \in {"none", "I", "R", "S"}
    /\ wire' \in Blocks /\ received' \in Seq(Pieces)
    /\ outcome' \in {"none", "whole", "prefix", "wrong", "failure"}
    /\ faults' \in 0 .. MaxFaults

LEMMA SendsTyped ==
    ASSUME SETypeOK, NEW t \in Lasts, NEW b \in Bit, NEW got \in Seq(Pieces), Send(t, b, got)
    PROVE  SentTyped
BY SendTyped DEF SentTyped

LEMMA EndsTyped ==
    ASSUME SETypeOK, NEW clean, NEW got, End(clean, got), NoFault
    PROVE  SentTyped
<1>1. Verdict(clean, got) \in {"whole", "prefix", "wrong", "failure"}
  BY VerdictIs
<1> QED
  BY <1>1 DEF SentTyped, SETypeOK, End, NoFault

\* What the driver may send next.
LEMMA NextTyped ==
    ASSUME SETypeOK
    PROVE  /\ last \in Lasts /\ Ack \in Lasts /\ Nack \in Lasts
           /\ [last EXCEPT !.type = "S"] \in Lasts
           /\ [last EXCEPT !.type = "I", !.seq = Flip(@), !.at = 1] \in Lasts
           /\ [last EXCEPT !.type = "I", !.seq = Flip(@), !.at = @ + 1] \in Lasts
           /\ \A n : Wanted(n) \in Lasts
<1>1. last \in Lasts
  BY DEF SETypeOK
<1>2. \A t \in {"none", "I", "R", "S"} : \A nack \in BOOLEAN :
        /\ [last EXCEPT !.type = t] \in Lasts
        /\ [last EXCEPT !.type = t, !.nack = nack] \in Lasts
  BY <1>1 DEF Lasts
<1>3. \A at \in Nat : [last EXCEPT !.type = "I", !.seq = Flip(last.seq), !.at = at] \in Lasts
  BY <1>1, FlipBit DEF Lasts
<1>4. last.at + 1 \in Nat /\ 1 \in Nat
  BY <1>1 DEF Lasts
<1>5. Ack \in Lasts /\ Nack \in Lasts
  BY <1>2 DEF Ack, Nack
<1>6. \A n : Wanted(n) \in Lasts
  BY <1>1, <1>2, <1>5 DEF Wanted
<1> QED
  BY <1>1, <1>2, <1>3, <1>4, <1>5, <1>6

\* The frames of the driver's turn.
HostRest ==
    UNCHANGED <<cmdLen, expect, cardSeq, collected, answer, asking, runs, deviceVars>>

LEMMA HostTyped ==
    ASSUME SETypeOK, SentTyped, HostRest, rxSeq' \in Bit, gaveUp' \in BOOLEAN,
           recovery' \in 0 .. FrameRetries, timeouts' \in 0 .. TimeoutRetries,
           rnacks' \in 0 .. NackRetries
    PROVE  SETypeOK'
BY DEF SETypeOK, SentTyped, HostRest, deviceVars

LEMMA GiveUpTyped ==
    ASSUME SETypeOK, GiveUp
    PROVE  SentTyped /\ recovery' \in 0 .. FrameRetries /\ gaveUp' \in BOOLEAN
<1>1. End(TRUE, received) /\ NoFault
  BY DEF GiveUp
<1>2. SentTyped
  BY <1>1, EndsTyped
<1> QED
  BY <1>2, RetriesAssumption DEF GiveUp

LEMMA AskAgainTyped ==
    ASSUME SETypeOK, AskAgain
    PROVE  /\ SentTyped /\ rnacks' \in 0 .. NackRetries
           /\ rxSeq' \in Bit /\ recovery' \in 0 .. FrameRetries /\ gaveUp' \in BOOLEAN
<1>1. rnacks' \in 0 .. NackRetries
  <2>1. rnacks \in 0 .. NackRetries /\ ((rnacks' = rnacks + 1 /\ rnacks < NackRetries) \/ rnacks' = 0)
    BY DEF SETypeOK, AskAgain
  <2> QED
    BY <2>1, RetriesAssumption
<1>2. SentTyped
  BY SendsTyped, EndsTyped, NextTyped DEF AskAgain, SETypeOK
<1> QED
  BY <1>1, <1>2 DEF SETypeOK, AskAgain

LEMMA HostKeepsTypes ==
    ASSUME SETypeOK, Host, UNCHANGED deviceVars
    PROVE  SETypeOK'
<1>1. /\ rxSeq \in Bit /\ received \in Seq(Pieces) /\ gaveUp \in BOOLEAN
      /\ recovery \in 0 .. FrameRetries /\ timeouts \in 0 .. TimeoutRetries
      /\ rnacks \in 0 .. NackRetries
  BY DEF SETypeOK
<1>2. 0 \in 0 .. FrameRetries /\ 0 \in 0 .. TimeoutRetries /\ 0 \in 0 .. NackRetries
  BY RetriesAssumption
<1>3. recovery < FrameRetries => recovery + 1 \in 0 .. FrameRetries
  BY <1>1, RetriesAssumption
<1>4. \A kind : HostTurn(kind) => HostRest
  BY DEF HostTurn, HostRest, cardVars
<1>5. wire.kind = "I" => wire.seq \in Bit /\ wire.piece \in Pieces
  BY DEF SETypeOK, Blocks, Silence, Damaged, Noise, SBlock
<1>6. wire.kind = "I" => Append(received, wire.piece) \in Seq(Pieces)
  BY <1>1, <1>5
<1>7. CASE HostStores
  <2>1. HostTurn("I") /\ GoodFrame /\ rxSeq' = wire.seq /\ recovery' = 0 /\ UNCHANGED gaveUp
    BY <1>7 DEF HostStores
  <2>2. wire.kind = "I"
    BY <2>1 DEF HostTurn
  <2>3. SentTyped
    <3>1. CASE wire.more
      BY <1>5, <1>6, <1>7, <2>2, <3>1, SendsTyped, NextTyped DEF HostStores
    <3>2. CASE ~wire.more
      BY <1>7, <3>2, EndsTyped DEF HostStores
    <3> QED
      BY <3>1, <3>2
  <2> QED
    BY <1>1, <1>2, <1>4, <1>5, <2>1, <2>2, <2>3, HostTyped DEF GoodFrame
<1>8. CASE HostRefuses
  <2>1. SentTyped /\ recovery' \in 0 .. FrameRetries /\ gaveUp' \in BOOLEAN
    BY <1>1, <1>3, <1>8, SendsTyped, NextTyped, GiveUpTyped DEF HostRefuses
  <2> QED
    BY <1>1, <1>2, <1>4, <1>8, <2>1, HostTyped DEF HostRefuses, GoodFrame
<1>9. CASE HostContinues
  <2>1. SentTyped
    BY <1>1, <1>9, SendsTyped, NextTyped DEF HostContinues
  <2> QED
    BY <1>1, <1>2, <1>4, <1>9, <2>1, HostTyped DEF HostContinues, GoodFrame
<1>10. CASE HostRepeats
  <2>1. SentTyped /\ recovery' \in 0 .. FrameRetries /\ gaveUp' \in BOOLEAN
    BY <1>1, <1>3, <1>10, SendsTyped, NextTyped, GiveUpTyped DEF HostRepeats
  <2> QED
    BY <1>1, <1>2, <1>4, <1>10, <2>1, HostTyped DEF HostRepeats, GoodFrame
<1>11. CASE HostWaits
  <2>1. SentTyped
    BY <1>1, <1>11, SendsTyped, NextTyped DEF HostWaits
  <2> QED
    BY <1>1, <1>2, <1>4, <1>11, <2>1, HostTyped DEF HostWaits, GoodFrame
<1>12. CASE HostDamaged
  BY <1>2, <1>4, <1>12, AskAgainTyped, HostTyped DEF HostDamaged
<1>13. CASE HostNoise
  BY <1>1, <1>2, <1>4, <1>13, AskAgainTyped, HostTyped DEF HostNoise
<1>14. CASE HostTimeout
  <2>1. SentTyped
    BY <1>1, <1>14, SendsTyped, EndsTyped, NextTyped DEF HostTimeout
  <2>2. timeouts' \in 0 .. TimeoutRetries
    <3>1. (timeouts' = timeouts + 1 /\ timeouts < TimeoutRetries) \/ timeouts' = 0
      BY <1>14 DEF HostTimeout
    <3> QED
      BY <1>1, <3>1, RetriesAssumption
  <2> QED
    BY <1>1, <1>4, <1>14, <2>1, <2>2, HostTyped DEF HostTimeout
<1> QED
  BY <1>7, <1>8, <1>9, <1>10, <1>11, <1>12, <1>13, <1>14 DEF Host

LEMMA CardKeepsTypes ==
    ASSUME SETypeOK, Card, UNCHANGED deviceVars
    PROVE  SETypeOK'
<1> DEFINE Answers == [len: 0 .. MaxAns, at: 0 .. MaxAns, now: BOOLEAN]
<1>1. /\ expect \in Bit /\ cardSeq \in Bit /\ collected \in Seq(Pieces) /\ answer \in Answers
      /\ Flip(expect) \in Bit /\ runs \in 0 .. 2 /\ <<>> \in Seq(Pieces)
  BY FlipBit DEF SETypeOK
<1>2. ASSUME NEW b \in Blocks, Reply(b), expect' \in Bit, cardSeq' \in Bit,
             collected' \in Seq(Pieces), answer' \in Answers, asking' \in BOOLEAN, runs' \in 0 .. 2
      PROVE  SETypeOK'
  BY <1>2 DEF SETypeOK, Reply, hostVars, deviceVars
<1>3. ASSUME NEW a \in Answers, CardAnswers(a), expect' \in Bit,
             collected' \in Seq(Pieces), asking' \in BOOLEAN, runs' \in 0 .. 2
      PROVE  SETypeOK'
  BY <1>3, AnswersTyped DEF SETypeOK, hostVars, deviceVars
<1>4. \A b \in Bit : \A nack \in BOOLEAN : RBlock(b, nack) \in Blocks
  BY DEF RBlock, Blocks
<1>5. wire.kind = "I" => wire.piece \in Pieces
  BY DEF SETypeOK, Blocks, Silence, Damaged, Noise, SBlock
<1>6. SBlock \in Blocks /\ Silence \in Blocks
  BY DEF Blocks
<1>7. CASE CardCollects
  <2>1. collected' \in Seq(Pieces)
    BY <1>1, <1>5, <1>7 DEF CardCollects, CardTurn
  <2>2. NoAnswer \in Answers
    BY SizesAssumption DEF NoAnswer
  <2> QED
    BY <1>1, <1>2, <1>4, <1>7, <2>1, <2>2 DEF CardCollects
<1>8. CASE CardRuns
  <2>1. collected' \in Seq(Pieces) /\ runs' \in 0 .. 2 /\ expect' \in Bit
    BY <1>1, <1>8 DEF CardRuns
  <2>2. PICK len \in 1 .. MaxAns :
          \/ CardAnswers([len |-> len, at |-> 1, now |-> TRUE]) /\ asking' = FALSE
          \/ /\ answer' = [len |-> len, at |-> 0, now |-> TRUE]
             /\ asking' = TRUE
             /\ UNCHANGED cardSeq
             /\ Reply(SBlock)
    BY <1>8 DEF CardRuns
  <2>3. [len |-> len, at |-> 1, now |-> TRUE] \in Answers /\ [len |-> len, at |-> 0, now |-> TRUE] \in Answers
    BY SizesAssumption
  <2> QED
    BY <1>1, <1>2, <1>3, <1>6, <2>1, <2>2, <2>3
<1>9. CASE CardResumes
  <2>1. [answer EXCEPT !.at = 1] \in Answers
    BY <1>1, SizesAssumption
  <2> QED
    BY <1>1, <1>3, <1>9, <2>1 DEF CardResumes
<1>10. CASE CardContinues
  <2>1. [answer EXCEPT !.at = @ + 1] \in Answers
    BY <1>1, <1>10, SizesAssumption DEF CardContinues
  <2> QED
    BY <1>1, <1>3, <1>10, <2>1 DEF CardContinues, SETypeOK
<1>11. CASE CardRepeats
  <2>1. IBlock(cardSeq, answer.at < answer.len, [now |-> answer.now, at |-> answer.at]) \in Blocks
    <3>1. [now |-> answer.now, at |-> answer.at] \in Pieces
      BY <1>1, SizesAssumption DEF Pieces
    <3> QED
      BY <1>1, <3>1 DEF IBlock, Blocks
  <2>2. \E b \in Blocks : Reply(b)
    BY <1>1, <1>4, <1>6, <1>11, <2>1 DEF CardRepeats
  <2> QED
    BY <1>1, <1>2, <1>11, <2>2 DEF CardRepeats, cardVars, SETypeOK
<1>12. CASE CardRefuses
  BY <1>1, <1>2, <1>4, <1>12 DEF CardRefuses, cardVars, SETypeOK
<1>13. CASE CardMisses
  BY <1>1, <1>2, <1>6, <1>13 DEF CardMisses, cardVars, SETypeOK
<1> QED
  BY <1>7, <1>8, <1>9, <1>10, <1>11, <1>12, <1>13 DEF Card

\* A command is asked, by a write or for the next of a chain.
LEMMA AskIs ==
    ASSUME SETypeOK, NEW n \in 1 .. MaxCmd, Ask(n)
    PROVE  /\ turn = "idle" /\ turn' = "start" /\ cmdLen' = n
           /\ collected' \in Seq(Pieces) /\ Len(collected') = Len(collected)
           /\ answer' \in [len: 0 .. MaxAns, at: 0 .. MaxAns, now: BOOLEAN]
           /\ answer'.at = answer.at /\ answer'.len = answer.len
           /\ runs' = 0 /\ outcome' = "none" /\ gaveUp' = FALSE
           /\ UNCHANGED <<last, lastFrame, rxSeq, recovery, timeouts, rnacks, received,
                          wire, expect, cardSeq, asking, faults>>
<1>1. collected \in Seq(Pieces) /\ answer \in [len: 0 .. MaxAns, at: 0 .. MaxAns, now: BOOLEAN]
  BY DEF SETypeOK
<1>2. collected' \in Seq(Pieces) /\ Len(collected') = Len(collected)
  BY <1>1, AgedIs DEF Ask
<1>3. answer' = [answer EXCEPT !.now = FALSE]
  BY DEF Ask
<1> QED
  BY <1>1, <1>2, <1>3 DEF Ask

LEMMA AskKeepsTypes ==
    ASSUME SETypeOK, NEW n \in 1 .. MaxCmd, Ask(n), left' \in 0 .. MaxChain,
           rsp' \in {"none", "this", "earlier"}, UNCHANGED <<powered, user, fresh>>
    PROVE  SETypeOK'
<1>1. /\ turn' = "start" /\ cmdLen' = n /\ collected' \in Seq(Pieces)
      /\ answer' \in [len: 0 .. MaxAns, at: 0 .. MaxAns, now: BOOLEAN]
      /\ runs' = 0 /\ outcome' = "none" /\ gaveUp' = FALSE
      /\ UNCHANGED <<last, lastFrame, rxSeq, recovery, timeouts, rnacks, received,
                     wire, expect, cardSeq, asking, faults>>
  BY AskIs
<1>2. cmdLen' \in 1 .. MaxCmd /\ runs' \in 0 .. 2
  BY <1>1
<1>3. gaveUp' \in BOOLEAN /\ outcome' \in {"none", "whole", "prefix", "wrong", "failure"}
      /\ turn' \in {"idle", "start", "card", "host"}
  BY <1>1
<1>4. UNCHANGED <<last, lastFrame, rxSeq, recovery, timeouts, rnacks, received,
                  wire, expect, cardSeq, asking, faults, powered, user, fresh>>
  BY <1>1
<1> QED
  BY <1>1, <1>2, <1>3, <1>4 DEF SETypeOK

LEMMA ResetHostTyped ==
    ASSUME SETypeOK, ResetParams
    PROVE  /\ last' \in Lasts /\ lastFrame' = "none" /\ rxSeq' \in Bit
           /\ recovery' \in 0 .. FrameRetries /\ timeouts' \in 0 .. TimeoutRetries
           /\ rnacks' \in 0 .. NackRetries
BY RetriesAssumption DEF ResetParams, Lasts, Bit

LEMMA ResetCardTyped ==
    ASSUME ResetCard
    PROVE  /\ expect' \in Bit /\ cardSeq' \in Bit /\ collected' \in Seq(Pieces)
           /\ answer' \in [len: 0 .. MaxAns, at: 0 .. MaxAns, now: BOOLEAN] /\ asking' \in BOOLEAN
<1>1. NoAnswer \in [len: 0 .. MaxAns, at: 0 .. MaxAns, now: BOOLEAN]
  BY SizesAssumption DEF NoAnswer
<1>2. <<>> \in Seq(Pieces)
  OBVIOUS
<1> QED
  BY <1>1, <1>2 DEF ResetCard, Bit

LEMMA FaultTyped == SETypeOK /\ (Fault \/ NoFault) => faults' \in 0 .. MaxFaults
BY FaultsAssumption DEF SETypeOK, Fault, NoFault

LEMMA ProtocolKeepsTypes ==
    ASSUME SETypeOK, Protocol
    PROVE  SETypeOK'
<1>1. CASE LineFails /\ UNCHANGED deviceVars
  <2>1. wire' \in Blocks /\ faults' \in 0 .. MaxFaults
    BY <1>1, FaultTyped DEF LineFails, Blocks
  <2> QED
    BY <1>1, <2>1 DEF LineFails, SETypeOK, hostVars, cardVars, pathVars, deviceVars
<1>2. CASE SendFirst /\ UNCHANGED deviceVars
  <2>1. rxSeq \in Bit /\ received \in Seq(Pieces)
    BY DEF SETypeOK
  <2>2. SentTyped
    BY <1>2, <2>1, NextTyped, SendsTyped DEF SendFirst
  <2> QED
    BY <1>2, <2>2 DEF SendFirst, SETypeOK, SentTyped, cardVars, deviceVars
<1> QED
  BY <1>1, <1>2, HostKeepsTypes, CardKeepsTypes DEF Protocol

LEMMA StepKeepsTypes ==
    ASSUME SETypeOK, [SENext]_allVars
    PROVE  SETypeOK'
<1>1. CASE DevOpen
  <2>1. /\ expect' \in Bit /\ cardSeq' \in Bit /\ collected' \in Seq(Pieces) /\ asking' \in BOOLEAN
        /\ answer' \in [len: 0 .. MaxAns, at: 0 .. MaxAns, now: BOOLEAN]
    <3>1. CASE ResetCard
      BY <3>1, ResetCardTyped
    <3>2. CASE UNCHANGED cardVars
      BY <3>2 DEF cardVars, SETypeOK
    <3> QED
      BY <1>1, <3>1, <3>2 DEF DevOpen
  <2>2. /\ last' \in Lasts /\ lastFrame' = "none" /\ rxSeq' \in Bit
        /\ recovery' \in 0 .. FrameRetries /\ timeouts' \in 0 .. TimeoutRetries
        /\ rnacks' \in 0 .. NackRetries
    BY <1>1, ResetHostTyped DEF DevOpen
  <2>3. faults' \in 0 .. MaxFaults
    BY <1>1, FaultTyped DEF DevOpen, SupplyOn, SupplyOnFails
  <2>4. /\ powered' \in BOOLEAN /\ user' \in {"closed", "open", "greeted", "ready", "failed"}
        /\ fresh' \in BOOLEAN
    BY <1>1 DEF DevOpen, SupplyOn, SupplyOnFails, SETypeOK
  <2>5. UNCHANGED <<turn, received, cmdLen, wire, runs, outcome, gaveUp, left, rsp>>
    BY <1>1 DEF DevOpen, pathVars
  <2> QED
    BY <2>1, <2>2, <2>3, <2>4, <2>5 DEF SETypeOK
<1>2. CASE DevClose
  <2>1. faults' \in 0 .. MaxFaults /\ powered' \in BOOLEAN
    BY <1>2, FaultTyped DEF DevClose, SupplyOff, SETypeOK
  <2>2. rsp' \in {"none", "this", "earlier"} /\ user' = "closed" /\ fresh' = FALSE
    BY <1>2 DEF DevClose
  <2>3. UNCHANGED <<turn, hostVars, wire, cardVars, pathVars, left>>
    BY <1>2 DEF DevClose
  <2> QED
    BY <2>1, <2>2, <2>3 DEF SETypeOK, hostVars, cardVars, pathVars
<1>3. CASE DevWrite
  <2>1. PICK n \in 1 .. MaxCmd : Ask(n)
    BY <1>3 DEF DevWrite
  <2>2. left' \in 0 .. MaxChain
    <3>1. left' = 1 \/ left' \in 1 .. MaxChain
      BY <1>3 DEF DevWrite
    <3> QED
      BY <3>1, ChainAssumption
  <2>3. rsp' \in {"none", "this", "earlier"} /\ UNCHANGED <<powered, user, fresh>>
    BY <1>3 DEF DevWrite
  <2> QED
    BY <2>1, <2>2, <2>3, AskKeepsTypes
<1>4. CASE ChainNext
  <2>1. PICK n \in 1 .. MaxCmd : Ask(n)
    BY <1>4 DEF ChainNext
  <2>2. left' \in 0 .. MaxChain
    BY <1>4, ChainAssumption DEF ChainNext, SETypeOK
  <2>3. rsp' \in {"none", "this", "earlier"} /\ UNCHANGED <<powered, user, fresh>>
    BY <1>4 DEF ChainNext, SETypeOK
  <2> QED
    BY <2>1, <2>2, <2>3, AskKeepsTypes
<1>5. CASE ResetProtocol
  <2>1. UNCHANGED <<turn, received, cmdLen, wire, runs, outcome, gaveUp, faults, powered, left, rsp, fresh>>
        /\ user' = "ready"
    BY <1>5 DEF ResetProtocol, pathVars
  <2> QED
    BY <1>5, <2>1, ResetHostTyped, ResetCardTyped DEF ResetProtocol, SETypeOK
<1>6. ASSUME UNCHANGED vars, left' \in 0 .. MaxChain,
             user' \in {"closed", "open", "greeted", "ready", "failed"},
             rsp' \in {"none", "this", "earlier"}, UNCHANGED <<powered, fresh>>
      PROVE  SETypeOK'
  BY <1>6 DEF SETypeOK, vars, hostVars, cardVars, pathVars
<1>7. 0 \in 0 .. MaxChain
  BY ChainAssumption
<1>8. CASE ChainEnds
  BY <1>6, <1>7, <1>8 DEF ChainEnds, SETypeOK
<1>9. CASE ChainFails
  BY <1>6, <1>7, <1>9 DEF ChainFails, SETypeOK
<1>10. CASE DevRead
  BY <1>6, <1>10 DEF DevRead, ExpectStatus, SETypeOK
<1>11. CASE UNCHANGED allVars
  BY <1>6, <1>11 DEF allVars, deviceVars, SETypeOK
<1> QED
  BY <1>1, <1>2, <1>3, <1>4, <1>5, <1>8, <1>9, <1>10, <1>11, ProtocolKeepsTypes DEF SENext

------------------------------------------------------------------------------
\* The sessions.

LEMMA ProtocolKeepsSessions ==
    ASSUME Sessions, Protocol
    PROVE  Sessions'
<1>1. /\ turn # "idle" /\ left > 0 /\ outcome = "none"
      /\ turn' # "start" /\ UNCHANGED <<left, user, rsp, fresh>>
      /\ turn' # "idle" => outcome' = "none"
      /\ turn' = "idle" => received' = <<>>
  <2>1. CASE LineFails
    BY <2>1 DEF Protocol, LineFails, pathVars, deviceVars, Sessions
  <2>2. CASE SendFirst
    BY <2>2 DEF Protocol, SendFirst, Send, deviceVars, Sessions
  <2>3. CASE Card
    BY <2>3 DEF Protocol, Card, CardCollects, CardRuns, CardResumes, CardContinues,
         CardRepeats, CardRefuses, CardMisses, CardTurn, CardAnswers, Reply, deviceVars, Sessions
  <2>4. CASE Host
    <3>1. turn = "host"
      BY <2>4 DEF Host, HostStores, HostRefuses, HostContinues, HostRepeats, HostWaits,
           HostDamaged, HostNoise, HostTimeout, HostTurn
    <3>2. /\ turn' # "start"
          /\ turn' # "idle" => outcome' = outcome
          /\ turn' = "idle" => received' = <<>>
      BY <2>4 DEF Host, HostStores, HostRefuses, HostContinues, HostRepeats, HostWaits,
           HostDamaged, HostNoise, HostTimeout, AskAgain, GiveUp, Send, End
    <3> QED
      BY <3>1, <3>2 DEF Protocol, deviceVars, Sessions
  <2> QED
    BY <2>1, <2>2, <2>3, <2>4 DEF Protocol
<1> QED
  BY <1>1 DEF Sessions

LEMMA StepKeepsSessions ==
    ASSUME SETypeOK, Sessions, [SENext]_allVars
    PROVE  Sessions'
<1>0. left \in Nat
  BY ChainAssumption DEF SETypeOK
<1>1. CASE DevOpen
  BY <1>0, <1>1 DEF DevOpen, Sessions, pathVars
<1>2. CASE DevClose
  BY <1>0, <1>2 DEF DevClose, Sessions, hostVars, pathVars
<1>3. CASE DevWrite
  <2>1. left' > 0
    BY <1>3 DEF DevWrite
  <2> QED
    BY <1>3, <2>1 DEF DevWrite, Ask, Sessions
<1>4. CASE ChainNext
  <2>1. left' > 0
    BY <1>0, <1>4 DEF ChainNext
  <2> QED
    BY <1>4, <2>1 DEF ChainNext, Settled, Ask, Sessions
<1>5. CASE ResetProtocol
  BY <1>5 DEF ResetProtocol, Sessions, pathVars
<1>6. CASE ChainEnds
  BY <1>6 DEF ChainEnds, Settled, Sessions, vars, hostVars, pathVars
<1>7. CASE ChainFails
  BY <1>7 DEF ChainFails, Settled, Sessions, vars, hostVars, pathVars
<1>8. CASE DevRead
  BY <1>8 DEF DevRead, ExpectStatus, Sessions, vars, hostVars, pathVars
<1>9. CASE UNCHANGED allVars
  BY <1>9 DEF Sessions, allVars, vars, hostVars, pathVars, deviceVars
<1> QED
  BY <1>1, <1>2, <1>3, <1>4, <1>5, <1>6, <1>7, <1>8, <1>9, ProtocolKeepsSessions DEF SENext

------------------------------------------------------------------------------
\* A session over a card that was powered up for it: what the parts of a step do.

\* What both sides agree on is left alone.
LEMMA SamePhase ==
    ASSUME Phase, last'.seq = last.seq, last'.at = last.at,
           UNCHANGED <<received, rxSeq, cmdLen, runs, expect, cardSeq, collected, answer, asking>>
    PROVE  Phase'
BY DEF Phase, Sending, Chained, Thinking, Telling, Ran, Own

\* The driver sends in the phase that it has come to, or the bus refuses.
LEMMA SentFresh ==
    ASSUME SETypeOK, Sessions, turn # "idle", UNCHANGED deviceVars, cmdLen' = cmdLen,
           NEW t \in Lasts, NEW b \in Bit, NEW got \in Seq(Pieces), Send(t, b, got),
           rxSeq' = b, turn' = "card" => Phase'
    PROVE  Fresh'
<1>1. CASE turn' = "card"
  <2>1. last' = t /\ wire' = Frame(t, b)
    BY <1>1 DEF Send
  <2>2. ToCard'
    <3>1. Frame(t, b).kind = (IF t.type \in {"I", "R"} THEN t.type ELSE "S")
      BY FrameIs
    <3>2. t.type = "I" => Frame(t, b) = IBlock(t.seq, t.at < cmdLen, [now |-> TRUE, at |-> t.at])
      BY FrameIs
    <3>3. t.type = "R" => Frame(t, b) = RBlock(Flip(b), t.nack)
      BY FrameIs
    <3>4. wire'.kind = "I" => wire'.seq = last'.seq /\ (wire'.more <=> last'.at < cmdLen')
                              /\ wire'.piece = [now |-> TRUE, at |-> last'.at]
      BY <2>1, <3>1, <3>2, IBlockIs
    <3>5. wire'.kind = "R" => wire'.seq = Flip(rxSeq')
      BY <2>1, <3>1, <3>3 DEF RBlock
    <3> QED
      BY <3>4, <3>5 DEF ToCard
  <2>3. ~Settling' \/ outcome' = "none"
    BY <1>1 DEF Send, Sessions
  <2>4. left' > 0 /\ rsp' = "none"
    BY DEF Sessions, deviceVars
  <2> QED
    BY <1>1, <2>2, <2>3, <2>4 DEF Fresh, Send, Sessions
<1>2. CASE turn' = "idle"
  <2>1. outcome' = "failure" /\ left' > 0 /\ rsp' = "none"
    BY <1>2 DEF Send, Sessions, deviceVars
  <2> QED
    BY <1>2, <2>1 DEF Fresh, Settling, GoesOn
<1> QED
  BY <1>1, <1>2, SendTyped

\* It sends what belongs to the block it is at.
LEMMA AgainFresh ==
    ASSUME SETypeOK, Sessions, Fresh, turn = "host", HostRest, UNCHANGED rxSeq,
           NEW t \in Lasts, t.seq = last.seq, t.at = last.at, Send(t, rxSeq, received)
    PROVE  Fresh'
<1>1. rxSeq \in Bit /\ received \in Seq(Pieces)
  BY DEF SETypeOK
<1>2. turn' = "card" => Phase'
  <2>1. Phase
    BY DEF Fresh
  <2> QED
    BY <2>1, SamePhase DEF Send, HostRest
<1> QED
  BY <1>1, <1>2, SentFresh DEF HostRest

\* An exchange ends.
LEMMA EndedFresh ==
    ASSUME Sessions, turn # "idle", HostRest, NEW clean, NEW got, End(clean, got),
           Verdict(clean, got) # "wrong",
           Verdict(clean, got) = "prefix" => gaveUp',
           Verdict(clean, got) = "whole" => InStep',
           Verdict(clean, got) \in {"whole", "prefix"} => runs = 1
    PROVE  Fresh'
<1>1. turn' = "idle" /\ left' > 0 /\ rsp' = "none" /\ outcome' = Verdict(clean, got) /\ runs' = runs
  BY DEF End, Sessions, HostRest, deviceVars
<1>2. outcome' \in {"whole", "prefix", "failure"}
  BY <1>1, VerdictIs
<1> QED
  BY <1>1, <1>2 DEF Fresh, Settling, GoesOn

LEMMA GaveUpFresh ==
    ASSUME SETypeOK, Sessions, Fresh, turn = "host", HostRest, GiveUp
    PROVE  Fresh'
<1>1. Phase
  BY DEF Fresh
<1>2. received \in Seq(Pieces) /\ answer.at \in Nat /\ answer.len \in Nat
  BY DEF SETypeOK
<1>3. received = <<>> \/ (Own(received) /\ Len(received) # answer.len /\ runs = 1)
  BY <1>1, <1>2 DEF Phase, Sending, Chained, Thinking, Telling, Ran
<1>4. Verdict(TRUE, received) = "failure" \/ (Verdict(TRUE, received) = "prefix" /\ runs = 1)
  <2>1. DOMAIN received = 1 .. Len(received)
    BY <1>2
  <2> QED
    BY <1>3, <2>1 DEF Verdict, Own
<1>5. End(TRUE, received) /\ gaveUp' = TRUE
  BY DEF GiveUp
<1> QED
  BY <1>4, <1>5, EndedFresh

LEMMA AskedAgainFresh ==
    ASSUME SETypeOK, Sessions, Fresh, turn = "host", HostRest, AskAgain
    PROVE  Fresh'
<1>1. CASE Send(Nack, rxSeq, received)
  BY <1>1, NextTyped, AgainFresh DEF Nack, SETypeOK, Lasts, AskAgain
<1>2. CASE End(FALSE, received)
  BY <1>2, EndedFresh DEF Verdict
<1> QED
  BY <1>1, <1>2 DEF AskAgain

------------------------------------------------------------------------------
\* One step of such a session.

LEMMA HostKeepsFresh ==
    ASSUME SETypeOK, Sessions, fresh, Fresh, Host, UNCHANGED deviceVars
    PROVE  Fresh'
<1>1. \A kind : HostTurn(kind) => turn = "host" /\ wire.kind = kind /\ HostRest
  BY DEF HostTurn, HostRest, cardVars
<1>2. turn = "host" => Phase /\ ToHost
  BY DEF Fresh
<1>3. /\ rxSeq \in Bit /\ expect \in Bit /\ cardSeq \in Bit /\ last \in Lasts
      /\ received \in Seq(Pieces) /\ collected \in Seq(Pieces) /\ cmdLen \in Nat
      /\ answer.at \in Nat /\ answer.len \in Nat
  BY SizesAssumption DEF SETypeOK
<1>4. last.seq \in Bit /\ last.at \in Nat
  BY <1>3 DEF Lasts
<1>5. CASE HostStores
  <2>1. turn = "host" /\ wire.kind = "I" /\ HostRest /\ wire.seq # rxSeq /\ rxSeq' = wire.seq
    BY <1>1, <1>5 DEF HostStores
  <2>2. /\ Telling /\ wire.seq = cardSeq /\ (wire.more <=> answer.at < answer.len)
        /\ wire.piece = [now |-> TRUE, at |-> answer.at]
    BY <1>2, <2>1 DEF ToHost
  <2>3. Len(received) = answer.at - 1 /\ Own(received) /\ answer.at \in 1 .. answer.len
    BY <2>1, <2>2 DEF Telling
  <2> DEFINE got == Append(received, wire.piece)
  <2>4. /\ got \in Seq(Pieces) /\ Len(got) = answer.at
        /\ \A i \in 1 .. Len(got) : got[i] = [now |-> TRUE, at |-> i]
    <3>1. wire.piece \in Pieces
      BY <1>3, <2>2 DEF Pieces
    <3>2. /\ got \in Seq(Pieces) /\ Len(got) = Len(received) + 1
          /\ \A i \in 1 .. Len(got) : got[i] = IF i = Len(received) + 1 THEN wire.piece ELSE received[i]
      BY <1>3, <3>1
    <3> QED
      <4>1. Len(received) + 1 = answer.at /\ Len(received) \in Nat
        BY <1>3, <2>3
      <4>2. ASSUME NEW i \in 1 .. Len(got) PROVE got[i] = [now |-> TRUE, at |-> i]
        <5>1. CASE i = answer.at
          BY <2>2, <3>2, <4>1, <5>1
        <5>2. CASE i # answer.at
          <6>1. i \in 1 .. Len(received) /\ got[i] = received[i]
            BY <3>2, <4>1, <5>2
          <6> QED
            BY <2>3, <6>1 DEF Own
        <5> QED
          BY <5>1, <5>2
      <4> QED
        BY <3>2, <4>1, <4>2
  <2>5. CASE wire.more
    <3>1. Send(Ack, wire.seq, got)
      BY <1>5, <2>5 DEF HostStores
    <3>2. turn' = "card" => Phase'
      <4>1. ASSUME turn' = "card" PROVE Telling'
        <5>1. received' = got /\ last' = Ack /\ rxSeq' = cardSeq
          BY <2>1, <2>2, <3>1, <4>1 DEF Send
        <5>2. last'.at = last.at /\ last'.seq = last.seq
          BY <1>3, <5>1 DEF Ack, Lasts
        <5>3. Own(received')
          BY <2>4, <5>1 DEF Own
        <5> QED
          BY <2>1, <2>2, <2>4, <2>5, <5>1, <5>2, <5>3 DEF Telling, Ran, HostRest
      <4> QED
        BY <4>1 DEF Phase
    <3>3. Ack \in Lasts /\ wire.seq \in Bit
      BY <1>3, <2>2, NextTyped
    <3> QED
      BY <2>1, <2>4, <3>1, <3>2, <3>3, SentFresh DEF HostRest
  <2>6. CASE ~wire.more
    <3>1. End(TRUE, got)
      BY <1>5, <2>6 DEF HostStores
    <3>2. answer.at = answer.len
      BY <1>3, <2>2, <2>3, <2>6
    <3>3. Verdict(TRUE, got) = "whole"
      <4>1. DOMAIN got = 1 .. Len(got) /\ got # <<>>
        BY <2>3, <2>4
      <4> QED
        BY <2>4, <3>2, <4>1 DEF Verdict
    <3>4. InStep'
      BY <2>1, <2>2, <3>1, <3>2 DEF InStep, Telling, Ran, HostRest, End
    <3>5. runs = 1
      BY <2>2 DEF Telling, Ran
    <3> QED
      BY <2>1, <3>1, <3>3, <3>4, <3>5, EndedFresh
  <2> QED
    BY <2>5, <2>6
<1>6. CASE HostRefuses
  <2>1. turn = "host" /\ HostRest /\ UNCHANGED rxSeq
    BY <1>1, <1>6 DEF HostRefuses
  <2>2. CASE Send(Nack, rxSeq, received)
    BY <1>3, <2>1, <2>2, NextTyped, AgainFresh DEF Nack, Lasts
  <2>3. CASE GiveUp
    BY <2>1, <2>3, GaveUpFresh
  <2> QED
    BY <1>6, <2>2, <2>3 DEF HostRefuses
<1>7. CASE HostContinues
  <2>1. turn = "host" /\ HostRest /\ UNCHANGED rxSeq /\ wire.kind = "R" /\ ~wire.nack
    BY <1>1, <1>7 DEF HostContinues
  <2>2. wire.seq = expect /\ collected # <<>>
    BY <1>2, <2>1 DEF ToHost
  <2>3. CASE wire.seq # last.seq
    <3> DEFINE t == [last EXCEPT !.type = "I", !.seq = Flip(@), !.at = @ + 1]
    <3>1. Send(t, rxSeq, received)
      BY <1>7, <2>3 DEF HostContinues
    <3>2. Chained
      BY <1>2, <2>1, <2>2, <2>3 DEF Phase, Sending, Thinking, Telling, Ran
    <3>3. t.seq = Flip(last.seq) /\ t.at = last.at + 1
      BY <1>3 DEF Lasts
    <3>4. turn' = "card" => Phase'
      <4>1. ASSUME turn' = "card" PROVE Sending'
        <5>1. received' = received /\ last' = t
          BY <3>1, <4>1 DEF Send
        <5>2. last'.seq = Flip(last.seq) /\ last'.at = last.at + 1
          BY <3>3, <5>1
        <5> HIDE DEF t
        <5> QED
          BY <1>3, <1>4, <2>1, <3>2, <5>1, <5>2 DEF Chained, Sending, HostRest, Own
      <4> QED
        BY <4>1 DEF Phase
    <3>5. t \in Lasts
      BY NextTyped
    <3> HIDE DEF t
    <3> QED
      BY <1>3, <2>1, <3>1, <3>4, <3>5, SentFresh DEF HostRest
  <2>4. CASE wire.seq = last.seq
    BY <1>3, <1>7, <2>1, <2>4, AgainFresh DEF HostContinues
  <2> QED
    BY <2>3, <2>4
<1>8. CASE HostRepeats
  <2>1. turn = "host" /\ HostRest /\ UNCHANGED rxSeq
    BY <1>1, <1>8 DEF HostRepeats
  <2>2. CASE Send(Wanted(wire.seq), rxSeq, received)
    <3>1. Wanted(wire.seq).seq = last.seq /\ Wanted(wire.seq).at = last.at
      BY <1>3 DEF Wanted, Ack, Nack, Lasts
    <3> QED
      BY <2>1, <2>2, <3>1, NextTyped, AgainFresh
  <2>3. CASE GiveUp
    BY <2>1, <2>3, GaveUpFresh
  <2> QED
    BY <1>8, <2>2, <2>3 DEF HostRepeats
<1>9. CASE HostWaits
  <2>1. turn = "host" /\ HostRest /\ UNCHANGED rxSeq /\ Send([last EXCEPT !.type = "S"], rxSeq, received)
    BY <1>1, <1>9 DEF HostWaits
  <2>2. [last EXCEPT !.type = "S"].seq = last.seq /\ [last EXCEPT !.type = "S"].at = last.at
    BY <1>3 DEF Lasts
  <2> QED
    BY <2>1, <2>2, NextTyped, AgainFresh
<1>10. CASE HostDamaged
  BY <1>1, <1>10, AskedAgainFresh DEF HostDamaged
<1>11. CASE HostNoise
  BY <1>1, <1>11, AskedAgainFresh DEF HostNoise
<1>12. CASE HostTimeout
  <2>1. turn = "host" /\ HostRest /\ UNCHANGED rxSeq
    BY <1>1, <1>12 DEF HostTimeout
  <2>2. CASE Send(last, rxSeq, received)
    BY <1>3, <2>1, <2>2, AgainFresh
  <2>3. CASE End(FALSE, received)
    BY <2>1, <2>3, EndedFresh DEF Verdict
  <2> QED
    BY <1>12, <2>2, <2>3 DEF HostTimeout
<1> QED
  BY <1>5, <1>6, <1>7, <1>8, <1>9, <1>10, <1>11, <1>12 DEF Host

LEMMA CardKeepsFresh ==
    ASSUME SETypeOK, Sessions, fresh, Fresh, Card, UNCHANGED deviceVars
    PROVE  Fresh'
<1>1. turn = "card"
  BY DEF Card, CardCollects, CardRuns, CardResumes, CardContinues, CardRepeats,
         CardRefuses, CardMisses, CardTurn
<1>2. Phase /\ ToCard /\ left > 0 /\ rsp = "none" /\ outcome = "none"
  BY <1>1 DEF Fresh, Sessions
<1>3. /\ rxSeq \in Bit /\ expect \in Bit /\ cardSeq \in Bit /\ last.seq \in Bit /\ last.at \in Nat
      /\ received \in Seq(Pieces) /\ collected \in Seq(Pieces) /\ cmdLen \in Nat
      /\ answer.at \in Nat /\ answer.len \in Nat
      /\ answer \in [len: 0 .. MaxAns, at: 0 .. MaxAns, now: BOOLEAN]
  BY SizesAssumption DEF SETypeOK, Lasts
<1>4. ASSUME NEW b, Reply(b), Phase', ToHost' PROVE Fresh'
  <2>1. turn' = "host" /\ left' > 0 /\ rsp' = "none" /\ outcome' = "none"
    BY <1>2, <1>4 DEF Reply, deviceVars
  <2> QED
    BY <1>4, <2>1 DEF Fresh
<1>5. ASSUME NEW b, Reply(b), UNCHANGED <<cardVars, runs>> PROVE Phase'
  BY <1>2, <1>5, SamePhase DEF Reply, hostVars, cardVars
<1>6. CASE CardCollects
  <2>1. wire.kind = "I" /\ wire.seq = expect /\ wire.more
    BY <1>6 DEF CardCollects, CardTurn
  <2>2. wire.seq = last.seq /\ last.at < cmdLen /\ wire.piece = [now |-> TRUE, at |-> last.at]
    BY <1>2, <2>1 DEF ToCard
  <2>3. Sending
    BY <1>2, <1>3, <2>1, <2>2, FlipBit DEF Phase, Chained, Thinking, Telling, Ran
  <2>4. /\ collected' = Append(collected, wire.piece) /\ expect' = Flip(expect)
        /\ answer' = NoAnswer /\ ~asking' /\ UNCHANGED <<cardSeq, runs, hostVars>>
        /\ wire' = RBlock(Flip(expect), FALSE)
    BY <1>6 DEF CardCollects, Reply
  <2>5. Len(collected') = last.at /\ Own(collected')
    <3>1. wire.piece \in Pieces
      BY <1>3, <2>2 DEF Pieces
    <3>2. /\ Len(collected') = Len(collected) + 1 /\ Len(collected) \in Nat
          /\ \A i \in 1 .. Len(collected') :
               collected'[i] = IF i = Len(collected) + 1 THEN wire.piece ELSE collected[i]
      BY <1>3, <2>4, <3>1
    <3>3. Len(collected) + 1 = last.at
      BY <1>3, <2>3, <3>2 DEF Sending
    <3>4. ASSUME NEW i \in 1 .. Len(collected') PROVE collected'[i] = [now |-> TRUE, at |-> i]
      <4>1. CASE i = last.at
        BY <2>2, <3>2, <3>3, <4>1
      <4>2. CASE i # last.at
        <5>1. i \in 1 .. Len(collected) /\ collected'[i] = collected[i]
          BY <3>2, <3>3, <4>2
        <5> QED
          BY <2>3, <5>1 DEF Sending, Own
      <4> QED
        BY <4>1, <4>2
    <3> QED
      BY <3>2, <3>3, <3>4 DEF Own
  <2>6. Chained'
    BY <2>2, <2>3, <2>4, <2>5, <2>1 DEF Sending, Chained, hostVars, NoAnswer
  <2>7. collected' # <<>>
    BY <2>5, <2>6 DEF Chained
  <2>8. ToHost'
    BY <2>4, <2>7 DEF ToHost, RBlock
  <2> QED
    BY <1>4, <1>6, <2>6, <2>8 DEF CardCollects, Phase
<1>7. CASE CardRuns
  <2>1. wire.kind = "I" /\ wire.seq = expect /\ ~wire.more
    BY <1>7 DEF CardRuns, CardTurn
  <2>2. wire.seq = last.seq /\ ~(last.at < cmdLen) /\ wire.piece = [now |-> TRUE, at |-> last.at]
    BY <1>2, <2>1 DEF ToCard
  <2>3. Sending
    BY <1>2, <1>3, <2>1, <2>2, FlipBit DEF Phase, Chained, Thinking, Telling, Ran
  <2>4. last.at = cmdLen
    BY <1>3, <2>2, <2>3 DEF Sending
  <2> DEFINE command == Append(collected, wire.piece)
  <2>5. Len(command) = cmdLen /\ \A i \in DOMAIN command : command[i] = [now |-> TRUE, at |-> i]
    <3>1. wire.piece \in Pieces
      BY <1>3, <2>2 DEF Pieces
    <3>2. /\ Len(command) = Len(collected) + 1 /\ Len(collected) \in Nat
          /\ DOMAIN command = 1 .. Len(command)
          /\ \A i \in 1 .. Len(command) :
               command[i] = IF i = Len(collected) + 1 THEN wire.piece ELSE collected[i]
      BY <1>3, <3>1
    <3>3. Len(collected) + 1 = cmdLen
      BY <1>3, <2>3, <2>4, <3>2 DEF Sending
    <3>4. ASSUME NEW i \in 1 .. Len(command) PROVE command[i] = [now |-> TRUE, at |-> i]
      <4>1. CASE i = cmdLen
        BY <2>2, <2>4, <3>2, <3>3, <4>1
      <4>2. CASE i # cmdLen
        <5>1. i \in 1 .. Len(collected) /\ command[i] = collected[i]
          BY <3>2, <3>3, <4>2
        <5> QED
          BY <2>3, <5>1 DEF Sending, Own
      <4> QED
        BY <4>1, <4>2
    <3> QED
      BY <3>2, <3>3, <3>4
  <2>6. runs' = 1
    <3>1. runs = 0
      BY <2>3 DEF Sending
    <3> QED
      BY <1>7, <2>5, <3>1 DEF CardRuns
  <2>7. collected' = <<>> /\ expect' = Flip(expect)
    BY <1>7 DEF CardRuns
  <2>8. PICK len \in 1 .. MaxAns :
          \/ CardAnswers([len |-> len, at |-> 1, now |-> TRUE]) /\ asking' = FALSE
          \/ /\ answer' = [len |-> len, at |-> 0, now |-> TRUE]
             /\ asking' = TRUE
             /\ UNCHANGED cardSeq
             /\ Reply(SBlock)
    BY <1>7 DEF CardRuns
  <2>9. CASE CardAnswers([len |-> len, at |-> 1, now |-> TRUE]) /\ asking' = FALSE
    <3>1. /\ answer' = [len |-> len, at |-> 1, now |-> TRUE] /\ cardSeq' = Flip(cardSeq)
          /\ wire' = IBlock(Flip(cardSeq), 1 < len, [now |-> TRUE, at |-> 1])
          /\ UNCHANGED hostVars
      BY <2>9 DEF CardAnswers, Reply
    <3>2. Telling'
      BY <1>3, <2>3, <2>4, <2>6, <2>7, <2>8, <2>9, <3>1, FlipBit
         DEF Telling, Ran, Sending, hostVars, Own
    <3>3. wire'.kind = "I" /\ wire'.seq = cardSeq' /\ (wire'.more <=> 1 < len)
          /\ wire'.piece = [now |-> TRUE, at |-> 1]
      BY <3>1, IBlockIs
    <3>4. ToHost'
      BY <3>1, <3>2, <3>3 DEF ToHost
    <3> QED
      BY <1>4, <2>9, <3>2, <3>4 DEF CardAnswers, Phase
  <2>10. CASE /\ answer' = [len |-> len, at |-> 0, now |-> TRUE]
              /\ asking' = TRUE
              /\ UNCHANGED cardSeq
              /\ Reply(SBlock)
    <3>1. Thinking'
      BY <2>3, <2>4, <2>6, <2>7, <2>8, <2>10 DEF Thinking, Ran, Sending, Reply, hostVars
    <3>2. ToHost'
      BY <2>10 DEF ToHost, Reply, SBlock
    <3> QED
      BY <1>4, <2>10, <3>1, <3>2 DEF Phase
  <2> QED
    BY <2>8, <2>9, <2>10
<1>8. ASSUME NEW a, CardAnswers(a), a.at \in 1 .. a.len, a.now, Ran, UNCHANGED <<expect, collected, runs>>,
             rxSeq = cardSeq, ~asking', Len(received) = a.at - 1, Own(received)
      PROVE  Fresh'
  <2>1. /\ answer' = a /\ cardSeq' = Flip(cardSeq) /\ UNCHANGED hostVars
        /\ wire' = IBlock(Flip(cardSeq), a.at < a.len, [now |-> a.now, at |-> a.at])
    BY <1>8 DEF CardAnswers, Reply
  <2>2. Telling'
    BY <1>3, <1>8, <2>1, FlipBit DEF Telling, Ran, hostVars, Own
  <2>3. wire'.kind = "I" /\ wire'.seq = cardSeq' /\ (wire'.more <=> a.at < a.len)
        /\ wire'.piece = [now |-> a.now, at |-> a.at]
    BY <2>1, IBlockIs
  <2>4. wire'.piece = [now |-> TRUE, at |-> a.at]
    BY <1>8, <2>3
  <2>5. ToHost'
    BY <2>1, <2>2, <2>3, <2>4 DEF ToHost
  <2> QED
    BY <1>4, <1>8, <2>2, <2>5 DEF CardAnswers, Phase
<1>9. CASE CardResumes
  <2>1. Thinking
    BY <1>2, <1>9 DEF CardResumes, Phase, Sending, Chained, Telling
  <2> DEFINE a == [answer EXCEPT !.at = 1]
  <2>2. a.at = 1 /\ a.len = answer.len /\ a.now = answer.now
    BY <1>3
  <2>3. CardAnswers(a) /\ UNCHANGED <<expect, collected, runs>> /\ ~asking'
    BY <1>9 DEF CardResumes
  <2> HIDE DEF a
  <2>4. Len(received) = a.at - 1 /\ Own(received)
    BY <2>1, <2>2 DEF Thinking, Own
  <2>5. a.at \in 1 .. a.len /\ a.now /\ Ran /\ rxSeq = cardSeq
    BY <1>3, <2>1, <2>2 DEF Thinking, Ran
  <2> QED
    BY <1>8, <2>3, <2>4, <2>5
<1>10. CASE CardContinues
  <2>1. wire.kind = "R" /\ ~asking /\ answer.at > 0 /\ wire.seq # cardSeq /\ answer.at < answer.len
    BY <1>10 DEF CardContinues, CardTurn, Answering
  <2>2. wire.seq = Flip(rxSeq)
    BY <1>2, <2>1 DEF ToCard
  <2>3. Telling /\ rxSeq = cardSeq /\ Len(received) = answer.at
    <3>1. Telling
      BY <1>2, <1>3, <2>1 DEF Phase, Sending, Chained, Thinking
    <3>2. rxSeq = cardSeq
      BY <1>3, <2>1, <2>2 DEF Flip, Bit
    <3> QED
      BY <3>1, <3>2 DEF Telling
  <2> DEFINE a == [answer EXCEPT !.at = @ + 1]
  <2>4. a.at = answer.at + 1 /\ a.len = answer.len /\ a.now = answer.now
    BY <1>3
  <2>5. CardAnswers(a) /\ UNCHANGED <<expect, collected, asking, runs>>
    BY <1>10 DEF CardContinues
  <2> HIDE DEF a
  <2>6. a.at \in 1 .. a.len /\ a.now /\ Ran /\ Len(received) = a.at - 1 /\ Own(received)
    BY <1>3, <2>1, <2>3, <2>4 DEF Telling, Ran
  <2> QED
    BY <1>8, <2>1, <2>3, <2>5, <2>6
<1>11. CASE CardRepeats
  <2>1. wire.kind = "R" /\ UNCHANGED <<cardVars, runs>>
    BY <1>11 DEF CardRepeats, CardTurn
  <2>2. CASE Reply(SBlock)
    <3>1. ToHost'
      BY <2>2 DEF ToHost, Reply, SBlock
    <3> QED
      BY <1>4, <1>5, <2>1, <2>2, <3>1
  <2>3. CASE /\ ~asking /\ Answering /\ wire.seq = cardSeq
             /\ Reply(IBlock(cardSeq, answer.at < answer.len, [now |-> answer.now, at |-> answer.at]))
    <3>1. Telling
      <4>1. rxSeq # cardSeq
        BY <1>2, <1>3, <2>1, <2>3 DEF ToCard, Flip, Bit
      <4> QED
        BY <1>2, <2>3, <4>1 DEF Phase, Sending, Chained, Thinking
    <3>2. Telling'
      BY <2>1, <2>3, <3>1 DEF Telling, Ran, Own, Reply, hostVars, cardVars
    <3>3. wire' = IBlock(cardSeq, answer.at < answer.len, [now |-> answer.now, at |-> answer.at])
      BY <2>3 DEF Reply
    <3>4. wire'.kind = "I" /\ wire'.seq = cardSeq /\ (wire'.more <=> answer.at < answer.len)
          /\ wire'.piece = [now |-> answer.now, at |-> answer.at]
      BY <3>3, IBlockIs
    <3>5. wire'.piece = [now |-> TRUE, at |-> answer.at]
      BY <3>1, <3>4 DEF Telling, Ran
    <3>6. ToHost'
      BY <2>1, <3>2, <3>4, <3>5 DEF ToHost, cardVars
    <3> QED
      BY <1>4, <2>3, <3>2, <3>6 DEF Phase
  <2>4. CASE collected # <<>> /\ Reply(RBlock(expect, FALSE))
    <3>1. ToHost'
      BY <2>1, <2>4 DEF ToHost, Reply, RBlock, cardVars
    <3> QED
      BY <1>4, <1>5, <2>1, <2>4, <3>1
  <2> QED
    BY <1>11, <2>2, <2>3, <2>4 DEF CardRepeats
<1>12. CASE CardRefuses
  <2>1. ToHost'
    BY <1>12 DEF CardRefuses, ToHost, Reply, RBlock, cardVars
  <2> QED
    BY <1>4, <1>5, <1>12, <2>1 DEF CardRefuses
<1>13. CASE CardMisses
  <2>1. ToHost'
    BY <1>13 DEF CardMisses, ToHost, Reply, Silence
  <2> QED
    BY <1>4, <1>5, <1>13, <2>1 DEF CardMisses
<1> QED
  BY <1>6, <1>7, <1>9, <1>10, <1>11, <1>12, <1>13 DEF Card

LEMMA ProtocolKeepsFresh ==
    ASSUME SETypeOK, Sessions, fresh, Fresh, Protocol
    PROVE  Fresh'
<1>1. CASE LineFails /\ UNCHANGED deviceVars
  <2>1. /\ turn \in {"card", "host"} /\ wire'.kind \in {"silence", "damaged", "noise"}
        /\ UNCHANGED <<turn, hostVars, cardVars, pathVars>>
    BY <1>1 DEF LineFails, Silence, Damaged, Noise
  <2>2. Phase'
    BY <2>1, SamePhase DEF Fresh, hostVars, cardVars, pathVars
  <2>3. ToCard' /\ ToHost'
    BY <2>1 DEF ToCard, ToHost
  <2>4. left' > 0 /\ rsp' = "none" /\ outcome' = "none" /\ turn' \in {"card", "host"}
    BY <1>1, <2>1 DEF Sessions, pathVars, deviceVars
  <2> QED
    BY <2>2, <2>3, <2>4 DEF Fresh
<1>2. CASE SendFirst /\ UNCHANGED deviceVars
  <2> DEFINE t == [last EXCEPT !.type = "I", !.seq = Flip(@), !.at = 1]
  <2>1. turn = "start" /\ Send(t, rxSeq, received)
        /\ UNCHANGED <<rxSeq, cmdLen, cardVars, runs>>
    BY <1>2 DEF SendFirst
  <2>2. t.seq = Flip(last.seq) /\ t.at = 1 /\ t \in Lasts
    BY NextTyped DEF SETypeOK, Lasts
  <2> HIDE DEF t
  <2>3. InStep /\ runs = 0 /\ received = <<>> /\ cmdLen \in 1 .. MaxCmd
    BY <2>1 DEF Fresh, Sessions, SETypeOK
  <2>4. turn' = "card" => Sending'
    <3>1. SUFFICES ASSUME turn' = "card" PROVE Sending'
      OBVIOUS
    <3>2. last' = t /\ received' = <<>>
      BY <2>1, <2>3, <3>1 DEF Send
    <3>3. last'.at = 1 /\ last'.seq = Flip(last.seq)
      BY <2>2, <3>2
    <3>4. 1 \in 1 .. cmdLen
      BY <2>3, SizesAssumption
    <3>5. Len(collected') = 0 /\ Own(collected')
      BY <2>1, <2>3 DEF InStep, Own, cardVars
    <3> QED
      BY <2>1, <2>3, <3>2, <3>3, <3>4, <3>5 DEF InStep, Sending, cardVars
  <2>5. rxSeq \in Bit /\ received \in Seq(Pieces)
    BY DEF SETypeOK
  <2> QED
    BY <1>2, <2>1, <2>2, <2>4, <2>5, SentFresh DEF Phase
<1> QED
  BY <1>1, <1>2, HostKeepsFresh, CardKeepsFresh DEF Protocol

\* Asking the next command keeps both sides in step.
LEMMA AskedFresh ==
    ASSUME SETypeOK, InStep, NEW n \in 1 .. MaxCmd, Ask(n), rsp' = "none"
    PROVE  Fresh'
<1>1. /\ turn' = "start" /\ collected' \in Seq(Pieces) /\ Len(collected') = Len(collected)
      /\ answer'.at = answer.at /\ answer'.len = answer.len /\ runs' = 0 /\ outcome' = "none"
      /\ UNCHANGED <<last, rxSeq, expect, cardSeq, asking>>
  BY AskIs
<1>2. collected' = <<>>
  <2>1. Len(collected') = 0
    BY <1>1 DEF InStep
  <2> QED
    BY <1>1, <2>1
<1>3. InStep'
  BY <1>1, <1>2 DEF InStep
<1> QED
  BY <1>1, <1>3 DEF Fresh

\* Both sides start over.
LEMMA ResetInStep ==
    ASSUME ResetParams, ResetCard
    PROVE  InStep'
BY DEF ResetParams, ResetCard, InStep, NoAnswer, Flip

LEMMA StepKeepsFresh ==
    ASSUME SETypeOK, Sessions, fresh => Fresh, [SENext]_allVars, fresh'
    PROVE  Fresh'
<1>0. left \in Nat
  BY ChainAssumption DEF SETypeOK
<1>1. CASE DevOpen
  <2>1. user = "closed" /\ ~fresh /\ turn = "idle" /\ left = 0 /\ rsp # "this"
    BY <1>0, <1>1 DEF DevOpen, Sessions
  <2>2. ResetParams /\ ResetCard
    BY <1>1, <2>1 DEF DevOpen
  <2> QED
    BY <1>1, <2>1, <2>2, ResetInStep DEF DevOpen, Fresh, GoesOn, Settling
<1>2. CASE DevClose
  BY <1>2 DEF DevClose
<1>3. CASE DevWrite
  <2>1. fresh /\ Fresh /\ turn = "idle" /\ user \in {"open", "ready"} /\ left = 0 /\ rsp # "this"
    BY <1>3 DEF DevWrite, Ask
  <2>2. InStep
    BY <2>1 DEF Fresh, GoesOn, Settling
  <2> QED
    BY <1>3, <2>2, AskedFresh DEF DevWrite
<1>4. CASE ChainNext
  <2>1. fresh /\ Fresh /\ turn = "idle" /\ left > 0 /\ outcome \in {"whole", "wrong"}
    BY <1>4 DEF ChainNext, Settled
  <2>2. outcome = "whole" /\ user \in {"open", "ready"} /\ rsp = "none"
    BY <2>1 DEF Fresh, Settling, Sessions
  <2>3. InStep
    BY <2>1, <2>2 DEF Fresh, GoesOn
  <2> QED
    BY <1>4, <2>2, <2>3, AskedFresh DEF ChainNext
<1>5. CASE ResetProtocol
  <2>1. /\ turn = "idle" /\ left = 0 /\ rsp # "this" /\ user = "greeted"
        /\ UNCHANGED <<turn, left, rsp>>
    BY <1>0, <1>5 DEF ResetProtocol, Sessions
  <2> QED
    BY <1>5, <2>1, ResetInStep DEF ResetProtocol, Fresh, GoesOn, Settling
<1>6. ASSUME UNCHANGED vars PROVE UNCHANGED <<turn, outcome, gaveUp, runs>> /\ (InStep' <=> InStep)
  BY <1>6 DEF vars, hostVars, cardVars, pathVars, InStep
<1>7. CASE ChainEnds
  <2>1. /\ fresh /\ Fresh /\ turn = "idle" /\ left > 0 /\ UNCHANGED vars /\ UNCHANGED user
        /\ left' = 0 /\ rsp' = "this" /\ outcome \in {"whole", "prefix", "wrong"}
    BY <1>7 DEF ChainEnds, Settled
  <2> QED
    BY <1>6, <2>1 DEF Fresh, GoesOn, Settling
<1>8. CASE ChainFails
  <2>1. turn = "idle" /\ left > 0 /\ left' = 0 /\ user' = "failed" /\ UNCHANGED <<vars, rsp>>
    BY <1>8 DEF ChainFails, Settled
  <2>2. rsp' = "none" /\ turn' = "idle"
    BY <1>6, <2>1 DEF Sessions
  <2> QED
    BY <2>1, <2>2 DEF Fresh, GoesOn, Settling
<1>9. CASE DevRead
  <2>1. /\ fresh /\ Fresh /\ rsp = "this" /\ rsp' = "none" /\ user' = ExpectStatus
        /\ UNCHANGED vars /\ UNCHANGED left
    BY <1>9 DEF DevRead
  <2>2. turn = "idle" /\ left = 0 /\ user \in {"open", "ready"}
    BY <1>0, <2>1 DEF Sessions
  <2>3. outcome \in {"whole", "prefix"}
    BY <2>1, <2>2 DEF Fresh, Settling
  <2>4. outcome = "whole" => InStep
    BY <2>1, <2>2 DEF Fresh, GoesOn
  <2>5. turn' = "idle" /\ left' = 0 /\ rsp' = "none" /\ (InStep' <=> InStep)
    BY <1>6, <2>1, <2>2
  <2>6. user' = "failed" \/ outcome = "whole"
    BY <2>1, <2>3 DEF ExpectStatus
  <2> QED
    BY <2>4, <2>5, <2>6 DEF Fresh, GoesOn, Settling
<1>10. CASE Protocol
  BY <1>10, ProtocolKeepsFresh DEF Protocol, deviceVars
<1>11. CASE UNCHANGED allVars
  BY <1>11 DEF allVars, vars, hostVars, cardVars, pathVars, deviceVars, Fresh, InStep, Phase,
       Sending, Chained, Thinking, Telling, Ran, Own, ToCard, ToHost, GoesOn, Settling
<1> QED
  BY <1>1, <1>2, <1>3, <1>4, <1>5, <1>7, <1>8, <1>9, <1>10, <1>11 DEF SENext

LEMMA InitInv == SEInit => SEInv
<1>1. SEInit => Sessions /\ ~fresh
  BY DEF SEInit, Init, Sessions
<1> QED
  BY <1>1, InitTyped DEF SEInv

LEMMA StepKeepsInv == SEInv /\ [SENext]_allVars => SEInv'
<1> SUFFICES ASSUME SEInv, [SENext]_allVars PROVE SEInv'
  OBVIOUS
<1>1. SETypeOK /\ Sessions /\ (fresh => Fresh)
  BY DEF SEInv
<1>2. SETypeOK' /\ Sessions'
  BY <1>1, StepKeepsTypes, StepKeepsSessions
<1>3. fresh' => Fresh'
  BY <1>1, StepKeepsFresh
<1> QED
  BY <1>2, <1>3 DEF SEInv

------------------------------------------------------------------------------
\* Driver, card and line keep the types and the alternation, in every state.
THEOREM StaysInOrder == SESpec => []SEInv
<1> QED
  BY InitInv, StepKeepsInv, PTL DEF SESpec

\* Every variable of the driver and the card keeps its type (sec_star.c and
\* ese_iso7816_t1.c).
THEOREM TypeCorrect == SESpec => []SETypeOK
<1>1. SEInv => SETypeOK
  BY DEF SEInv
<1> QED
  BY <1>1, StaysInOrder, PTL

\* The chain of I-blocks of a command stays inside the command's buffer in a
\* session the card was powered up for, though iso7816_t1_next_iframe does not
\* look (ese_iso7816_t1.c).
THEOREM ChainStaysInside == SESpec => []NoOverrun
<1>1. SEInv => NoOverrun
  <2> SUFFICES ASSUME SEInv, fresh, turn = "card" PROVE last.at <= cmdLen
    BY DEF NoOverrun
  <2>1. Phase
    BY DEF SEInv, Fresh
  <2>2. last.at \in Nat /\ cmdLen \in Nat
    BY SizesAssumption DEF SEInv, SETypeOK, Lasts
  <2> QED
    BY <2>1, <2>2 DEF Phase, Sending, Chained, Thinking, Telling, Ran
<1> QED
  BY <1>1, StaysInOrder, PTL

\* An answer that ends early is handed out only after the recovery was given
\* up (iso7816_t1_finish_recovery).
THEOREM AnswerWholeUnlessGivenUp == SESpec => []WholeUnlessGivenUp
<1>1. SEInv => WholeUnlessGivenUp
  BY DEF SEInv, Fresh, Settling, WholeUnlessGivenUp
<1> QED
  BY <1>1, StaysInOrder, PTL

------------------------------------------------------------------------------
\* The driver implements Exchange: step by step, with asked = (turn # "idle").

LEMMA InitMaps == SEInit => Promise!Init
BY DEF SEInit, Init, Promise!Init

\* A block sent, or refused by the bus.
LEMMA SendMaps ==
    ASSUME turn # "idle", UNCHANGED deviceVars, UNCHANGED runs, NEW t, NEW b, NEW got, Send(t, b, got)
    PROVE  [Promise!Next]_Promise!vars
<1>1. CASE turn' = "card"
  BY <1>1 DEF Send, Promise!vars, deviceVars
<1>2. CASE turn' = "idle"
  BY <1>2 DEF Send, Promise!Next, Promise!Fail, deviceVars
<1> QED
  BY <1>1, <1>2 DEF Send

\* The end of an exchange, which no one else may take part in.
LEMMA EndMaps ==
    ASSUME SEInv, turn # "idle", turn' = "idle", UNCHANGED <<fresh, runs>>,
           outcome' \in {"whole", "prefix", "wrong", "failure"},
           fresh /\ outcome' # "failure" => runs = 1 /\ outcome' # "wrong"
    PROVE  Promise!Next
BY DEF Promise!Next, Promise!Succeed, Promise!Fail

LEMMA HostMaps ==
    ASSUME SEInv, Host, UNCHANGED deviceVars, fresh => Fresh'
    PROVE  [Promise!Next]_Promise!vars
<1>1. turn = "host" /\ UNCHANGED runs /\ left > 0 /\ UNCHANGED <<fresh, left>>
  BY DEF Host, HostStores, HostRefuses, HostContinues, HostRepeats, HostWaits,
         HostDamaged, HostNoise, HostTimeout, HostTurn, SEInv, Sessions, deviceVars
<1>2. ASSUME NEW clean, NEW got, End(clean, got) PROVE Promise!Next
  <2>1. turn' = "idle" /\ outcome' \in {"whole", "prefix", "wrong", "failure"}
    BY <1>2, VerdictIs DEF End
  <2>2. fresh => outcome' # "wrong" /\ (outcome' # "failure" => runs = 1)
    BY <1>1, <2>1 DEF Fresh, Settling
  <2> QED
    BY <1>1, <2>1, <2>2, EndMaps
<1>3. (\E t, b, got : Send(t, b, got)) \/ (\E clean, got : End(clean, got))
  <2>1. CASE HostStores
    BY <2>1 DEF HostStores
  <2>2. CASE HostRefuses \/ HostRepeats
    BY <2>2 DEF HostRefuses, HostRepeats, GiveUp
  <2>3. CASE HostContinues \/ HostWaits
    BY <2>3 DEF HostContinues, HostWaits
  <2>4. CASE HostDamaged \/ HostNoise
    BY <2>4 DEF HostDamaged, HostNoise, AskAgain
  <2>5. CASE HostTimeout
    BY <2>5 DEF HostTimeout
  <2> QED
    BY <2>1, <2>2, <2>3, <2>4, <2>5 DEF Host
<1> QED
  BY <1>1, <1>2, <1>3, SendMaps

\* What the card does is a run of the command, or is not seen.
LEMMA CardMaps ==
    ASSUME SEInv, Card, UNCHANGED deviceVars
    PROVE  [Promise!Next]_Promise!vars
<1>1. turn = "card" /\ turn' = "host" /\ UNCHANGED <<fresh, outcome>>
  BY DEF Card, CardCollects, CardRuns, CardResumes, CardContinues, CardRepeats,
         CardRefuses, CardMisses, CardTurn, CardAnswers, Reply, deviceVars
<1>2. CASE CardRuns
  <2>1. (runs' = 1 /\ runs = 0) \/ runs' = 2
    BY <1>2 DEF CardRuns
  <2>2. fresh => runs' = 1 /\ runs = 0
    <3>1. ASSUME fresh PROVE runs = 0 /\ runs' = 1
      <4>1. Fresh /\ Fresh'
        BY <3>1, <1>2, CardKeepsFresh DEF SEInv
      <4>2. Phase /\ ToCard /\ Phase'
        BY <1>1, <4>1 DEF Fresh
      <4>3. wire.kind = "I" /\ wire.seq = expect /\ ~wire.more
        BY <1>2 DEF CardRuns, CardTurn
      <4>4. wire.seq = last.seq /\ last.seq \in Bit /\ ~(last.at < cmdLen)
        BY <4>2, <4>3 DEF ToCard, SEInv, SETypeOK, Lasts
      <4>5. Sending
        BY <4>2, <4>3, <4>4, FlipBit DEF Phase, Chained, Thinking, Telling, Ran
      <4>6. UNCHANGED <<last, cmdLen>>
        BY <1>2 DEF CardRuns, CardAnswers, Reply, hostVars
      <4>7. runs' # 2
        BY <4>2 DEF Phase, Sending, Chained, Thinking, Telling, Ran
      <4> QED
        BY <2>1, <4>5, <4>7 DEF Sending
    <3> QED
      BY <3>1
  <2> QED
    BY <1>1, <2>1, <2>2 DEF Promise!Next, Promise!Run
<1>3. CASE ~CardRuns
  <2>1. UNCHANGED runs
    BY <1>3 DEF Card, CardCollects, CardResumes, CardContinues, CardRepeats, CardRefuses, CardMisses
  <2> QED
    BY <1>1, <2>1 DEF Promise!vars
<1> QED
  BY <1>2, <1>3

LEMMA StepMaps ==
    ASSUME SEInv, SEInv', [SENext]_allVars
    PROVE  [Promise!Next]_Promise!vars
<1>0. left \in Nat
  BY ChainAssumption DEF SEInv, SETypeOK
<1>1. CASE DevOpen
  <2>1. turn = "idle" /\ UNCHANGED <<turn, runs, outcome>> /\ fresh' \in BOOLEAN
    BY <1>0, <1>1 DEF DevOpen, SEInv, SETypeOK, Sessions, pathVars
  <2> QED
    BY <2>1 DEF Promise!Next, Promise!Connect
<1>2. CASE DevClose
  <2>1. turn = "idle" /\ UNCHANGED <<turn, runs, outcome>> /\ fresh' = FALSE
    BY <1>0, <1>2 DEF DevClose, SEInv, Sessions, pathVars
  <2> QED
    BY <2>1 DEF Promise!Next, Promise!Connect
<1>3. CASE DevWrite \/ ChainNext
  BY <1>3 DEF DevWrite, ChainNext, Ask, Promise!Next, Promise!Submit
<1>4. CASE ResetProtocol \/ ChainEnds \/ ChainFails \/ DevRead \/ UNCHANGED allVars
  BY <1>4 DEF ResetProtocol, ChainEnds, ChainFails, DevRead, allVars, vars, pathVars, deviceVars,
              Promise!vars
<1>5. CASE Protocol
  <2>1. UNCHANGED deviceVars /\ UNCHANGED fresh
    BY <1>5 DEF Protocol, deviceVars
  <2>2. CASE LineFails
    BY <2>1, <2>2 DEF LineFails, pathVars, Promise!vars
  <2>3. CASE SendFirst
    <3>1. turn # "idle" /\ UNCHANGED runs /\ (\E t, b, got : Send(t, b, got))
      BY <2>3 DEF SendFirst
    <3> QED
      BY <2>1, <3>1, SendMaps
  <2>4. CASE Card
    BY <2>1, <2>4, CardMaps
  <2>5. CASE Host
    BY <2>1, <2>5, HostMaps DEF SEInv
  <2> QED
    BY <1>5, <2>2, <2>3, <2>4, <2>5 DEF Protocol
<1> QED
  BY <1>1, <1>2, <1>3, <1>4, <1>5 DEF SENext

\* In a session the card was powered up for, a command runs at most once and
\* as it was asked, and the answer that is handed out is that command's; a
\* command that fails is reported so (ese_iso7816_t1.c).
THEOREM ImplementsExchange == SESpec => KeepsPromise
<1>1. SEInv /\ SEInv' /\ [SENext]_allVars => [Promise!Next]_Promise!vars
  BY StepMaps
<1> QED
  BY <1>1, InitMaps, StaysInOrder, PTL DEF SESpec, KeepsPromise, Promise!Spec

==============================================================================
