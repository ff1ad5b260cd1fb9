----------------------------- MODULE ByteStream -----------------------------
(***************************************************************************)
(* What a pipe between the tablet and its secure processor promises: what  *)
(* is written is read, once, unchanged and in its order, message by        *)
(* message. A message may be followed by one unit of padding, which its    *)
(* reader skips.                                                           *)
(***************************************************************************)
EXTENDS Naturals, Sequences

CONSTANT Message   \* the messages, each a sequence of units

VARIABLES
    stream,   \* the units written and not read yet
    offer,    \* the message being written, or nothing
    taken     \* the message being read, or nothing

streamVars == <<stream, offer, taken>>

Open == stream = <<>> /\ offer = <<>> /\ taken = <<>>

Offer ==
    /\ offer = <<>> /\ offer' \in Message
    /\ UNCHANGED <<stream, taken>>

Publish ==
    /\ offer # <<>> /\ offer' = <<>>
    /\ \E n \in {Len(stream) + Len(offer), Len(stream) + Len(offer) + 1} :
         /\ Len(stream') = n
         /\ SubSeq(stream', 1, Len(stream) + Len(offer)) = stream \o offer
    /\ UNCHANGED taken

Look ==
    /\ taken = <<>> /\ taken' \in Message
    /\ taken' = SubSeq(stream, 1, Len(taken'))
    /\ UNCHANGED <<stream, offer>>

Drop ==
    /\ taken # <<>> /\ taken' = <<>>
    /\ \E n \in {Len(taken), Len(taken) + 1} : stream' = SubSeq(stream, n + 1, Len(stream))
    /\ UNCHANGED offer

\* The edge is registered anew, for another life of the processor.
Reopen == stream' = <<>> /\ offer' = <<>> /\ taken' = <<>>

StreamNext == Offer \/ Publish \/ Look \/ Drop \/ Reopen

StreamSpec == Open /\ [][StreamNext]_streamVars
=============================================================================
