------------------------------ MODULE GlinkPipe ------------------------------
(***************************************************************************)
(* A pipe of the GLINK edge between the tablet and its secure processor    *)
(* (qcom_glink_spss.c): a ring in shared memory with an index at each end. *)
(* There are two, with this driver at the writing end of one and at the    *)
(* reading end of the other, and the processor, which keeps to the same    *)
(* rules, at the other ends: the module is either of them, written with    *)
(* the driver's writing functions and read with its reading ones.          *)
(*                                                                         *)
(* A unit is four bytes. A message has a header of two, and the next one   *)
(* begins at a multiple of two. GLINK itself, the library above, writes a  *)
(* message only if it fits, and asks once, without looking, to be told     *)
(* when there is room again.                                               *)
(***************************************************************************)
EXTENDS Naturals, Sequences

CONSTANTS
    Length,      \* the size of the ring, in units
    Messages     \* [size : Nat, mark : ...], the size in units

Header == 2
\* The request to be told when there is room is a header alone.
Ask == [size |-> Header, mark |-> 0]
\* FIFO_FULL_RESERVE and TX_BLOCKED_CMD_RESERVE
Reserve == 4

ASSUME PipeAssumption ==
    /\ Length \in Nat /\ Length % 2 = 0 /\ Length > Reserve
    /\ Ask \in Messages
    /\ \A m \in Messages : m.size \in Nat /\ m.size >= Header

VARIABLES
    head,       \* where the writer goes on
    tail,       \* where the reader goes on
    cells,      \* the ring
    offer,      \* the message that is copied and not yet published
    taken,      \* the message the reader has looked at and not yet dropped
    notified    \* the writer has asked to be told when there is room

pipeVars == <<head, tail, cells, offer, taken, notified>>

Cells == 0 .. Length - 1
Units == [of : Messages, at : Nat]

Whole(m) == [k \in 1 .. m.size |-> [of |-> m, at |-> k]]

Wrap(i) == IF i >= Length THEN i - Length ELSE i
Aligned(i) == IF i % 2 = 0 THEN i ELSE i + 1

PipeInit ==
    /\ head = 0 /\ tail = 0
    /\ cells = [i \in Cells |-> [of |-> Ask, at |-> 0]]
    /\ offer = <<>> /\ taken = <<>>
    /\ notified = FALSE

------------------------------------------------------------------------------
(* Writing: glink_spss_tx_avail and glink_spss_tx_write. *)

Free == IF tail <= head THEN Length - head + tail ELSE tail - head

\* Mutant: the ring may be filled to the last unit.
TxAvailAll == Free

TxAvail == IF Free < Reserve THEN 0 ELSE Free - Reserve

\* One piece, from cell "at" on and round the end of the ring.
TxWriteOne(ring, at, units) ==
    [i \in Cells |->
        LET k == IF i >= at THEN i - at ELSE i - at + Length
        IN  IF k < Len(units) THEN units[k + 1] ELSE ring[i]]

\* The header, then the data, and only after both the index.
TxCopies(units) ==
    LET hdr  == SubSeq(units, 1, Header)
        data == SubSeq(units, Header + 1, Len(units))
    IN  /\ offer = <<>>
        /\ cells' = TxWriteOne(TxWriteOne(cells, head, hdr), Wrap(head + Header), data)
        /\ offer' = units
        /\ UNCHANGED <<head, tail, taken>>

TxPublishes ==
    /\ offer # <<>>
    /\ head' = Wrap(Aligned(Wrap(head + Len(offer))))
    /\ offer' = <<>>
    /\ UNCHANGED <<tail, cells, taken, notified>>

\* qcom_glink_tx: a message that fits is written, for one that does not the
\* writer waits and asks to be told, once.
TxSends(m) ==
    /\ TxAvail >= m.size
    /\ TxCopies(Whole(m))
    /\ notified' = FALSE

TxAsks(m) ==
    /\ TxAvail < m.size
    /\ ~notified
    /\ TxCopies(Whole(Ask))
    /\ notified' = TRUE

------------------------------------------------------------------------------
(* Reading: glink_spss_rx_avail, glink_spss_rx_peak, glink_spss_rx_advance. *)

RxAvail == IF head < tail THEN Length - tail + head ELSE head - tail

RxPeek(offset, count) == [k \in 1 .. count |-> cells[Wrap(Wrap(tail + offset) + k - 1)]]

\* The reader finds a message's size in its header.
RxLooks ==
    /\ taken = <<>>
    /\ RxAvail >= Header
    /\ LET size == RxPeek(0, 1)[1].of.size
       IN  /\ RxAvail >= size
           /\ taken' = RxPeek(0, Header) \o RxPeek(Header, size - Header)
    /\ UNCHANGED <<head, tail, cells, offer, notified>>

RxAdvances ==
    /\ taken # <<>>
    /\ tail' = Wrap(tail + Aligned(Len(taken)))
    /\ taken' = <<>>
    /\ UNCHANGED <<head, cells, offer, notified>>

------------------------------------------------------------------------------
\* qcom_glink_spss_register: each end sets its index to zero. What is in the
\* ring stays there.
Register ==
    /\ head' = 0 /\ tail' = 0
    /\ offer' = <<>> /\ taken' = <<>>
    /\ notified' = FALSE
    /\ UNCHANGED cells

PipeNext ==
    \/ \E m \in Messages : TxSends(m) \/ TxAsks(m)
    \/ TxPublishes
    \/ RxLooks \/ RxAdvances
    \/ Register

PipeSpec == PipeInit /\ [][PipeNext]_pipeVars

------------------------------------------------------------------------------
\* What has been published and not dropped.
Unread == [i \in 1 .. RxAvail |-> cells[Wrap(tail + i - 1)]]

Promised == INSTANCE ByteStream WITH stream <- Unread, Message <- {Whole(m) : m \in Messages}

\* Whatever the sizes of the messages and wherever the ring ends in one, the
\* reader gets the messages that were written, whole and in order, and nothing
\* is written over what it has not dropped (qcom_glink_spss.c:107, :150).
KeepsOrder == Promised!StreamSpec
=============================================================================
