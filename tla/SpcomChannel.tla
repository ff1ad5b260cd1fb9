---------------------------- MODULE SpcomChannel ----------------------------
(***************************************************************************)
(* Channels between processes of the tablet and applications of the secure *)
(* processor (kernel/drivers/spcom.c), used through the control node's     *)
(* ioctls: a process registers on a channel, sends a request and gets the  *)
(* response, which carries the request's transaction number; a sharable    *)
(* channel serves one transaction at a time under shared_sync_lock.        *)
(*                                                                         *)
(* Whatever the driver does between taking and releasing a channel's lock  *)
(* is one step. Where it lets go of the lock, or looks at something        *)
(* without it, a step ends: the check that the channel is connected, the   *)
(* pause before another attempt to send, the wait for the response and the *)
(* hand-over of the shared lock. A packet is queued by the transport's     *)
(* callback and delivered later by one work item for all channels.         *)
(*                                                                         *)
(* The tablet is the client on every channel (is_server is FALSE), and a   *)
(* process has one thread, which gets a response after each request or     *)
(* leaves. The secure processor answers the requests of a channel in the   *)
(* order in which they came, or not at all.                                *)
(***************************************************************************)
EXTENDS Naturals, Sequences, FiniteSets

CONSTANTS
    Channels,
    Sharable,     \* the channels made with SPCOM_IOCTL_SHARED_CH_CREATE
    MaxClients,   \* SPCOM_MAX_CHANNEL_CLIENTS
    Clients,
    None,         \* no process, no packet
    MaxSends,     \* requests in all
    MaxRestarts   \* times the secure processor goes away

ASSUME SharableAssumption == Sharable \subseteq Channels
ASSUME NoneAssumption == None \notin Clients
ASSUME BoundsAssumption ==
    MaxClients \in Nat \ {0} /\ MaxSends \in Nat /\ MaxRestarts \in Nat

Initial == 1  \* INITIAL_TXN_ID

VARIABLES
    chan,      \* struct spcom_channel
    pc,        \* where the ioctl of each process is
    on,        \* the channel a process is registered on
    asked,     \* the request of the transaction a process is in
    got,       \* what it has been given as the response
    rx,        \* rx_list_head: packets not delivered yet, oldest first
    pending,   \* rpmsg_rx_consumer is scheduled
    running,   \* rpmsg_rx_consumer is running
    inbox,     \* requests the secure processor has not answered
    sends, restarts

procVars == <<pc, on, asked, got>>
workVars == <<rx, pending, running>>
vars == <<chan, procVars, workVars, inbox, sends, restarts>>

\* A request and its response are the same packet: the transaction number,
\* which request it was, and in which life of the secure processor.
NoPacket == [txn |-> 0, n |-> 0, life |-> 0]

MaxOf(c) == IF c \in Sharable THEN MaxClients ELSE 1
Busy(c) == Cardinality(chan[c].clients) = MaxOf(c)
HasData(c) == chan[c].buf # NoPacket

\* spcom_init_channel.
Init ==
    /\ chan = [c \in Channels |->
                 [open |-> FALSE, up |-> FALSE, abort |-> FALSE, txn |-> Initial,
                  buf |-> NoPacket, bufTxn |-> Initial, done |-> FALSE,
                  clients |-> {}, active |-> None, sync |-> None]]
    /\ pc = [p \in Clients |-> "out"]
    /\ on \in [Clients -> {CHOOSE c \in Channels : TRUE}]
    /\ asked = [p \in Clients |-> NoPacket]
    /\ got = [p \in Clients |-> NoPacket]
    /\ rx = <<>>
    /\ pending = FALSE /\ running = FALSE
    /\ inbox = [c \in Channels |-> <<>>]
    /\ sends = 0 /\ restarts = 0

\* What a process has asked and got only matters during the transaction.
Forget(p) ==
    /\ asked' = [asked EXCEPT ![p] = NoPacket]
    /\ got' = [got EXCEPT ![p] = NoPacket]

Goto(p, label) == pc' = [pc EXCEPT ![p] = label]

------------------------------------------------------------------------------
(* Registration. *)

\* spcom_ioctl_handle_channel_register_command: the first one registers the
\* rpmsg driver, which the transport may then probe.
Register(p, c) ==
    /\ pc[p] = "out"
    /\ ~Busy(c)
    /\ chan' = [chan EXCEPT ![c].open = TRUE,
                            ![c].abort = IF chan[c].open THEN @ ELSE FALSE,
                            ![c].clients = @ \union {p}]
    /\ on' = [on EXCEPT ![p] = c]
    /\ Goto(p, "idle")
    /\ UNCHANGED <<asked, got, workVars, inbox, sends, restarts>>

\* The shared lock is let go by the process that is named as its user.
Released(ch, p) ==
    IF ch.active = p THEN [ch EXCEPT !.active = None, !.sync = None] ELSE ch

\* Mutant: the lock of a process that leaves is not let go.
DeinitKeepsLock(ch, p) ==
    [ch EXCEPT !.clients = @ \ {p}, !.buf = NoPacket]

\* spcom_channel_deinit_locked. It discards an unread response, whoever's.
Deinit(ch, p) ==
    [Released(ch, p) EXCEPT !.clients = @ \ {p}, !.buf = NoPacket]

\* The process unregisters, or it closes the control node or dies, whereupon
\* spom_control_channel_remove_client gives up its channels.
Leave(p) ==
    /\ pc[p] \in {"idle", "sent"}
    /\ chan' = [chan EXCEPT ![on[p]] = Deinit(@, p)]
    /\ Goto(p, "out")
    /\ Forget(p)
    /\ UNCHANGED <<on, workVars, inbox, sends, restarts>>

------------------------------------------------------------------------------
(* spcom_send_message. *)

\* The connection is looked at without the lock.
SendChecks(p) ==
    /\ pc[p] = "idle"
    /\ chan[on[p]].up
    /\ sends < MaxSends
    /\ sends' = sends + 1
    /\ asked' = [asked EXCEPT ![p] = [NoPacket EXCEPT !.n = sends + 1]]
    /\ Goto(p, "lock")
    /\ UNCHANGED <<chan, on, got, workVars, inbox, restarts>>

\* One turn of the sending loop. A transmission that fails is tried again as
\* long as there is time, and then counts as sent all the same.
Transmit(p, c, packet) ==
    \/ /\ chan[c].abort
       /\ Goto(p, "sent")
       /\ UNCHANGED inbox
    \/ /\ ~chan[c].abort
       /\ inbox' = [inbox EXCEPT ![c] = Append(@, packet)]
       /\ Goto(p, "sent")
    \/ /\ ~chan[c].abort
       /\ pc' \in {[pc EXCEPT ![p] = label] : label \in {"pause", "sent"}}
       /\ UNCHANGED inbox

SendLocks(p) ==
    LET c == on[p]
        packet == [asked[p] EXCEPT !.txn = chan[c].txn + 1, !.life = restarts]
    IN  /\ pc[p] = "lock"
        /\ c \in Sharable => chan[c].sync = None
        /\ chan' = [chan EXCEPT ![c].txn = @ + 1,
                                ![c].sync = IF c \in Sharable THEN p ELSE @,
                                ![c].active = IF c \in Sharable THEN p ELSE @]
        /\ asked' = [asked EXCEPT ![p] = packet]
        /\ Transmit(p, c, packet)
        /\ UNCHANGED <<on, got, workVars, sends, restarts>>

SendAgain(p) ==
    /\ pc[p] = "pause"
    /\ Transmit(p, on[p], asked[p])
    /\ UNCHANGED <<chan, on, asked, got, workVars, sends, restarts>>

------------------------------------------------------------------------------
(* spcom_ioctl_handle_get_message and spcom_rx. *)

GetChecks(p) ==
    /\ pc[p] = "sent"
    /\ Goto(p, IF chan[on[p]].up THEN "rx" ELSE "end")
    /\ UNCHANGED <<chan, on, asked, got, workVars, inbox, sends, restarts>>

\* The response in the buffer was stored under another transaction number.
Stale(c) == chan[c].bufTxn # chan[c].txn

Take(p, c) ==
    /\ got' = [got EXCEPT ![p] = chan[c].buf]
    /\ chan' = [chan EXCEPT ![c].buf = NoPacket]
    /\ Goto(p, "end")

RxStarts(p) ==
    LET c == on[p]
    IN  /\ pc[p] = "rx"
        /\ IF HasData(c) /\ ~Stale(c)
             THEN Take(p, c)
             ELSE /\ chan' = [chan EXCEPT ![c].buf = NoPacket, ![c].done = FALSE]
                  /\ Goto(p, "wait")
                  /\ UNCHANGED got
        /\ UNCHANGED <<on, asked, workVars, inbox, sends, restarts>>

\* Mutant: a wait without a timeout.
RxWakesLate(p) ==
    /\ pc[p] = "wait"
    /\ chan[on[p]].done
    /\ Goto(p, "woken")
    /\ UNCHANGED <<chan, on, asked, got, workVars, inbox, sends, restarts>>

\* The wait ends: the completion, the timeout or a signal. The lock is not
\* taken again yet.
RxWakes(p) ==
    /\ pc[p] = "wait"
    /\ \/ chan[on[p]].done /\ Goto(p, "woken")
       \/ ~chan[on[p]].done /\ Goto(p, "expired")
       \/ Goto(p, "interrupted")
    /\ UNCHANGED <<chan, on, asked, got, workVars, inbox, sends, restarts>>

\* So that the response is dropped when it comes.
Expire(ch) == [ch EXCEPT !.txn = @ + 1]

RxEnds(p) ==
    LET c == on[p]
    IN  /\ pc[p] \in {"woken", "expired", "interrupted"}
        /\ IF pc[p] = "woken" /\ ~chan[c].abort /\ HasData(c)
             THEN Take(p, c)
             ELSE /\ chan' = IF pc[p] = "expired" THEN [chan EXCEPT ![c] = Expire(@)] ELSE chan
                  /\ Goto(p, "end")
                  /\ UNCHANGED got
        /\ UNCHANGED <<on, asked, workVars, inbox, sends, restarts>>

\* The shared lock is let go without the channel's lock.
GetEnds(p) ==
    /\ pc[p] = "end"
    /\ chan' = [chan EXCEPT ![on[p]] = Released(@, p)]
    /\ Goto(p, "idle")
    /\ Forget(p)
    /\ UNCHANGED <<on, workVars, inbox, sends, restarts>>

------------------------------------------------------------------------------
(* The secure processor and the transport. *)

\* spcom_rpdev_probe.
Probe(c) ==
    /\ chan[c].open /\ ~chan[c].up
    /\ chan' = [chan EXCEPT ![c].up = TRUE, ![c].abort = FALSE, ![c].txn = Initial]
    /\ UNCHANGED <<procVars, workVars, inbox, sends, restarts>>

\* spcom_rpdev_remove, for every channel when the secure processor goes away;
\* an unread response stays.
Remove ==
    /\ restarts < MaxRestarts
    /\ restarts' = restarts + 1
    /\ chan' = [c \in Channels |->
                  IF chan[c].up
                    THEN [chan[c] EXCEPT !.up = FALSE, !.abort = TRUE, !.txn = 0, !.done = TRUE]
                    ELSE chan[c]]
    /\ inbox' = [c \in Channels |-> <<>>]
    /\ UNCHANGED <<procVars, workVars, sends>>

\* The response arrives: spcom_rpdev_cb queues it and schedules the work.
Respond(c) ==
    /\ chan[c].up
    /\ inbox[c] # <<>>
    /\ inbox' = [inbox EXCEPT ![c] = Tail(@)]
    /\ rx' = Append(rx, [ch |-> c, packet |-> Head(inbox[c])])
    /\ pending' = TRUE
    /\ UNCHANGED <<chan, procVars, running, sends, restarts>>

------------------------------------------------------------------------------
(* spcom_signal_rx_done. *)

WorkStarts ==
    /\ pending /\ ~running
    /\ pending' = FALSE
    /\ running' = TRUE
    /\ UNCHANGED <<chan, procVars, rx, inbox, sends, restarts>>

NextPacket == Head(rx)

\* Mutant: whatever number it has.
DroppedOnAbort(c, packet) == chan[c].abort

\* A packet of the channel is dropped, and what is in the buffer thrown away,
\* if the channel is closing or the number is not that of the transaction.
Dropped(c, packet) == chan[c].abort \/ packet.txn # chan[c].txn

\* One turn of the loop. A packet that is dropped ends it, whatever is left
\* in the list.
WorkDelivers ==
    /\ running
    /\ rx # <<>>
    /\ LET c == NextPacket.ch
           packet == NextPacket.packet
       IN  /\ rx' = Tail(rx)
           /\ IF Dropped(c, packet)
                THEN chan' = [chan EXCEPT ![c].buf = NoPacket] /\ running' = FALSE
                ELSE /\ chan' = [chan EXCEPT ![c].buf = packet,
                                             ![c].bufTxn = chan[c].txn,
                                             ![c].done = TRUE]
                     /\ UNCHANGED running
    /\ UNCHANGED <<procVars, pending, inbox, sends, restarts>>

WorkEnds ==
    /\ running
    /\ rx = <<>>
    /\ running' = FALSE
    /\ UNCHANGED <<chan, procVars, rx, pending, inbox, sends, restarts>>

------------------------------------------------------------------------------
Send(p) == SendChecks(p) \/ SendLocks(p) \/ SendAgain(p)
Get(p) == GetChecks(p) \/ RxStarts(p) \/ RxWakes(p) \/ RxEnds(p) \/ GetEnds(p)
Work == WorkStarts \/ WorkDelivers \/ WorkEnds

Next ==
    \/ \E p \in Clients :
         \/ \E c \in Channels : Register(p, c)
         \/ Leave(p) \/ Send(p) \/ Get(p)
    \/ \E c \in Channels : Probe(c) \/ Respond(c)
    \/ Remove
    \/ Work

\* An ioctl goes on; every wait has a timeout; a process that has sent gets
\* its response or leaves; who waits for a mutex gets it if it is let go
\* again and again. Nothing is asked of the secure processor.
Spec ==
    /\ Init /\ [][Next]_vars
    /\ \A p \in Clients :
         /\ WF_vars(Get(p))
         /\ WF_vars(SendAgain(p))
         /\ SF_vars(SendLocks(p))
    /\ WF_vars(Work)

------------------------------------------------------------------------------
Packets == [txn : Nat, n : 0 .. MaxSends, life : 0 .. MaxRestarts]

\* Every variable has a value of its type, and a channel no more clients than
\* it can have.
TypeOK ==
    /\ chan \in [Channels ->
                   [open : BOOLEAN, up : BOOLEAN, abort : BOOLEAN, txn : Nat,
                    buf : Packets, bufTxn : Nat, done : BOOLEAN, clients : SUBSET Clients,
                    active : Clients \union {None}, sync : Clients \union {None}]]
    /\ \A c \in Channels : Cardinality(chan[c].clients) <= MaxOf(c)
    /\ pc \in [Clients -> {"out", "idle", "lock", "pause", "sent", "rx", "wait", "woken",
                           "expired", "interrupted", "end"}]
    /\ on \in [Clients -> Channels]
    /\ asked \in [Clients -> Packets] /\ got \in [Clients -> Packets]
    /\ rx \in Seq([ch : Channels, packet : Packets])
    /\ pending \in BOOLEAN /\ running \in BOOLEAN
    /\ inbox \in [Channels -> Seq(Packets)]
    /\ sends \in 0 .. MaxSends /\ restarts \in 0 .. MaxRestarts

\* The process is in the middle of a transaction.
Transacting(p) == pc[p] \in {"pause", "sent", "rx", "wait", "woken", "expired", "interrupted", "end"}

\* A response is that of the request the process has just sent, whatever came
\* late, as long as the secure processor has not been away in between
\* (spcom.c:548, the timeout that moves the number on; :3676, the check).
OwnAnswer ==
    \A p \in Clients :
        got[p] # NoPacket => got[p].n = asked[p].n \/ got[p].life # asked[p].life

\* spcom.c:275: "to track if rx_buf is read in the same session in which it
\* is updated".
SameSession == \A p \in Clients : got[p] # NoPacket => got[p].life = asked[p].life

\* Nobody waits for the shared lock for ever.
LockComes == \A p \in Clients : pc[p] = "lock" ~> pc[p] # "lock"

\* Every transaction ends, also when the secure processor goes away between
\* the check of the connection and the wait.
TransactionEnds == \A p \in Clients : pc[p] = "sent" ~> pc[p] \in {"idle", "out"}
=============================================================================
