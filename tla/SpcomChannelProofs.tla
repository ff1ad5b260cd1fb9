--------------------------- MODULE SpcomChannelProofs ---------------------------
(***************************************************************************)
(* Proofs about spcom's channels: for any number of channels and processes,*)
(* of requests, and of times the secure processor goes away.               *)
(***************************************************************************)
EXTENDS SpcomChannel, FiniteSetTheorems, TLAPS

Packet == [txn : Nat, n : Nat, life : Nat]
Item == [ch : Channels, packet : Packet]
Chan == [open : BOOLEAN, up : BOOLEAN, abort : BOOLEAN, txn : Nat,
         buf : Packet, bufTxn : Nat, done : BOOLEAN, clients : SUBSET Clients,
         active : Clients \union {None}, sync : Clients \union {None}]

Typed ==
    /\ chan \in [Channels -> Chan]
    /\ pc = [p \in Clients |-> pc[p]] /\ on = [p \in Clients |-> on[p]]
    /\ \A p \in Clients : pc[p] # "out" => on[p] \in Channels
    /\ asked \in [Clients -> Packet] /\ got \in [Clients -> Packet]
    /\ rx \in Seq(Item)
    /\ inbox \in [Channels -> Seq(Packet)]
    /\ sends \in Nat /\ restarts \in Nat

\* A process goes on, and the others stay where they are.
LEMMA Goes ==
    ASSUME Typed, NEW p \in Clients, NEW label, Goto(p, label)
    PROVE  /\ pc' = [q \in Clients |-> pc'[q]] /\ pc'[p] = label
           /\ \A q \in Clients : q # p => pc'[q] = pc[q]
BY DEF Goto, Typed

\* One turn of the sending loop moves the sender, and may add a request.
LEMMA Transmits ==
    ASSUME Typed, NEW p \in Clients, NEW c \in Channels, NEW packet \in Packet,
           Transmit(p, c, packet)
    PROVE  /\ pc' = [q \in Clients |-> pc'[q]] /\ pc'[p] \in {"pause", "sent"}
           /\ \A q \in Clients : q # p => pc'[q] = pc[q]
           /\ pc'[p] = "pause" => ~chan[c].abort
           /\ inbox' \in [Channels -> Seq(Packet)]
           /\ \/ inbox' = inbox
              \/ ~chan[c].abort /\ inbox' = [inbox EXCEPT ![c] = Append(@, packet)]
<1>1. \E label \in {"pause", "sent"} : Goto(p, label) /\ (label = "pause" => ~chan[c].abort)
  BY DEF Transmit, Goto
<1>2. /\ inbox' = inbox \/ (~chan[c].abort /\ inbox' = [inbox EXCEPT ![c] = Append(@, packet)])
  BY DEF Transmit
<1>3. inbox' \in [Channels -> Seq(Packet)]
  <2>1. inbox[c] \in Seq(Packet) /\ Append(inbox[c], packet) \in Seq(Packet)
    BY DEF Typed
  <2> QED
    BY <1>2, <2>1 DEF Typed
<1> QED
  BY <1>1, <1>2, <1>3, Goes

LEMMA NoPacketTyped == NoPacket \in Packet
BY DEF NoPacket, Packet

\* Two fields of one channel.
LEMMA ReleasedTyped ==
    ASSUME NEW ch \in Chan, NEW p
    PROVE  /\ Released(ch, p) \in Chan
           /\ Released(ch, p).clients = ch.clients /\ Released(ch, p).txn = ch.txn
           /\ Released(ch, p).buf = ch.buf /\ Released(ch, p).bufTxn = ch.bufTxn
           /\ Released(ch, p).open <=> ch.open
           /\ Released(ch, p).up <=> ch.up
           /\ Released(ch, p).abort <=> ch.abort
           /\ ch.active # p => Released(ch, p).sync = ch.sync /\ Released(ch, p).active = ch.active
<1>1. CASE ch.active = p
  BY <1>1 DEF Released, Chan
<1>2. CASE ch.active # p
  BY <1>2 DEF Released, Chan
<1> QED
  BY <1>1, <1>2

LEMMA DeinitTyped ==
    ASSUME NEW ch \in Chan, NEW p
    PROVE  /\ Deinit(ch, p) \in Chan
           /\ Deinit(ch, p).clients = ch.clients \ {p} /\ Deinit(ch, p).txn = ch.txn
           /\ Deinit(ch, p).buf = NoPacket /\ Deinit(ch, p).bufTxn = ch.bufTxn
           /\ Deinit(ch, p).open <=> ch.open
           /\ Deinit(ch, p).up <=> ch.up
           /\ Deinit(ch, p).abort <=> ch.abort
           /\ ch.active # p => Deinit(ch, p).sync = ch.sync /\ Deinit(ch, p).active = ch.active
<1> DEFINE r == Released(ch, p)
<1>1. /\ r \in Chan /\ r.clients = ch.clients /\ r.txn = ch.txn /\ r.bufTxn = ch.bufTxn
      /\ r.open <=> ch.open
      /\ r.up <=> ch.up
      /\ r.abort <=> ch.abort
      /\ ch.active # p => r.sync = ch.sync /\ r.active = ch.active
  BY ReleasedTyped
<1> HIDE DEF r
<1>2. Deinit(ch, p) = [r EXCEPT !.clients = @ \ {p}, !.buf = NoPacket]
  BY DEF Deinit, r
<1> QED
  BY <1>1, <1>2, NoPacketTyped DEF Chan
\* What a step makes of a channel is one.
LEMMA UpdatedTyped ==
    ASSUME NEW ch \in Chan, NEW packet \in Packet
    PROVE  /\ [ch EXCEPT !.buf = packet] \in Chan
           /\ [ch EXCEPT !.buf = packet, !.done = FALSE] \in Chan
           /\ [ch EXCEPT !.buf = packet, !.bufTxn = ch.txn, !.done = TRUE] \in Chan
           /\ [ch EXCEPT !.txn = @ + 1] \in Chan
           /\ [ch EXCEPT !.up = TRUE, !.abort = FALSE, !.txn = Initial] \in Chan
           /\ [ch EXCEPT !.up = FALSE, !.abort = TRUE, !.txn = 0, !.done = TRUE] \in Chan
<1>1. [ch EXCEPT !.buf = packet] \in Chan
  BY DEF Chan
<1>2. [ch EXCEPT !.buf = packet, !.done = FALSE] \in Chan
  BY DEF Chan
<1>3. [ch EXCEPT !.buf = packet, !.bufTxn = ch.txn, !.done = TRUE] \in Chan
  BY DEF Chan
<1>4. [ch EXCEPT !.txn = @ + 1] \in Chan
  BY DEF Chan
<1>5. [ch EXCEPT !.up = TRUE, !.abort = FALSE, !.txn = Initial] \in Chan
  BY DEF Chan, Initial
<1>6. [ch EXCEPT !.up = FALSE, !.abort = TRUE, !.txn = 0, !.done = TRUE] \in Chan
  BY DEF Chan
<1> QED
  BY <1>1, <1>2, <1>3, <1>4, <1>5, <1>6

LEMMA JoinedTyped ==
    ASSUME NEW ch \in Chan, NEW p \in Clients
    PROVE  [ch EXCEPT !.open = TRUE, !.abort = IF ch.open THEN @ ELSE FALSE,
                      !.clients = @ \union {p}] \in Chan
<1>1. CASE ch.open
  BY <1>1 DEF Chan
<1>2. CASE ~ch.open
  BY <1>2 DEF Chan
<1> QED
  BY <1>1, <1>2

LEMMA LockedTyped ==
    ASSUME NEW ch \in Chan, NEW p \in Clients \union {None}, NEW q \in Clients \union {None}
    PROVE  [ch EXCEPT !.txn = @ + 1, !.sync = p, !.active = q] \in Chan
<1> DEFINE All == Clients \union {None}
           r == [ch EXCEPT !.txn = @ + 1]
<1>1. r \in Chan
  BY UpdatedTyped, NoPacketTyped
<1>2. [ch EXCEPT !.txn = @ + 1, !.sync = p, !.active = q] = [r EXCEPT !.sync = p, !.active = q]
  BY DEF Chan
<1> HIDE DEF r
<1>3. p \in All /\ q \in All /\ r \in [open : BOOLEAN, up : BOOLEAN, abort : BOOLEAN, txn : Nat,
         buf : Packet, bufTxn : Nat, done : BOOLEAN, clients : SUBSET Clients, active : All, sync : All]
  BY <1>1 DEF Chan
<1> HIDE DEF All
<1>4. [r EXCEPT !.sync = p, !.active = q]
        \in [open : BOOLEAN, up : BOOLEAN, abort : BOOLEAN, txn : Nat,
             buf : Packet, bufTxn : Nat, done : BOOLEAN, clients : SUBSET Clients, active : All, sync : All]
  BY <1>3
<1> QED
  BY <1>2, <1>4 DEF Chan, All

LEMMA NumberedTyped ==
    ASSUME NEW packet \in Packet, NEW n \in Nat, NEW txn \in Nat, NEW life \in Nat
    PROVE  [packet EXCEPT !.n = n] \in Packet /\ [packet EXCEPT !.txn = txn, !.life = life] \in Packet
BY DEF Packet

\* Every step keeps the types.
LEMMA StepTyped == Typed /\ [Next]_vars => Typed'
<1> SUFFICES ASSUME Typed, [Next]_vars PROVE Typed'
  OBVIOUS
<1> USE NoPacketTyped
<1>1. CASE UNCHANGED vars
  BY <1>1 DEF vars, procVars, workVars, Typed
<1>2. ASSUME NEW p \in Clients, NEW c \in Channels, Register(p, c) PROVE Typed'
  <2>1. Goto(p, "idle") /\ on' = [on EXCEPT ![p] = c] /\ UNCHANGED <<asked, got, workVars, inbox, sends, restarts>>
    BY <1>2 DEF Register
  <2>2. chan' \in [Channels -> Chan]
    <3> DEFINE v == [chan[c] EXCEPT !.open = TRUE, !.abort = IF chan[c].open THEN @ ELSE FALSE,
                                    !.clients = @ \union {p}]
    <3>0. chan[c] \in Chan
      BY DEF Typed
    <3>1. v \in Chan
      BY <3>0, JoinedTyped
    <3>2. chan' = [chan EXCEPT ![c] = v]
      BY <1>2 DEF Register, Typed, Chan
    <3> HIDE DEF v
    <3> QED
      BY <3>1, <3>2 DEF Typed
  <2> QED
    BY <2>1, <2>2, Goes DEF Typed, workVars
<1>3. ASSUME NEW p \in Clients, Leave(p) PROVE Typed'
  <2>1. on[p] \in Channels
    BY <1>3 DEF Leave, Typed
  <2>2. chan' = [chan EXCEPT ![on[p]] = Deinit(chan[on[p]], p)]
    BY <1>3, <2>1 DEF Leave, Typed
  <2>3. chan' \in [Channels -> Chan]
    BY <2>1, <2>2, DeinitTyped DEF Typed
  <2>4. Goto(p, "out") /\ Forget(p) /\ UNCHANGED <<on, workVars, inbox, sends, restarts>>
    BY <1>3 DEF Leave
  <2>5. asked' \in [Clients -> Packet] /\ got' \in [Clients -> Packet]
    BY <2>4 DEF Forget, Typed
  <2> QED
    BY <2>3, <2>4, <2>5, Goes DEF Typed, workVars
<1>4. ASSUME NEW p \in Clients, SendChecks(p) PROVE Typed'
  <2>1. /\ Goto(p, "lock") /\ sends' = sends + 1 /\ pc[p] = "idle"
        /\ asked' = [asked EXCEPT ![p] = [NoPacket EXCEPT !.n = sends + 1]]
        /\ UNCHANGED <<chan, on, got, workVars, inbox, restarts>>
    BY <1>4 DEF SendChecks
  <2>2. [NoPacket EXCEPT !.n = sends + 1] \in Packet
    <3>1. sends + 1 \in Nat /\ 0 \in Nat
      BY DEF Typed
    <3> QED
      BY <3>1, NumberedTyped
  <2>3. asked' \in [Clients -> Packet]
    BY <2>1, <2>2 DEF Typed
  <2> QED
    BY <2>1, <2>3, Goes DEF Typed, workVars
<1>5. ASSUME NEW p \in Clients, SendLocks(p) PROVE Typed'
  <2> DEFINE c == on[p]
             packet == [asked[p] EXCEPT !.txn = chan[c].txn + 1, !.life = restarts]
             v == [chan[c] EXCEPT !.txn = @ + 1, !.sync = IF c \in Sharable THEN p ELSE @,
                                  !.active = IF c \in Sharable THEN p ELSE @]
  <2>1. c \in Channels /\ pc[p] = "lock"
    BY <1>5 DEF SendLocks, Typed
  <2>0. chan[c] \in Chan /\ asked[p] \in Packet /\ chan[c].txn + 1 \in Nat /\ restarts \in Nat
    BY <2>1 DEF Typed, Chan
  <2>2. packet \in Packet
    BY <2>0, NumberedTyped
  <2>8. v \in Chan
    <3>1. /\ chan[c].sync \in Clients \union {None} /\ chan[c].active \in Clients \union {None}
      BY <2>0 DEF Chan
    <3> QED
      BY <2>0, <3>1, LockedTyped
  <2>3. chan' = [chan EXCEPT ![c] = v]
    BY <1>5, <2>1 DEF SendLocks, Typed, Chan
  <2>4. asked' = [asked EXCEPT ![p] = packet] /\ Transmit(p, c, packet)
        /\ UNCHANGED <<on, got, workVars, sends, restarts>>
    BY <1>5 DEF SendLocks
  <2>5. asked' \in [Clients -> Packet]
    BY <2>2, <2>4 DEF Typed
  <2> HIDE DEF v, packet
  <2>6. chan' \in [Channels -> Chan]
    BY <2>1, <2>3, <2>8 DEF Typed
  <2>7. /\ pc' = [q \in Clients |-> pc'[q]] /\ pc'[p] \in {"pause", "sent"}
        /\ \A q \in Clients : q # p => pc'[q] = pc[q]
        /\ inbox' \in [Channels -> Seq(Packet)]
    BY <2>1, <2>2, <2>4, Transmits
  <2> QED
    BY <2>1, <2>4, <2>5, <2>6, <2>7 DEF Typed, workVars
<1>6. ASSUME NEW p \in Clients, SendAgain(p) PROVE Typed'
  <2>1. on[p] \in Channels /\ asked[p] \in Packet /\ Transmit(p, on[p], asked[p])
        /\ UNCHANGED <<chan, on, asked, got, workVars, sends, restarts>> /\ pc[p] = "pause"
    BY <1>6 DEF SendAgain, Typed
  <2>2. /\ pc' = [q \in Clients |-> pc'[q]] /\ pc'[p] \in {"pause", "sent"}
        /\ \A q \in Clients : q # p => pc'[q] = pc[q]
        /\ inbox' \in [Channels -> Seq(Packet)]
    BY <2>1, Transmits
  <2> QED
    BY <2>1, <2>2 DEF Typed, workVars
<1>7. ASSUME NEW p \in Clients, GetChecks(p) \/ RxWakes(p) PROVE Typed'
  <2>1. pc[p] # "out" /\ (\E label : Goto(p, label))
        /\ UNCHANGED <<chan, on, asked, got, workVars, inbox, sends, restarts>>
    BY <1>7 DEF GetChecks, RxWakes
  <2> QED
    BY <2>1, Goes DEF Typed, workVars
<1>8. ASSUME NEW p \in Clients, RxStarts(p) \/ RxEnds(p) PROVE Typed'
  <2> DEFINE c == on[p]
  <2>1. c \in Channels /\ pc[p] # "out"
    BY <1>8 DEF RxStarts, RxEnds, Typed
  <2>2. (\E label : Goto(p, label)) /\ UNCHANGED <<on, asked, workVars, inbox, sends, restarts>>
    BY <1>8 DEF RxStarts, RxEnds, Take
  <2>3. got' \in [Clients -> Packet]
    <3>1. got' = got \/ got' = [got EXCEPT ![p] = chan[c].buf]
      BY <1>8 DEF RxStarts, RxEnds, Take
    <3>2. chan[c].buf \in Packet
      BY <2>1 DEF Typed, Chan
    <3> QED
      BY <3>1, <3>2 DEF Typed
  <2>4. chan' \in [Channels -> Chan]
    <3>1. \/ chan' = chan
          \/ chan' = [chan EXCEPT ![c] = [chan[c] EXCEPT !.buf = NoPacket]]
          \/ chan' = [chan EXCEPT ![c] = [chan[c] EXCEPT !.buf = NoPacket, !.done = FALSE]]
          \/ chan' = [chan EXCEPT ![c] = [chan[c] EXCEPT !.txn = @ + 1]]
      BY <1>8, <2>1 DEF RxStarts, RxEnds, Take, Expire, Typed, Chan
    <3>2. chan[c] \in Chan
      BY <2>1 DEF Typed
    <3>3. /\ [chan[c] EXCEPT !.buf = NoPacket] \in Chan
          /\ [chan[c] EXCEPT !.buf = NoPacket, !.done = FALSE] \in Chan
          /\ [chan[c] EXCEPT !.txn = @ + 1] \in Chan
      BY <3>2, UpdatedTyped
    <3> QED
      BY <2>1, <3>1, <3>3 DEF Typed
  <2> QED
    BY <2>1, <2>2, <2>3, <2>4, Goes DEF Typed, workVars
<1>9. ASSUME NEW p \in Clients, GetEnds(p) PROVE Typed'
  <2>1. on[p] \in Channels /\ pc[p] = "end"
    BY <1>9 DEF GetEnds, Typed
  <2>2. chan' = [chan EXCEPT ![on[p]] = Released(chan[on[p]], p)]
    BY <1>9, <2>1 DEF GetEnds, Typed
  <2>3. chan' \in [Channels -> Chan]
    BY <2>1, <2>2, ReleasedTyped DEF Typed
  <2>4. Goto(p, "idle") /\ Forget(p) /\ UNCHANGED <<on, workVars, inbox, sends, restarts>>
    BY <1>9 DEF GetEnds
  <2>5. asked' \in [Clients -> Packet] /\ got' \in [Clients -> Packet]
    BY <2>4 DEF Forget, Typed
  <2> QED
    BY <2>1, <2>3, <2>4, <2>5, Goes DEF Typed, workVars
<1>10. ASSUME NEW c \in Channels, Probe(c) PROVE Typed'
  <2> DEFINE v == [chan[c] EXCEPT !.up = TRUE, !.abort = FALSE, !.txn = Initial]
  <2>0. chan[c] \in Chan
    BY DEF Typed
  <2>1. v \in Chan
    BY <2>0, UpdatedTyped
  <2>2. chan' = [chan EXCEPT ![c] = v]
    BY <1>10 DEF Probe, Typed, Chan
  <2> HIDE DEF v
  <2>3. chan' \in [Channels -> Chan]
    BY <2>1, <2>2 DEF Typed
  <2> QED
    BY <1>10, <2>3 DEF Probe, Typed, procVars, workVars
<1>11. CASE Remove
  <2>1. ASSUME NEW c \in Channels
        PROVE  [chan[c] EXCEPT !.up = FALSE, !.abort = TRUE, !.txn = 0, !.done = TRUE] \in Chan
    <3>1. chan[c] \in Chan
      BY DEF Typed
    <3> QED
      BY <3>1, UpdatedTyped
  <2>2. chan' \in [Channels -> Chan]
    BY <1>11, <2>1 DEF Remove, Typed
  <2>3. inbox' \in [Channels -> Seq(Packet)]
    <3>1. inbox' = [c \in Channels |-> <<>>]
      BY <1>11 DEF Remove
    <3>2. <<>> \in Seq(Packet)
      OBVIOUS
    <3> QED
      BY <3>1, <3>2
  <2>4. UNCHANGED <<procVars, workVars, sends>> /\ restarts' = restarts + 1
    BY <1>11 DEF Remove
  <2> QED
    BY <2>2, <2>3, <2>4 DEF Typed, procVars, workVars
<1>12. ASSUME NEW c \in Channels, Respond(c) PROVE Typed'
  <2>1. inbox[c] \in Seq(Packet) /\ inbox[c] # <<>>
    BY <1>12 DEF Respond, Typed
  <2>2. Head(inbox[c]) \in Packet /\ Tail(inbox[c]) \in Seq(Packet)
    BY <2>1
  <2>3. [ch |-> c, packet |-> Head(inbox[c])] \in Item
    BY <2>2 DEF Item
  <2>4. rx' \in Seq(Item) /\ inbox' \in [Channels -> Seq(Packet)]
    BY <1>12, <2>2, <2>3 DEF Respond, Typed
  <2> QED
    BY <1>12, <2>4 DEF Respond, Typed, procVars
<1>13. CASE WorkStarts \/ WorkEnds
  BY <1>13 DEF WorkStarts, WorkEnds, Typed, procVars
<1>14. CASE WorkDelivers
  <2>1. Head(rx) \in Item /\ Tail(rx) \in Seq(Item)
    BY <1>14 DEF WorkDelivers, Typed
  <2> DEFINE c == Head(rx).ch
             packet == Head(rx).packet
  <2>2. c \in Channels /\ packet \in Packet
    BY <2>1 DEF Item
  <2>3. \/ chan' = [chan EXCEPT ![c] = [chan[c] EXCEPT !.buf = NoPacket]]
        \/ chan' = [chan EXCEPT ![c] = [chan[c] EXCEPT !.buf = packet, !.bufTxn = chan[c].txn, !.done = TRUE]]
    BY <1>14, <2>2 DEF WorkDelivers, NextPacket, Typed, Chan
  <2>4. /\ [chan[c] EXCEPT !.buf = NoPacket] \in Chan
        /\ [chan[c] EXCEPT !.buf = packet, !.bufTxn = chan[c].txn, !.done = TRUE] \in Chan
    <3>1. chan[c] \in Chan
      BY <2>2 DEF Typed
    <3> HIDE DEF c, packet
    <3> QED
      BY <2>2, <3>1, UpdatedTyped
  <2>5. chan' \in [Channels -> Chan]
    BY <2>2, <2>3, <2>4 DEF Typed
  <2>6. rx' \in Seq(Item)
    BY <1>14, <2>1 DEF WorkDelivers
  <2> QED
    BY <1>14, <2>5, <2>6 DEF WorkDelivers, Typed, procVars
<1> QED
  BY <1>1, <1>2, <1>3, <1>4, <1>5, <1>6, <1>7, <1>8, <1>9, <1>10, <1>11, <1>12, <1>13, <1>14
     DEF Next, Send, Get, Work
------------------------------------------------------------------------------
(* One transaction at a time. *)

Members ==
    /\ \A p \in Clients : pc[p] # "out" => p \in chan[on[p]].clients /\ chan[on[p]].open
    /\ \A c \in Channels \ Sharable : \A p, q \in chan[c].clients : p = q
    /\ \A p \in Clients :
         Transacting(p) /\ on[p] \in Sharable => chan[on[p]].sync = p /\ chan[on[p]].active = p
    /\ \A p \in Clients : pc[p] \notin {"out", "idle"} => chan[on[p]].up \/ chan[on[p]].abort

\* A channel serves one of its processes.
LEMMA OneTransacts ==
    ASSUME Typed, Members, NEW p \in Clients, NEW q \in Clients,
           Transacting(p), pc[q] # "out", on[p] = on[q],
           on[p] \in Sharable => Transacting(q)
    PROVE  p = q
<1>1. pc[p] # "out"
  BY DEF Transacting
<1>2. CASE on[p] \in Sharable
  BY <1>2 DEF Members
<1>3. CASE on[p] \notin Sharable
  <2>1. on[p] \in Channels
    BY <1>1 DEF Typed
  <2> QED
    BY <1>1, <1>3, <2>1 DEF Members
<1> QED
  BY <1>2, <1>3

\* A process moves.
LEMMA OneMoves ==
    ASSUME Typed, Members, NEW p \in Clients, on' = on, pc[p] # "out",
           \A q \in Clients : q # p => pc'[q] = pc[q],
           \A d \in Channels : d # on[p] => chan'[d] = chan[d],
           chan'[on[p]].clients \subseteq chan[on[p]].clients,
           \A q \in chan[on[p]].clients : q # p \/ pc'[p] # "out" => q \in chan'[on[p]].clients,
           chan[on[p]].open => chan'[on[p]].open,
           chan[on[p]].up \/ chan[on[p]].abort => chan'[on[p]].up \/ chan'[on[p]].abort,
           \A q \in Clients : q # p /\ chan[on[p]].sync = q /\ chan[on[p]].active = q
             => chan'[on[p]].sync = q /\ chan'[on[p]].active = q,
           Transacting(p)' /\ on[p] \in Sharable => chan'[on[p]].sync = p /\ chan'[on[p]].active = p,
           pc'[p] \notin {"out", "idle"} => chan[on[p]].up \/ chan[on[p]].abort
    PROVE  Members'
<1>0. on[p] \in Channels
  BY DEF Typed
<1>1. ASSUME NEW q \in Clients, pc'[q] # "out" PROVE q \in chan'[on[q]].clients /\ chan'[on[q]].open
  <2>1. CASE q = p
    BY <1>0, <1>1, <2>1 DEF Members
  <2>2. CASE q # p
    BY <1>0, <1>1, <2>2 DEF Members, Typed
  <2> QED
    BY <2>1, <2>2
<1>2. ASSUME NEW c \in Channels \ Sharable, NEW q \in chan'[c].clients, NEW r \in chan'[c].clients
      PROVE  q = r
  BY <1>0, <1>2 DEF Members
<1>3. ASSUME NEW q \in Clients, Transacting(q)', on[q] \in Sharable
      PROVE  chan'[on[q]].sync = q /\ chan'[on[q]].active = q
  <2>1. CASE q = p
    BY <1>3, <2>1
  <2>2. CASE q # p
    <3>1. Transacting(q) /\ on[q] \in Channels
      BY <1>3, <2>2 DEF Transacting, Typed
    <3> QED
      BY <1>0, <1>3, <2>2, <3>1 DEF Members
  <2> QED
    BY <2>1, <2>2
<1>4. ASSUME NEW q \in Clients, pc'[q] \notin {"out", "idle"} PROVE chan'[on[q]].up \/ chan'[on[q]].abort
  <2>1. CASE q = p
    BY <1>4, <2>1
  <2>2. CASE q # p
    <3>1. on[q] \in Channels
      BY <1>4, <2>2 DEF Typed
    <3> QED
      BY <1>4, <2>2, <3>1 DEF Members
  <2> QED
    BY <2>1, <2>2
<1> QED
  BY <1>1, <1>2, <1>3, <1>4 DEF Members

\* The driver and the secure processor move no process.
LEMMA NobodyMoves ==
    ASSUME Typed, Members, UNCHANGED procVars,
           \A c \in Channels :
             /\ chan'[c].clients = chan[c].clients /\ chan'[c].sync = chan[c].sync
             /\ chan'[c].active = chan[c].active
             /\ chan[c].open => chan'[c].open
             /\ chan[c].up \/ chan[c].abort => chan'[c].up \/ chan'[c].abort
    PROVE  Members'
<1>1. \A q \in Clients : pc'[q] = pc[q] /\ on'[q] = on[q] /\ (Transacting(q)' <=> Transacting(q))
  BY DEF procVars, Transacting
<1>2. \A q \in Clients : pc[q] # "out" => on[q] \in Channels
  BY DEF Typed
<1>3. \A q \in Clients : Transacting(q) => pc[q] # "out"
  BY DEF Transacting
<1> QED
  BY <1>1, <1>2, <1>3 DEF Members

LEMMA StepMembers == Typed /\ Members /\ [Next]_vars => Members'
<1> SUFFICES ASSUME Typed, Members, [Next]_vars PROVE Members'
  OBVIOUS
<1>0. \A c \in Channels : chan[c] \in Chan
  BY DEF Typed
<1>1. CASE UNCHANGED vars
  BY <1>1, NobodyMoves DEF vars
<1>2. ASSUME NEW p \in Clients, NEW c \in Channels, Register(p, c) PROVE Members'
  <2> DEFINE ch == chan[c]
             v == [ch EXCEPT !.open = TRUE, !.abort = IF ch.open THEN @ ELSE FALSE,
                             !.clients = @ \union {p}]
  <2>1. /\ pc[p] = "out" /\ ~Busy(c) /\ Goto(p, "idle") /\ on' = [on EXCEPT ![p] = c]
        /\ chan' = [chan EXCEPT ![c] = v]
    BY <1>2, <1>0 DEF Register, Chan
  <2>2. /\ v.open /\ v.clients = ch.clients \union {p} /\ v.sync = ch.sync /\ v.active = ch.active
        /\ v.up <=> ch.up
        /\ ch.open => (v.abort <=> ch.abort)
    BY <1>0 DEF Chan
  <2> HIDE DEF v
  <2>3. chan'[c] = v /\ \A d \in Channels : d # c => chan'[d] = chan[d]
    BY <2>1 DEF Typed
  <2>4. pc'[p] = "idle" /\ \A q \in Clients : q # p => pc'[q] = pc[q] /\ on'[q] = on[q]
    BY <2>1, Goes DEF Typed
  <2>5. on'[p] = c
    BY <2>1 DEF Typed
  <2>6. c \notin Sharable => ch.clients = {}
    <3>1. SUFFICES ASSUME c \notin Sharable, ch.clients # {} PROVE FALSE
      OBVIOUS
    <3>2. PICK x : ch.clients = {x}
      BY <3>1 DEF Members
    <3>3. Cardinality(ch.clients) = 1
      BY <3>2, FS_Singleton
    <3> QED
      BY <2>1, <3>1, <3>3 DEF Busy, MaxOf
  <2>7. ASSUME NEW q \in Clients, pc'[q] # "out"
        PROVE  q \in chan'[on'[q]].clients /\ chan'[on'[q]].open
    <3>1. CASE q = p
      BY <2>2, <2>3, <2>5, <3>1
    <3>2. CASE q # p
      <4>1. on[q] \in Channels /\ q \in chan[on[q]].clients /\ chan[on[q]].open
        BY <2>4, <2>7, <3>2 DEF Typed, Members
      <4> QED
        BY <2>2, <2>3, <2>4, <3>2, <4>1
    <3> QED
      BY <3>1, <3>2
  <2>8. ASSUME NEW d \in Channels \ Sharable, NEW q \in chan'[d].clients, NEW r \in chan'[d].clients
        PROVE  q = r
    <3>1. CASE d = c
      BY <2>2, <2>3, <2>6, <2>8, <3>1
    <3>2. CASE d # c
      BY <2>3, <2>8, <3>2 DEF Members
    <3> QED
      BY <3>1, <3>2
  <2>9. ASSUME NEW q \in Clients, pc'[q] \notin {"out", "idle"}
        PROVE  /\ chan'[on'[q]].up \/ chan'[on'[q]].abort
               /\ Transacting(q)' /\ on'[q] \in Sharable
                    => chan'[on'[q]].sync = q /\ chan'[on'[q]].active = q
    <3>1. q # p /\ pc[q] = pc'[q] /\ on'[q] = on[q]
      BY <2>4, <2>9
    <3>2. on[q] \in Channels /\ chan[on[q]].open
      BY <2>9, <3>1 DEF Typed, Members
    <3>3. /\ chan'[on[q]].sync = chan[on[q]].sync /\ chan'[on[q]].active = chan[on[q]].active
          /\ chan[on[q]].up \/ chan[on[q]].abort => chan'[on[q]].up \/ chan'[on[q]].abort
      BY <2>2, <2>3, <3>2
    <3>4. Transacting(q)' <=> Transacting(q)
      BY <3>1 DEF Transacting
    <3> QED
      BY <2>9, <3>1, <3>3, <3>4 DEF Members
  <2>10. \A q \in Clients : Transacting(q)' => pc'[q] \notin {"out", "idle"}
    BY DEF Transacting
  <2> QED
    BY <2>7, <2>8, <2>9, <2>10 DEF Members
<1>3. ASSUME NEW p \in Clients, Leave(p) PROVE Members'
  <2>1. pc[p] # "out" /\ on[p] \in Channels /\ on' = on /\ Goto(p, "out")
    BY <1>3 DEF Leave, Typed
  <2>2. chan' = [chan EXCEPT ![on[p]] = Deinit(chan[on[p]], p)]
    BY <1>3, <2>1 DEF Leave, Typed
  <2>3. chan'[on[p]] = Deinit(chan[on[p]], p) /\ \A d \in Channels : d # on[p] => chan'[d] = chan[d]
    BY <2>1, <2>2 DEF Typed
  <2>4. pc'[p] = "out" /\ \A q \in Clients : q # p => pc'[q] = pc[q]
    BY <2>1, Goes
  <2>5. ~Transacting(p)'
    BY <2>4 DEF Transacting
  <2>6. chan[on[p]] \in Chan
    BY <1>0, <2>1
  <2> DEFINE ch == chan[on[p]]
             dh == Deinit(ch, p)
  <2>7. /\ dh.clients = ch.clients \ {p}
        /\ dh.open <=> ch.open
        /\ dh.up <=> ch.up
        /\ dh.abort <=> ch.abort
        /\ ch.active # p => dh.sync = ch.sync /\ dh.active = ch.active
    BY <2>6, DeinitTyped
  <2> HIDE DEF dh
  <2> QED
    BY <2>1, <2>3, <2>4, <2>5, <2>7, OneMoves DEF dh
<1>4. ASSUME NEW p \in Clients, NEW label, Goto(p, label), pc[p] # "out", label # "out",
             UNCHANGED <<chan, on>>,
             Transacting(p)' => Transacting(p),
             label \notin {"out", "idle"} => chan[on[p]].up \/ pc[p] \notin {"out", "idle"}
      PROVE  Members'
  <2>1. pc'[p] = label /\ \A q \in Clients : q # p => pc'[q] = pc[q]
    BY <1>4, Goes
  <2>2. pc'[p] \notin {"out", "idle"} => chan[on[p]].up \/ chan[on[p]].abort
    BY <1>4, <2>1 DEF Members
  <2>3. Transacting(p)' /\ on[p] \in Sharable => chan'[on[p]].sync = p /\ chan'[on[p]].active = p
    BY <1>4 DEF Members
  <2> QED
    BY <1>4, <2>1, <2>2, <2>3, OneMoves
<1>5. ASSUME NEW p \in Clients, SendChecks(p) PROVE Members'
  <2>1. pc'[p] = "lock"
    BY <1>5, Goes DEF SendChecks
  <2>2. ~Transacting(p)'
    BY <2>1 DEF Transacting
  <2> QED
    BY <1>4, <1>5, <2>2 DEF SendChecks
<1>6. ASSUME NEW p \in Clients, SendLocks(p) PROVE Members'
  <2> DEFINE c == on[p]
             v == [chan[c] EXCEPT !.txn = @ + 1, !.sync = IF c \in Sharable THEN p ELSE @,
                                  !.active = IF c \in Sharable THEN p ELSE @]
  <2>1. pc[p] = "lock" /\ c \in Channels /\ on' = on /\ (c \in Sharable => chan[c].sync = None)
    BY <1>6 DEF SendLocks, Typed
  <2>2. chan' = [chan EXCEPT ![c] = v]
    BY <1>6, <2>1, <1>0 DEF SendLocks, Chan
  <2>3. /\ v.clients = chan[c].clients
        /\ v.open <=> chan[c].open
        /\ v.up <=> chan[c].up
        /\ v.abort <=> chan[c].abort
        /\ c \in Sharable => v.sync = p /\ v.active = p
        /\ c \notin Sharable => v.sync = chan[c].sync /\ v.active = chan[c].active
    BY <1>0, <2>1 DEF Chan
  <2> HIDE DEF v
  <2>4. chan'[c] = v /\ \A d \in Channels : d # c => chan'[d] = chan[d]
    BY <2>1, <2>2 DEF Typed
  <2>5. pc'[p] \in {"pause", "sent"} /\ \A q \in Clients : q # p => pc'[q] = pc[q]
    <3>1. \E label \in {"pause", "sent"} : Goto(p, label)
      BY <1>6 DEF SendLocks, Transmit, Goto
    <3> QED
      BY <3>1, Goes
  <2>6. chan[c].up \/ chan[c].abort
    BY <2>1 DEF Members
  <2>7. \A q \in Clients : q # None
    BY NoneAssumption
  <2> QED
    BY <2>1, <2>3, <2>4, <2>5, <2>6, <2>7, OneMoves
<1>7. ASSUME NEW p \in Clients, SendAgain(p) PROVE Members'
  <2>1. on[p] \in Channels /\ asked[p] \in Packet /\ Transmit(p, on[p], asked[p]) /\ UNCHANGED <<chan, on>>
        /\ pc[p] = "pause"
    BY <1>7 DEF SendAgain, Typed
  <2>2. PICK label \in {"pause", "sent"} : Goto(p, label)
    BY <2>1 DEF Transmit, Goto
  <2>3. Transacting(p)
    BY <2>1 DEF Transacting
  <2> QED
    BY <1>4, <2>1, <2>2, <2>3
<1>8. ASSUME NEW p \in Clients, GetChecks(p) \/ RxWakes(p) PROVE Members'
  <2>1. (\E label : Goto(p, label) /\ label # "out") /\ UNCHANGED <<chan, on>> /\ pc[p] \in {"sent", "wait"}
    BY <1>8 DEF GetChecks, RxWakes
  <2>2. Transacting(p)
    BY <2>1 DEF Transacting
  <2> QED
    BY <1>4, <2>1, <2>2
<1>9. ASSUME NEW p \in Clients, RxStarts(p) \/ RxEnds(p) PROVE Members'
  <2> DEFINE c == on[p]
  <2>1. c \in Channels /\ pc[p] \in {"rx", "woken", "expired", "interrupted"} /\ on' = on
    BY <1>9 DEF RxStarts, RxEnds, Typed
  <2>2. PICK label \in {"end", "wait"} : Goto(p, label)
    BY <1>9 DEF RxStarts, RxEnds, Take
  <2>3. \/ chan' = chan
        \/ chan' = [chan EXCEPT ![c] = [chan[c] EXCEPT !.buf = NoPacket]]
        \/ chan' = [chan EXCEPT ![c] = [chan[c] EXCEPT !.buf = NoPacket, !.done = FALSE]]
        \/ chan' = [chan EXCEPT ![c] = [chan[c] EXCEPT !.txn = @ + 1]]
    BY <1>9, <2>1, <1>0 DEF RxStarts, RxEnds, Take, Expire, Chan
  <2>4. /\ \A d \in Channels : d # c => chan'[d] = chan[d]
        /\ chan'[c].clients = chan[c].clients
        /\ chan'[c].open <=> chan[c].open
        /\ chan'[c].up <=> chan[c].up
        /\ chan'[c].abort <=> chan[c].abort
        /\ chan'[c].sync = chan[c].sync /\ chan'[c].active = chan[c].active
    <3>0. chan[c] \in Chan /\ c \in DOMAIN chan
      BY <1>0, <2>1 DEF Typed
    <3>1. CASE chan' = chan
      BY <3>1
    <3>2. CASE chan' = [chan EXCEPT ![c] = [chan[c] EXCEPT !.buf = NoPacket]]
      BY <3>0, <3>2 DEF Typed, Chan
    <3>3. CASE chan' = [chan EXCEPT ![c] = [chan[c] EXCEPT !.buf = NoPacket, !.done = FALSE]]
      BY <3>0, <3>3 DEF Typed, Chan
    <3>4. CASE chan' = [chan EXCEPT ![c] = [chan[c] EXCEPT !.txn = @ + 1]]
      BY <3>0, <3>4 DEF Typed, Chan
    <3> QED
      BY <2>3, <3>1, <3>2, <3>3, <3>4
  <2>5. pc'[p] = label /\ \A q \in Clients : q # p => pc'[q] = pc[q]
    BY <2>2, Goes
  <2>6. Transacting(p) /\ (chan[c].up \/ chan[c].abort)
    BY <2>1 DEF Transacting, Members
  <2>7. c \in Sharable => chan[c].sync = p /\ chan[c].active = p
    BY <2>6 DEF Members
  <2> QED
    BY <2>1, <2>2, <2>4, <2>5, <2>6, <2>7, OneMoves
<1>10. ASSUME NEW p \in Clients, GetEnds(p) PROVE Members'
  <2> DEFINE c == on[p]
  <2>1. c \in Channels /\ pc[p] = "end" /\ on' = on /\ Goto(p, "idle")
    BY <1>10 DEF GetEnds, Typed
  <2>2. chan' = [chan EXCEPT ![c] = Released(chan[c], p)]
    BY <1>10, <2>1 DEF GetEnds, Typed
  <2>3. chan'[c] = Released(chan[c], p) /\ \A d \in Channels : d # c => chan'[d] = chan[d]
    BY <2>1, <2>2 DEF Typed
  <2> DEFINE r == Released(chan[c], p)
  <2>4. /\ r.clients = chan[c].clients
        /\ r.open <=> chan[c].open
        /\ r.up <=> chan[c].up
        /\ r.abort <=> chan[c].abort
        /\ chan[c].active # p => r.sync = chan[c].sync /\ r.active = chan[c].active
    BY <1>0, <2>1, ReleasedTyped
  <2>5. pc'[p] = "idle" /\ \A q \in Clients : q # p => pc'[q] = pc[q]
    BY <2>1, Goes
  <2>6. ~Transacting(p)'
    BY <2>5 DEF Transacting
  <2> HIDE DEF r
  <2> QED
    BY <2>1, <2>3, <2>4, <2>5, <2>6, OneMoves DEF r
<1>11. ASSUME NEW c \in Channels, Probe(c) PROVE Members'
  <2>1. chan' = [chan EXCEPT ![c] = [chan[c] EXCEPT !.up = TRUE, !.abort = FALSE, !.txn = Initial]]
        /\ UNCHANGED procVars
    BY <1>11, <1>0 DEF Probe, Chan
  <2>2. ASSUME NEW d \in Channels
        PROVE  /\ chan'[d].clients = chan[d].clients /\ chan'[d].sync = chan[d].sync
               /\ chan'[d].active = chan[d].active
               /\ chan[d].open => chan'[d].open
               /\ chan[d].up \/ chan[d].abort => chan'[d].up \/ chan'[d].abort
    BY <1>0, <2>1 DEF Typed, Chan
  <2> QED
    BY <2>1, <2>2, NobodyMoves
<1>12. CASE Remove
  <2>1. UNCHANGED procVars
    BY <1>12 DEF Remove
  <2>2. ASSUME NEW d \in Channels
        PROVE  /\ chan'[d].clients = chan[d].clients /\ chan'[d].sync = chan[d].sync
               /\ chan'[d].active = chan[d].active
               /\ chan[d].open => chan'[d].open
               /\ chan[d].up \/ chan[d].abort => chan'[d].up \/ chan'[d].abort
    <3>1. chan'[d] = IF chan[d].up
                       THEN [chan[d] EXCEPT !.up = FALSE, !.abort = TRUE, !.txn = 0, !.done = TRUE]
                       ELSE chan[d]
      BY <1>12 DEF Remove
    <3> QED
      BY <1>0, <3>1 DEF Chan
  <2> QED
    BY <2>1, <2>2, NobodyMoves
<1>13. CASE (\E c \in Channels : Respond(c)) \/ WorkStarts \/ WorkEnds
  BY <1>13, NobodyMoves DEF Respond, WorkStarts, WorkEnds
<1>14. CASE WorkDelivers
  <2> DEFINE c == Head(rx).ch
             packet == Head(rx).packet
  <2>1. UNCHANGED procVars
    BY <1>14 DEF WorkDelivers
  <2>2. c \in Channels
    <3>1. Head(rx) \in Item
      BY <1>14 DEF WorkDelivers, Typed
    <3> QED
      BY <3>1 DEF Item
  <2>3. \/ chan' = [chan EXCEPT ![c] = [chan[c] EXCEPT !.buf = NoPacket]]
        \/ chan' = [chan EXCEPT ![c] = [chan[c] EXCEPT !.buf = packet, !.bufTxn = chan[c].txn, !.done = TRUE]]
    BY <1>14, <2>2, <1>0 DEF WorkDelivers, NextPacket, Chan
  <2>4. ASSUME NEW d \in Channels
        PROVE  /\ chan'[d].clients = chan[d].clients /\ chan'[d].sync = chan[d].sync
               /\ chan'[d].active = chan[d].active
               /\ chan[d].open => chan'[d].open
               /\ chan[d].up \/ chan[d].abort => chan'[d].up \/ chan'[d].abort
    <3>1. chan[c] \in Chan /\ c \in DOMAIN chan
      BY <1>0, <2>2 DEF Typed
    <3> HIDE DEF c, packet
    <3>2. CASE chan' = [chan EXCEPT ![c] = [chan[c] EXCEPT !.buf = NoPacket]]
      BY <3>1, <3>2 DEF Typed, Chan
    <3>3. CASE chan' = [chan EXCEPT ![c] = [chan[c] EXCEPT !.buf = packet, !.bufTxn = chan[c].txn, !.done = TRUE]]
      BY <3>1, <3>3 DEF Typed, Chan
    <3> QED
      BY <2>3, <3>2, <3>3
  <2> QED
    BY <2>1, <2>4, NobodyMoves
<1> QED
  BY <1>1, <1>2, <1>3, <1>5, <1>6, <1>7, <1>8, <1>9, <1>10, <1>11, <1>12, <1>13, <1>14
     DEF Next, Send, Get, Work
------------------------------------------------------------------------------
(* Numbers. *)

\* A packet of the channel is under way, or lies in its buffer.
Travels(c, k) ==
    \/ \E i \in 1 .. Len(inbox[c]) : inbox[c][i] = k
    \/ \E i \in 1 .. Len(rx) : rx[i].ch = c /\ rx[i].packet = k
    \/ chan[c].buf = k /\ k # NoPacket

\* In one life of the secure processor numbers only grow, and there are no
\* packets of this life before the channel is connected.
Numbers ==
    /\ \A c \in Channels, k \in Packet : Travels(c, k) =>
         /\ k.txn >= 2 /\ k.life <= restarts
         /\ k.life = restarts => chan[c].up /\ k.txn <= chan[c].txn
    /\ \A c \in Channels : chan[c].up => chan[c].txn >= 1
    /\ \A c \in Channels : chan[c].buf # NoPacket => chan[c].buf.txn = chan[c].bufTxn
    /\ \A p \in Clients : pc[p] = "pause" =>
         /\ asked[p].txn >= 2 /\ asked[p].life <= restarts
         /\ asked[p].life = restarts => chan[on[p]].up /\ asked[p].txn <= chan[on[p]].txn

Awaits(p) == pc[p] \in {"pause", "sent", "rx", "wait", "woken", "expired", "interrupted"}
Waits(p) == pc[p] \in {"wait", "woken", "expired", "interrupted"}
Own(p, k) == k.n = asked[p].n \/ k.life # asked[p].life

\* What would be accepted is the process's own, or of another life.
Answers ==
    /\ \A p \in Clients : Awaits(p) =>
         \A k \in Packet : Travels(on[p], k) /\ k.txn = chan[on[p]].txn => Own(p, k)
    /\ \A p \in Clients : Waits(p) /\ chan[on[p]].buf # NoPacket => Own(p, chan[on[p]].buf)
    /\ \A p \in Clients : got[p] # NoPacket => pc[p] = "end" /\ Own(p, got[p])

\* A registered process does nothing that could confuse another's answer.
LEMMA ProcKeeps ==
    ASSUME Typed, Typed', Members, Numbers, Answers, NEW p \in Clients, pc[p] # "out",
           on' = on, UNCHANGED <<rx, inbox, restarts>>,
           \A q \in Clients : q # p => pc'[q] = pc[q] /\ asked'[q] = asked[q] /\ got'[q] = got[q],
           \A d \in Channels : d # on[p] => chan'[d] = chan[d],
           chan'[on[p]].up <=> chan[on[p]].up,
           \/ chan'[on[p]].txn = chan[on[p]].txn
           \/ chan'[on[p]].txn > chan[on[p]].txn /\ Transacting(p) /\ ~Awaits(p)',
           \/ chan'[on[p]].buf = NoPacket
           \/ chan'[on[p]].buf = chan[on[p]].buf /\ chan'[on[p]].bufTxn = chan[on[p]].bufTxn,
           pc'[p] # "pause",
           Awaits(p)' => Awaits(p) /\ asked'[p] = asked[p],
           Waits(p)' => Waits(p) \/ chan'[on[p]].buf = NoPacket,
           got'[p] # NoPacket => pc'[p] = "end" /\ Own(p, got[p])'
    PROVE  Numbers' /\ Answers'
<1>0. on[p] \in Channels /\ \A q \in Clients : pc[q] # "out" => on[q] \in Channels
  BY DEF Typed
<1>1. ASSUME NEW c \in Channels, NEW k, Travels(c, k)' PROVE Travels(c, k)
  BY <1>1 DEF Travels
<1>2. \A c \in Channels : chan'[c].txn \in Nat /\ chan[c].txn \in Nat
  BY DEF Typed, Chan
<1>3. \A c \in Channels : (chan'[c].up <=> chan[c].up) /\ chan'[c].txn >= chan[c].txn
  BY <1>2
<1>4. Numbers'
  <2>1. ASSUME NEW c \in Channels, NEW k \in Packet, Travels(c, k)'
        PROVE  /\ k.txn >= 2 /\ k.life <= restarts
               /\ k.life = restarts => chan'[c].up /\ k.txn <= chan'[c].txn
    <3>1. /\ k.txn >= 2 /\ k.life <= restarts
          /\ k.life = restarts => chan[c].up /\ k.txn <= chan[c].txn
      BY <1>1, <2>1 DEF Numbers
    <3>2. k.txn \in Nat
      BY DEF Packet
    <3> QED
      BY <1>2, <1>3, <3>1, <3>2
  <2>2. ASSUME NEW c \in Channels, chan'[c].up PROVE chan'[c].txn >= 1
    BY <1>2, <1>3, <2>2 DEF Numbers
  <2>3. ASSUME NEW c \in Channels, chan'[c].buf # NoPacket PROVE chan'[c].buf.txn = chan'[c].bufTxn
    BY <2>3 DEF Numbers
  <2>4. ASSUME NEW q \in Clients, pc'[q] = "pause"
        PROVE  /\ asked'[q].txn >= 2 /\ asked'[q].life <= restarts
               /\ asked'[q].life = restarts => chan'[on[q]].up /\ asked'[q].txn <= chan'[on[q]].txn
    <3>1. q # p /\ pc[q] = "pause" /\ asked'[q] = asked[q] /\ on[q] \in Channels
      BY <1>0, <2>4
    <3>2. asked[q].txn \in Nat
      BY DEF Typed, Packet
    <3> QED
      BY <1>2, <1>3, <3>1, <3>2 DEF Numbers
  <2> QED
    BY <2>1, <2>2, <2>3, <2>4 DEF Numbers
<1>5. ASSUME NEW q \in Clients, Awaits(q)'
      PROVE  Awaits(q) /\ asked'[q] = asked[q] /\ on[q] \in Channels /\ chan'[on[q]].txn = chan[on[q]].txn
  <2>1. Awaits(q) /\ asked'[q] = asked[q]
    BY <1>5 DEF Awaits
  <2>2. on[q] \in Channels /\ Transacting(q) /\ pc[q] # "out"
    BY <1>0, <2>1 DEF Awaits, Transacting
  <2>3. CASE Transacting(p) /\ ~Awaits(p)'
    <3>1. q # p
      BY <1>5, <2>3
    <3>2. on[q] # on[p]
      BY <2>2, <2>3, <3>1, OneTransacts
    <3> QED
      BY <2>1, <2>2, <3>2
  <2>4. CASE ~(Transacting(p) /\ ~Awaits(p)')
    BY <2>1, <2>2, <2>4
  <2> QED
    BY <2>3, <2>4
<1>6. ASSUME NEW q \in Clients, Awaits(q)', NEW k \in Packet, Travels(on[q], k)', k.txn = chan'[on[q]].txn
      PROVE  Own(q, k)'
  <2>1. Own(q, k)
    BY <1>1, <1>5, <1>6 DEF Answers
  <2> QED
    BY <1>5, <1>6, <2>1 DEF Own
<1>7. ASSUME NEW q \in Clients, Waits(q)', chan'[on[q]].buf # NoPacket
      PROVE  Own(q, chan[on[q]].buf)'
  <2>1. Awaits(q)'
    BY <1>7 DEF Waits, Awaits
  <2>2. Awaits(q) /\ asked'[q] = asked[q] /\ on[q] \in Channels
    BY <1>5, <2>1
  <2>3. Waits(q) /\ chan'[on[q]].buf = chan[on[q]].buf
    BY <1>7, <2>2 DEF Waits
  <2> QED
    BY <1>7, <2>2, <2>3 DEF Answers, Own
<1>8. ASSUME NEW q \in Clients, got'[q] # NoPacket PROVE pc'[q] = "end" /\ Own(q, got[q])'
  BY <1>8 DEF Answers, Own
<1> QED
  BY <1>4, <1>6, <1>7, <1>8 DEF Answers
\* Packets are passed on, and one with the channel's number is accepted.
LEMMA DeliveryKeeps ==
    ASSUME Typed, Typed', Numbers, Answers, UNCHANGED procVars, restarts' = restarts,
           \A c \in Channels, k \in Packet : Travels(c, k)' => Travels(c, k),
           \A c \in Channels : chan'[c].up <=> chan[c].up,
           \A c \in Channels : chan'[c].txn = chan[c].txn,
           \A c \in Channels :
             \/ chan'[c].buf = NoPacket
             \/ chan'[c].buf = chan[c].buf /\ chan'[c].bufTxn = chan[c].bufTxn
             \/ /\ chan'[c].bufTxn = chan[c].txn /\ chan'[c].buf.txn = chan[c].txn
                /\ Travels(c, chan'[c].buf)
    PROVE  Numbers' /\ Answers'
<1>0. \A q \in Clients : pc[q] # "out" => on[q] \in Channels
  BY DEF Typed
<1>1. \A q \in Clients : /\ pc'[q] = pc[q] /\ on'[q] = on[q] /\ asked'[q] = asked[q] /\ got'[q] = got[q]
                         /\ Awaits(q)' <=> Awaits(q)
                         /\ Waits(q)' <=> Waits(q)
                         /\ Awaits(q) => on[q] \in Channels
                         /\ Waits(q) => Awaits(q)
  BY <1>0 DEF procVars, Awaits, Waits
<1>2. Numbers'
  <2>1. ASSUME NEW c \in Channels, chan'[c].buf # NoPacket PROVE chan'[c].buf.txn = chan'[c].bufTxn
    BY <2>1 DEF Numbers
  <2> QED
    BY <1>0, <1>1, <2>1 DEF Numbers
<1>3. ASSUME NEW q \in Clients, Awaits(q)', NEW k \in Packet, Travels(on[q], k)', k.txn = chan'[on[q]].txn
      PROVE  Own(q, k)'
  <2>1. Own(q, k)
    BY <1>1, <1>3 DEF Answers
  <2> QED
    BY <1>1, <2>1 DEF Own
<1>4. ASSUME NEW q \in Clients, Waits(q)', chan'[on[q]].buf # NoPacket
      PROVE  Own(q, chan[on[q]].buf)'
  <2>1. Waits(q) /\ Awaits(q) /\ on[q] \in Channels
    BY <1>1, <1>4
  <2>2. chan'[on[q]].buf \in Packet
    BY <2>1 DEF Typed, Chan
  <2>3. Own(q, chan'[on[q]].buf)
    BY <1>4, <2>1, <2>2 DEF Answers
  <2> QED
    BY <1>1, <2>3 DEF Own
<1>5. \A q \in Clients : got'[q] # NoPacket => pc'[q] = "end" /\ Own(q, got[q])'
  BY <1>1 DEF Answers, Own
<1> QED
  BY <1>1, <1>2, <1>3, <1>4, <1>5 DEF Answers

\* The number of a new request is one nothing under way has.
LEMMA LocksKeeps ==
    ASSUME Typed, Typed', Members, Numbers, Answers, NEW p \in Clients, SendLocks(p)
    PROVE  Numbers' /\ Answers'
<1> DEFINE c == on[p]
           packet == [asked[p] EXCEPT !.txn = chan[c].txn + 1, !.life = restarts]
           v == [chan[c] EXCEPT !.txn = @ + 1, !.sync = IF c \in Sharable THEN p ELSE @,
                                !.active = IF c \in Sharable THEN p ELSE @]
<1>1. pc[p] = "lock" /\ c \in Channels /\ (c \in Sharable => chan[c].sync = None)
  BY DEF SendLocks, Typed
<1>2. UNCHANGED <<on, got, rx, sends, restarts>>
  BY DEF SendLocks, workVars
<1>3. asked' = [asked EXCEPT ![p] = packet] /\ Transmit(p, c, packet)
  BY DEF SendLocks
<1>4. chan' = [chan EXCEPT ![c] = v]
  BY <1>1 DEF SendLocks, Typed, Chan
<1>5. chan[c] \in Chan /\ asked[p] \in Packet /\ restarts \in Nat
  BY <1>1 DEF Typed
<1>6. /\ v.txn = chan[c].txn + 1 /\ v.buf = chan[c].buf /\ v.bufTxn = chan[c].bufTxn
      /\ v.up <=> chan[c].up
  BY <1>5 DEF Chan
<1>7. packet \in Packet /\ packet.txn = chan[c].txn + 1 /\ packet.life = restarts /\ chan[c].txn \in Nat
  <2>1. chan[c].txn \in Nat /\ chan[c].txn + 1 \in Nat
    BY <1>5 DEF Chan
  <2>2. packet \in Packet
    BY <1>5, <2>1, NumberedTyped
  <2>3. packet.txn = chan[c].txn + 1 /\ packet.life = restarts
    BY <1>5 DEF Packet
  <2> QED
    BY <2>1, <2>2, <2>3
<1> HIDE DEF v, packet
<1>8. chan'[c] = v /\ \A d \in Channels : d # c => chan'[d] = chan[d]
  BY <1>1, <1>4 DEF Typed
<1>9. asked'[p] = packet /\ \A q \in Clients : q # p => asked'[q] = asked[q]
  BY <1>3 DEF Typed
<1>10. /\ pc'[p] \in {"pause", "sent"}
       /\ \A q \in Clients : q # p => pc'[q] = pc[q]
       /\ pc'[p] = "pause" => ~chan[c].abort
       /\ inbox' = inbox \/ (~chan[c].abort /\ inbox' = [inbox EXCEPT ![c] = Append(@, packet)])
  BY <1>1, <1>3, <1>7, Transmits
<1>11. chan[c].up \/ chan[c].abort
  BY <1>1 DEF Members
<1>12. ASSUME NEW d \in Channels, NEW k \in Packet, Travels(d, k)'
       PROVE  Travels(d, k) \/ (d = c /\ k = packet /\ ~chan[c].abort)
  <2>1. chan'[d].buf = chan[d].buf
    BY <1>6, <1>8
  <2>2. CASE \E i \in 1 .. Len(inbox'[d]) : inbox'[d][i] = k
    <3>1. inbox[d] \in Seq(Packet) /\ inbox[c] \in Seq(Packet)
      BY <1>1 DEF Typed
    <3>2. CASE inbox'[d] = inbox[d]
      BY <2>2, <3>2 DEF Travels
    <3>3. CASE d = c /\ ~chan[c].abort /\ inbox'[d] = Append(inbox[c], packet)
      BY <1>7, <2>2, <3>1, <3>3 DEF Travels
    <3> QED
      BY <1>1, <1>10, <3>2, <3>3 DEF Typed
  <2>3. CASE \E i \in 1 .. Len(rx) : rx[i].ch = d /\ rx[i].packet = k
    BY <2>3 DEF Travels
  <2>4. CASE chan'[d].buf = k /\ k # NoPacket
    BY <2>1, <2>4 DEF Travels
  <2> QED
    BY <1>2, <1>12, <2>2, <2>3, <2>4 DEF Travels
<1>13. \A q \in Clients : pc[q] # "out" => on[q] \in Channels
  BY DEF Typed
<1>14. Numbers'
  <2>1. ASSUME NEW d \in Channels, NEW k \in Packet, Travels(d, k)'
        PROVE  /\ k.txn >= 2 /\ k.life <= restarts
               /\ k.life = restarts => chan'[d].up /\ k.txn <= chan'[d].txn
    <3>1. CASE Travels(d, k)
      <4>1. /\ k.txn >= 2 /\ k.life <= restarts
            /\ k.life = restarts => chan[d].up /\ k.txn <= chan[d].txn
        BY <3>1 DEF Numbers
      <4>2. k.txn \in Nat
        BY DEF Packet
      <4> QED
        BY <1>6, <1>7, <1>8, <4>1, <4>2
    <3>2. CASE d = c /\ k = packet /\ ~chan[c].abort
      <4>1. chan[c].up /\ chan[c].txn >= 1
        BY <1>1, <1>11, <3>2 DEF Numbers
      <4> QED
        BY <1>5, <1>6, <1>7, <1>8, <3>2, <4>1
    <3> QED
      BY <1>12, <2>1, <3>1, <3>2
  <2>2. ASSUME NEW d \in Channels, chan'[d].up PROVE chan'[d].txn >= 1
    BY <1>6, <1>7, <1>8, <2>2 DEF Numbers
  <2>3. ASSUME NEW d \in Channels, chan'[d].buf # NoPacket PROVE chan'[d].buf.txn = chan'[d].bufTxn
    BY <1>6, <1>8, <2>3 DEF Numbers
  <2>4. ASSUME NEW q \in Clients, pc'[q] = "pause"
        PROVE  /\ asked'[q].txn >= 2 /\ asked'[q].life <= restarts
               /\ asked'[q].life = restarts => chan'[on[q]].up /\ asked'[q].txn <= chan'[on[q]].txn
    <3>1. CASE q = p
      <4>1. chan[c].up /\ chan[c].txn >= 1
        BY <1>1, <1>10, <1>11, <2>4, <3>1 DEF Numbers
      <4> QED
        BY <1>5, <1>6, <1>7, <1>8, <1>9, <3>1, <4>1
    <3>2. CASE q # p
      <4>1. pc[q] = "pause" /\ asked'[q] = asked[q] /\ on[q] \in Channels
        BY <1>9, <1>10, <1>13, <2>4, <3>2
      <4>2. /\ asked[q].txn >= 2 /\ asked[q].life <= restarts
            /\ asked[q].life = restarts => chan[on[q]].up /\ asked[q].txn <= chan[on[q]].txn
        BY <4>1 DEF Numbers
      <4>3. asked[q].txn \in Nat
        BY DEF Typed, Packet
      <4> QED
        BY <1>6, <1>7, <1>8, <4>1, <4>2, <4>3
    <3> QED
      BY <3>1, <3>2
  <2> QED
    BY <1>2, <2>1, <2>2, <2>3, <2>4 DEF Numbers
<1>15. ASSUME NEW q \in Clients, q # p, Awaits(q)'
       PROVE  Awaits(q) /\ on[q] \in Channels /\ on[q] # c
  <2>1. Awaits(q) /\ Transacting(q) /\ on[q] \in Channels
    BY <1>10, <1>13, <1>15 DEF Awaits, Transacting
  <2>2. c \in Sharable => ~(Transacting(q) /\ on[q] = c)
    BY <1>1, NoneAssumption DEF Members
  <2>3. on[q] # c
    BY <1>1, <1>15, <2>1, <2>2, OneTransacts
  <2> QED
    BY <2>1, <2>3
<1>16. ASSUME NEW q \in Clients, Awaits(q)', NEW k \in Packet, Travels(on[q], k)', k.txn = chan'[on[q]].txn
       PROVE  Own(q, k)'
  <2>1. CASE q = p
    <3>1. CASE k = packet
      BY <1>9, <2>1, <3>1 DEF Own
    <3>2. CASE k # packet
      <4>1. Travels(c, k)
        BY <1>1, <1>2, <1>12, <1>16, <2>1, <3>2
      <4>2. k.life = restarts => k.txn <= chan[c].txn
        BY <1>1, <4>1 DEF Numbers
      <4>3. k.life # restarts
        BY <1>6, <1>7, <1>8, <1>16, <2>1, <4>2
      <4> QED
        BY <1>7, <1>9, <2>1, <4>3 DEF Own
    <3> QED
      BY <3>1, <3>2
  <2>2. CASE q # p
    <3>1. Awaits(q) /\ on[q] \in Channels /\ on[q] # c
      BY <1>15, <1>16, <2>2
    <3>2. Own(q, k)
      BY <1>2, <1>8, <1>12, <1>16, <3>1 DEF Answers
    <3> QED
      BY <1>9, <2>2, <3>2 DEF Own
  <2> QED
    BY <2>1, <2>2
<1>17. ASSUME NEW q \in Clients, Waits(q)', chan'[on[q]].buf # NoPacket
       PROVE  Own(q, chan[on[q]].buf)'
  <2>1. q # p
    BY <1>10, <1>17 DEF Waits
  <2>2. Waits(q) /\ on[q] \in Channels
    BY <1>10, <1>13, <1>17, <2>1 DEF Waits
  <2>3. chan'[on[q]].buf = chan[on[q]].buf
    BY <1>6, <1>8, <2>2
  <2>4. Own(q, chan[on[q]].buf)
    BY <1>17, <2>2, <2>3 DEF Answers
  <2> QED
    BY <1>2, <1>9, <2>1, <2>3, <2>4 DEF Own
<1>18. ASSUME NEW q \in Clients, got'[q] # NoPacket PROVE pc'[q] = "end" /\ Own(q, got[q])'
  <2>1. pc[q] = "end" /\ Own(q, got[q])
    BY <1>2, <1>18 DEF Answers
  <2> QED
    BY <1>1, <1>2, <1>9, <1>10, <2>1 DEF Own
<1> QED
  BY <1>2, <1>14, <1>16, <1>17, <1>18 DEF Answers
\* Another attempt is made with the same request.
LEMMA AgainKeeps ==
    ASSUME Typed, Typed', Members, Numbers, Answers, NEW p \in Clients, SendAgain(p)
    PROVE  Numbers' /\ Answers'
<1> DEFINE c == on[p]
<1>1. /\ pc[p] = "pause" /\ c \in Channels /\ asked[p] \in Packet /\ Transmit(p, c, asked[p])
      /\ UNCHANGED <<chan, on, asked, got, rx, restarts>>
  BY DEF SendAgain, Typed, workVars
<1>2. /\ pc'[p] \in {"pause", "sent"}
      /\ \A q \in Clients : q # p => pc'[q] = pc[q]
      /\ inbox' = inbox \/ inbox' = [inbox EXCEPT ![c] = Append(@, asked[p])]
  BY <1>1, Transmits
<1>3. ASSUME NEW d \in Channels, NEW k \in Packet, Travels(d, k)'
      PROVE  Travels(d, k) \/ (d = c /\ k = asked[p])
  <2>1. CASE \E i \in 1 .. Len(inbox'[d]) : inbox'[d][i] = k
    <3>1. inbox[d] \in Seq(Packet) /\ inbox[c] \in Seq(Packet)
      BY <1>1 DEF Typed
    <3>2. CASE inbox'[d] = inbox[d]
      BY <2>1, <3>2 DEF Travels
    <3>3. CASE d = c /\ inbox'[d] = Append(inbox[c], asked[p])
      BY <1>1, <2>1, <3>1, <3>3 DEF Travels
    <3> QED
      BY <1>1, <1>2, <3>2, <3>3 DEF Typed
  <2> QED
    BY <1>1, <1>3, <2>1 DEF Travels
<1>4. \A q \in Clients : pc[q] # "out" => on[q] \in Channels
  BY DEF Typed
<1>5. ASSUME NEW q \in Clients
      PROVE  /\ Awaits(q)' <=> Awaits(q)
             /\ Waits(q)' <=> Waits(q)
             /\ Awaits(q) => on[q] \in Channels
             /\ pc'[q] = "pause" => pc[q] = "pause"
  <2>1. CASE q = p
    BY <1>1, <1>2, <2>1 DEF Awaits, Waits
  <2>2. CASE q # p
    BY <1>2, <1>4, <2>2 DEF Awaits, Waits
  <2> QED
    BY <2>1, <2>2
<1>6. Numbers'
  <2>1. /\ asked[p].txn >= 2 /\ asked[p].life <= restarts
        /\ asked[p].life = restarts => chan[c].up /\ asked[p].txn <= chan[c].txn
    BY <1>1 DEF Numbers
  <2> QED
    BY <1>1, <1>3, <1>5, <2>1 DEF Numbers
<1>7. ASSUME NEW q \in Clients, Awaits(q), NEW k \in Packet, Travels(on[q], k)', k.txn = chan[on[q]].txn
      PROVE  Own(q, k)
  <2>1. CASE Travels(on[q], k)
    BY <1>7, <2>1 DEF Answers
  <2>2. CASE on[q] = c /\ k = asked[p]
    <3>1. Transacting(p) /\ Transacting(q) /\ pc[q] # "out"
      BY <1>1, <1>7 DEF Transacting, Awaits
    <3>2. p = q
      BY <2>2, <3>1, OneTransacts
    <3> QED
      BY <2>2, <3>2 DEF Own
  <2> QED
    BY <1>1, <1>3, <1>5, <1>7, <2>1, <2>2
<1>8. \A q \in Clients : got'[q] # NoPacket => pc'[q] = "end" /\ Own(q, got[q])'
  <2>1. \A q \in Clients : pc[q] = "end" => pc'[q] = "end"
    BY <1>1, <1>2
  <2> QED
    BY <1>1, <2>1 DEF Answers, Own
<1>9. Answers'
  <2>1. ASSUME NEW q \in Clients, Awaits(q)', NEW k \in Packet, Travels(on[q], k)', k.txn = chan'[on[q]].txn
        PROVE  Own(q, k)'
    <3>1. Own(q, k)
      BY <1>1, <1>5, <1>7, <2>1
    <3> QED
      BY <1>1, <3>1 DEF Own
  <2>2. ASSUME NEW q \in Clients, Waits(q)', chan'[on[q]].buf # NoPacket
        PROVE  Own(q, chan[on[q]].buf)'
    <3>1. Own(q, chan[on[q]].buf)
      BY <1>1, <1>5, <2>2 DEF Answers
    <3> QED
      BY <1>1, <3>1 DEF Own
  <2> QED
    BY <1>1, <1>8, <2>1, <2>2 DEF Answers
<1> QED
  BY <1>6, <1>9

\* A channel is connected: it has no packet of this life.
LEMMA ProbeKeeps ==
    ASSUME Typed, Typed', Numbers, Answers, NEW c \in Channels, Probe(c)
    PROVE  Numbers' /\ Answers'
<1> DEFINE v == [chan[c] EXCEPT !.up = TRUE, !.abort = FALSE, !.txn = Initial]
<1>1. ~chan[c].up /\ UNCHANGED <<procVars, rx, inbox, restarts>> /\ chan' = [chan EXCEPT ![c] = v]
  BY DEF Probe, workVars, Typed, Chan
<1>2. v.up /\ v.txn = 1 /\ v.buf = chan[c].buf /\ v.bufTxn = chan[c].bufTxn
  BY DEF Typed, Chan, Initial
<1> HIDE DEF v
<1>3. chan'[c] = v /\ \A d \in Channels : d # c => chan'[d] = chan[d]
  BY <1>1 DEF Typed
<1>4. \A d \in Channels, k \in Packet : Travels(d, k)' <=> Travels(d, k)
  BY <1>1, <1>2, <1>3 DEF Travels
<1>5. \A q \in Clients : pc[q] # "out" => on[q] \in Channels
  BY DEF Typed
<1>6. \A q \in Clients : /\ pc'[q] = pc[q] /\ on'[q] = on[q] /\ asked'[q] = asked[q] /\ got'[q] = got[q]
                         /\ Awaits(q)' <=> Awaits(q)
                         /\ Waits(q)' <=> Waits(q)
                         /\ Awaits(q) => on[q] \in Channels
                         /\ Waits(q) => Awaits(q)
  BY <1>1, <1>5 DEF procVars, Awaits, Waits
<1>7. Numbers'
  <2>1. ASSUME NEW d \in Channels, NEW k \in Packet, Travels(d, k)'
        PROVE  /\ k.txn >= 2 /\ k.life <= restarts
               /\ k.life = restarts => chan'[d].up /\ k.txn <= chan'[d].txn
    BY <1>1, <1>3, <1>4, <2>1 DEF Numbers
  <2>2. ASSUME NEW d \in Channels
        PROVE  /\ chan'[d].up => chan'[d].txn >= 1
               /\ chan'[d].buf # NoPacket => chan'[d].buf.txn = chan'[d].bufTxn
    BY <1>2, <1>3 DEF Numbers
  <2>3. ASSUME NEW q \in Clients, pc'[q] = "pause"
        PROVE  /\ asked[q].txn >= 2 /\ asked[q].life <= restarts
               /\ asked[q].life = restarts => chan'[on[q]].up /\ asked[q].txn <= chan'[on[q]].txn
    BY <1>1, <1>3, <1>5, <1>6, <2>3 DEF Numbers
  <2> QED
    BY <1>1, <1>6, <2>1, <2>2, <2>3 DEF Numbers
<1>8. ASSUME NEW q \in Clients, Awaits(q)', NEW k \in Packet, Travels(on[q], k)', k.txn = chan'[on[q]].txn
      PROVE  Own(q, k)'
  <2>1. Awaits(q) /\ on[q] \in Channels /\ Travels(on[q], k)
    BY <1>4, <1>6, <1>8
  <2>2. on[q] # c
    BY <1>2, <1>3, <1>8, <2>1 DEF Numbers
  <2>3. Own(q, k)
    BY <1>3, <1>8, <2>1, <2>2 DEF Answers
  <2> QED
    BY <1>6, <2>3 DEF Own
<1>9. ASSUME NEW q \in Clients, Waits(q)', chan'[on[q]].buf # NoPacket PROVE Own(q, chan[on[q]].buf)'
  <2>1. Waits(q) /\ on[q] \in Channels /\ chan'[on[q]].buf = chan[on[q]].buf
    BY <1>2, <1>3, <1>6, <1>9
  <2> QED
    BY <1>6, <1>9, <2>1 DEF Answers, Own
<1>10. \A q \in Clients : got'[q] # NoPacket => pc'[q] = "end" /\ Own(q, got[q])'
  BY <1>6 DEF Answers, Own
<1> QED
  BY <1>6, <1>7, <1>8, <1>9, <1>10 DEF Answers

\* The secure processor goes away: a number that nothing has.
LEMMA RemoveKeeps ==
    ASSUME Typed, Typed', Numbers, Answers, Remove
    PROVE  Numbers' /\ Answers'
<1>1. /\ restarts' = restarts + 1 /\ restarts \in Nat /\ UNCHANGED <<procVars, rx>>
      /\ \A c \in Channels : inbox'[c] = <<>>
  BY DEF Remove, workVars, Typed
<1>2. ASSUME NEW c \in Channels
      PROVE  /\ ~chan'[c].up /\ chan'[c].buf = chan[c].buf /\ chan'[c].bufTxn = chan[c].bufTxn
             /\ chan'[c].txn = 0 \/ chan'[c].txn = chan[c].txn
  <2>1. chan'[c] = IF chan[c].up
                     THEN [chan[c] EXCEPT !.up = FALSE, !.abort = TRUE, !.txn = 0, !.done = TRUE]
                     ELSE chan[c]
    BY DEF Remove
  <2>2. chan[c] \in Chan
    BY DEF Typed
  <2> QED
    BY <2>1, <2>2 DEF Chan
<1>3. \A c \in Channels, k \in Packet : Travels(c, k)' => Travels(c, k)
  <2>1. ASSUME NEW c \in Channels, NEW k \in Packet, Travels(c, k)' PROVE Travels(c, k)
    <3>1. Len(inbox'[c]) = 0
      BY <1>1
    <3> QED
      BY <1>1, <1>2, <2>1, <3>1 DEF Travels
  <2> QED
    BY <2>1
<1>4. \A q \in Clients : pc[q] # "out" => on[q] \in Channels
  BY DEF Typed
<1>5. \A q \in Clients : /\ pc'[q] = pc[q] /\ on'[q] = on[q] /\ asked'[q] = asked[q] /\ got'[q] = got[q]
                         /\ Awaits(q)' <=> Awaits(q)
                         /\ Waits(q)' <=> Waits(q)
                         /\ Awaits(q) => on[q] \in Channels
                         /\ Waits(q) => Awaits(q)
  BY <1>1, <1>4 DEF procVars, Awaits, Waits
<1>6. Numbers'
  <2>1. ASSUME NEW c \in Channels, NEW k \in Packet, Travels(c, k)'
        PROVE  k.txn >= 2 /\ k.life <= restarts' /\ k.life # restarts'
    <3>1. k.txn >= 2 /\ k.life <= restarts
      BY <1>3, <2>1 DEF Numbers
    <3>2. k.life \in Nat
      BY DEF Packet
    <3> QED
      BY <1>1, <3>1, <3>2
  <2>2. ASSUME NEW q \in Clients, pc'[q] = "pause"
        PROVE  asked'[q].txn >= 2 /\ asked'[q].life <= restarts' /\ asked'[q].life # restarts'
    <3>1. asked[q].txn >= 2 /\ asked[q].life <= restarts
      BY <1>5, <2>2 DEF Numbers
    <3>2. asked[q].life \in Nat
      BY DEF Typed, Packet
    <3> QED
      BY <1>1, <1>5, <3>1, <3>2
  <2> QED
    BY <1>2, <2>1, <2>2 DEF Numbers
<1>7. ASSUME NEW q \in Clients, Awaits(q)', NEW k \in Packet, Travels(on[q], k)', k.txn = chan'[on[q]].txn
      PROVE  Own(q, k)'
  <2>1. Awaits(q) /\ on[q] \in Channels /\ Travels(on[q], k)
    BY <1>3, <1>5, <1>7
  <2>2. k.txn >= 2 /\ k.txn \in Nat
    BY <2>1 DEF Numbers, Packet
  <2>3. k.txn = chan[on[q]].txn
    BY <1>2, <1>7, <2>1, <2>2
  <2>4. Own(q, k)
    BY <2>1, <2>3 DEF Answers
  <2> QED
    BY <1>5, <2>4 DEF Own
<1>8. ASSUME NEW q \in Clients, Waits(q)', chan'[on[q]].buf # NoPacket PROVE Own(q, chan[on[q]].buf)'
  <2>1. Waits(q) /\ on[q] \in Channels /\ chan'[on[q]].buf = chan[on[q]].buf
    BY <1>2, <1>5, <1>8
  <2> QED
    BY <1>5, <1>8, <2>1 DEF Answers, Own
<1>9. \A q \in Clients : got'[q] # NoPacket => pc'[q] = "end" /\ Own(q, got[q])'
  BY <1>5 DEF Answers, Own
<1> QED
  BY <1>5, <1>6, <1>7, <1>8, <1>9 DEF Answers

\* A process that has registered has asked for nothing.
LEMMA RegisterKeeps ==
    ASSUME Typed, Typed', Numbers, Answers, NEW p \in Clients, NEW c \in Channels, Register(p, c)
    PROVE  Numbers' /\ Answers'
<1> DEFINE v == [chan[c] EXCEPT !.open = TRUE, !.abort = IF chan[c].open THEN @ ELSE FALSE,
                                !.clients = @ \union {p}]
<1>1. /\ pc[p] = "out" /\ Goto(p, "idle") /\ on' = [on EXCEPT ![p] = c] /\ chan' = [chan EXCEPT ![c] = v]
      /\ UNCHANGED <<asked, got, rx, inbox, restarts>>
  BY DEF Register, workVars, Typed, Chan
<1>2. /\ v.txn = chan[c].txn /\ v.buf = chan[c].buf /\ v.bufTxn = chan[c].bufTxn
      /\ v.up <=> chan[c].up
  BY DEF Typed, Chan
<1> HIDE DEF v
<1>3. chan'[c] = v /\ \A d \in Channels : d # c => chan'[d] = chan[d]
  BY <1>1 DEF Typed
<1>4. ASSUME NEW d \in Channels
      PROVE  /\ chan'[d].txn = chan[d].txn /\ chan'[d].buf = chan[d].buf /\ chan'[d].bufTxn = chan[d].bufTxn
             /\ chan'[d].up <=> chan[d].up
  BY <1>2, <1>3
<1>5. \A d \in Channels, k \in Packet : Travels(d, k)' <=> Travels(d, k)
  BY <1>1, <1>4 DEF Travels
<1>6. pc'[p] = "idle" /\ \A q \in Clients : q # p => pc'[q] = pc[q] /\ on'[q] = on[q]
  BY <1>1, Goes DEF Typed
<1>7. ASSUME NEW q \in Clients, pc'[q] \notin {"out", "idle"}
      PROVE  q # p /\ pc'[q] = pc[q] /\ on'[q] = on[q] /\ on[q] \in Channels
  BY <1>6, <1>7 DEF Typed
<1>8. Numbers'
  <2>1. ASSUME NEW q \in Clients, pc'[q] = "pause"
        PROVE  /\ asked'[q].txn >= 2 /\ asked'[q].life <= restarts
               /\ asked'[q].life = restarts => chan'[on'[q]].up /\ asked'[q].txn <= chan'[on'[q]].txn
    BY <1>1, <1>4, <1>7, <2>1 DEF Numbers
  <2> QED
    BY <1>1, <1>4, <1>5, <2>1 DEF Numbers
<1>9. \A q \in Clients : Awaits(q)' => pc'[q] \notin {"out", "idle"} /\ Awaits(q)
  BY <1>6 DEF Awaits
<1>10. \A q \in Clients : Waits(q)' => pc'[q] \notin {"out", "idle"} /\ Waits(q)
  BY <1>6 DEF Waits
<1>11. ASSUME NEW q \in Clients, Awaits(q)', NEW k \in Packet, Travels(on[q], k)', k.txn = chan'[on'[q]].txn
       PROVE  Own(q, k)'
  <2>1. Awaits(q) /\ on'[q] = on[q] /\ on[q] \in Channels
    BY <1>7, <1>9, <1>11
  <2>2. Own(q, k)
    BY <1>4, <1>5, <1>11, <2>1 DEF Answers
  <2> QED
    BY <1>1, <2>2 DEF Own
<1>12. ASSUME NEW q \in Clients, Waits(q)', chan'[on'[q]].buf # NoPacket PROVE Own(q, chan[on[q]].buf)'
  <2>1. Waits(q) /\ on'[q] = on[q] /\ chan'[on[q]].buf = chan[on[q]].buf
    BY <1>4, <1>7, <1>10, <1>12
  <2> QED
    BY <1>1, <1>12, <2>1 DEF Answers, Own
<1>13. \A q \in Clients : got'[q] # NoPacket => pc'[q] = "end" /\ Own(q, got[q])'
  BY <1>1, <1>6 DEF Answers, Own
<1> QED
  BY <1>8, <1>11, <1>12, <1>13 DEF Answers
\* The steps of a registered process other than sending.
LEMMA ActsKeep ==
    ASSUME Typed, Typed', Members, Numbers, Answers, NEW p \in Clients,
           Leave(p) \/ SendChecks(p) \/ Get(p)
    PROVE  Numbers' /\ Answers'
<1> DEFINE c == on[p]
<1>0. pc[p] # "out" /\ c \in Channels /\ chan[c] \in Chan
  BY DEF Leave, SendChecks, Get, GetChecks, RxStarts, RxWakes, RxEnds, GetEnds, Typed
<1>1. on' = on /\ UNCHANGED <<rx, inbox, restarts>> /\ \E label : Goto(p, label) /\ label # "pause"
  BY DEF Leave, SendChecks, Get, GetChecks, RxStarts, RxWakes, RxEnds, GetEnds, Take, workVars
<1>2. \A q \in Clients : q # p => pc'[q] = pc[q]
  BY <1>1, Goes
<1>3. pc'[p] # "pause"
  BY <1>1, Goes
<1>4. CASE Leave(p) \/ GetEnds(p)
  <2> DEFINE v == IF Leave(p) THEN Deinit(chan[c], p) ELSE Released(chan[c], p)
  <2>1. chan' = [chan EXCEPT ![c] = v] /\ Forget(p) /\ \E label \in {"out", "idle"} : Goto(p, label)
    BY <1>0, <1>4 DEF Leave, GetEnds, Typed
  <2>2. /\ v.txn = chan[c].txn
        /\ v.up <=> chan[c].up
        /\ v.buf = NoPacket \/ (v.buf = chan[c].buf /\ v.bufTxn = chan[c].bufTxn)
    BY <1>0, DeinitTyped, ReleasedTyped
  <2> HIDE DEF v
  <2>3. chan'[c] = v /\ \A d \in Channels : d # c => chan'[d] = chan[d]
    BY <1>0, <2>1 DEF Typed
  <2>4. pc'[p] \in {"out", "idle"}
    BY <2>1, Goes
  <2>5. ~Awaits(p)' /\ ~Waits(p)'
    BY <2>4 DEF Awaits, Waits
  <2>6. got'[p] = NoPacket /\ \A q \in Clients : q # p => asked'[q] = asked[q] /\ got'[q] = got[q]
    BY <2>1 DEF Forget, Typed
  <2> QED
    BY <1>0, <1>1, <1>2, <1>3, <2>2, <2>3, <2>5, <2>6, ProcKeeps
<1>5. CASE SendChecks(p)
  <2>1. /\ pc[p] = "idle" /\ UNCHANGED <<chan, got>> /\ Goto(p, "lock")
        /\ \A q \in Clients : q # p => asked'[q] = asked[q]
    BY <1>5 DEF SendChecks, Typed
  <2>2. pc'[p] = "lock"
    BY <2>1, Goes
  <2>3. ~Awaits(p)' /\ ~Waits(p)'
    BY <2>2 DEF Awaits, Waits
  <2>4. got[p] = NoPacket
    BY <2>1 DEF Answers
  <2> QED
    BY <1>0, <1>1, <1>2, <1>3, <2>1, <2>3, <2>4, ProcKeeps
<1>6. ASSUME UNCHANGED asked, got' = got \/ got' = [got EXCEPT ![p] = chan[c].buf],
             \A d \in Channels : d # c => chan'[d] = chan[d],
             chan'[c].up <=> chan[c].up,
             \/ chan'[c].txn = chan[c].txn
             \/ chan'[c].txn > chan[c].txn /\ Transacting(p) /\ ~Awaits(p)',
             \/ chan'[c].buf = NoPacket
             \/ chan'[c].buf = chan[c].buf /\ chan'[c].bufTxn = chan[c].bufTxn,
             pc[p] \in {"sent", "rx", "wait", "woken", "expired", "interrupted"},
             Waits(p)' => Waits(p) \/ chan'[c].buf = NoPacket,
             got'[p] # NoPacket => pc'[p] = "end" /\ Own(p, got'[p])
      PROVE  Numbers' /\ Answers'
  <2>1. Awaits(p)
    BY <1>6 DEF Awaits
  <2>2. got'[p] # NoPacket => pc'[p] = "end" /\ Own(p, got[p])'
    BY <1>6 DEF Own
  <2>3. \A q \in Clients : q # p => got'[q] = got[q]
    BY <1>6 DEF Typed
  <2> QED
    BY <1>0, <1>1, <1>2, <1>3, <1>6, <2>1, <2>2, <2>3, ProcKeeps
<1>7. CASE GetChecks(p) \/ RxWakes(p)
  <2>1. pc[p] \in {"sent", "wait"} /\ UNCHANGED <<chan, asked, got>>
    BY <1>7 DEF GetChecks, RxWakes
  <2>2. got[p] = NoPacket
    BY <2>1 DEF Answers
  <2>3. CASE RxWakes(p)
    <3>1. Waits(p)
      BY <2>3 DEF RxWakes, Waits
    <3> QED
      BY <1>6, <2>1, <2>2, <3>1
  <2>4. CASE GetChecks(p)
    <3>1. pc'[p] \in {"rx", "end"}
      <4>1. \E label \in {"rx", "end"} : Goto(p, label)
        BY <2>4 DEF GetChecks
      <4> QED
        BY <4>1, Goes
    <3>2. ~Waits(p)'
      BY <3>1 DEF Waits
    <3> QED
      BY <1>6, <2>1, <2>2, <3>2
  <2> QED
    BY <1>7, <2>3, <2>4
<1>8. CASE Take(p, c) /\ UNCHANGED asked /\ pc[p] \in {"rx", "woken"} /\ Own(p, chan[c].buf)
  <2>1. chan' = [chan EXCEPT ![c] = [chan[c] EXCEPT !.buf = NoPacket]]
        /\ got' = [got EXCEPT ![p] = chan[c].buf] /\ Goto(p, "end")
    BY <1>0, <1>8 DEF Take, Typed
  <2>2. /\ \A d \in Channels : d # c => chan'[d] = chan[d]
        /\ chan'[c].up <=> chan[c].up
        /\ chan'[c].txn = chan[c].txn
        /\ chan'[c].buf = NoPacket
    BY <1>0, <2>1 DEF Typed, Chan
  <2>3. pc'[p] = "end" /\ got'[p] = chan[c].buf
    BY <2>1, Goes DEF Typed
  <2> QED
    BY <1>6, <1>8, <2>1, <2>2, <2>3
<1>9. CASE RxStarts(p)
  <2>1. pc[p] = "rx" /\ UNCHANGED asked
    BY <1>9 DEF RxStarts
  <2>2. Awaits(p) /\ got[p] = NoPacket
    BY <2>1 DEF Awaits, Answers
  <2>3. CASE HasData(c) /\ ~Stale(c)
    <3>1. Take(p, c)
      BY <1>9, <2>3 DEF RxStarts
    <3>2. chan[c].buf \in Packet /\ chan[c].buf # NoPacket /\ chan[c].bufTxn = chan[c].txn
      BY <1>0, <2>3 DEF Chan, HasData, Stale
    <3>3. Travels(c, chan[c].buf) /\ chan[c].buf.txn = chan[c].txn
      BY <1>0, <3>2 DEF Travels, Numbers
    <3>4. Own(p, chan[c].buf)
      BY <2>2, <3>2, <3>3 DEF Answers
    <3> QED
      BY <1>8, <2>1, <3>1, <3>4
  <2>4. CASE ~(HasData(c) /\ ~Stale(c))
    <3>1. chan' = [chan EXCEPT ![c] = [chan[c] EXCEPT !.buf = NoPacket, !.done = FALSE]] /\ got' = got
      BY <1>0, <1>9, <2>4 DEF RxStarts, Typed, Chan
    <3>2. /\ \A d \in Channels : d # c => chan'[d] = chan[d]
          /\ chan'[c].up <=> chan[c].up
          /\ chan'[c].txn = chan[c].txn
          /\ chan'[c].buf = NoPacket
      BY <1>0, <3>1 DEF Typed, Chan
    <3> QED
      BY <1>6, <2>1, <2>2, <3>1, <3>2
  <2> QED
    BY <2>3, <2>4
<1>10. CASE RxEnds(p)
  <2>1. pc[p] \in {"woken", "expired", "interrupted"} /\ UNCHANGED asked
    BY <1>10 DEF RxEnds
  <2>2. Waits(p) /\ Transacting(p) /\ got[p] = NoPacket
    BY <2>1 DEF Waits, Transacting, Answers
  <2>3. CASE pc[p] = "woken" /\ ~chan[c].abort /\ HasData(c)
    <3>1. Take(p, c)
      BY <1>10, <2>3 DEF RxEnds
    <3>2. Own(p, chan[c].buf)
      BY <2>2, <2>3 DEF Answers, HasData
    <3> QED
      BY <1>8, <2>1, <2>3, <3>1, <3>2
  <2>4. CASE ~(pc[p] = "woken" /\ ~chan[c].abort /\ HasData(c))
    <3>1. /\ got' = got /\ Goto(p, "end")
          /\ (chan' = chan \/ chan' = [chan EXCEPT ![c] = [chan[c] EXCEPT !.txn = @ + 1]])
      BY <1>0, <1>10, <2>4 DEF RxEnds, Expire, Typed, Chan
    <3>2. pc'[p] = "end"
      BY <3>1, Goes
    <3>3. ~Awaits(p)'
      BY <3>2 DEF Awaits
    <3>4. /\ \A d \in Channels : d # c => chan'[d] = chan[d]
          /\ chan'[c].up <=> chan[c].up
          /\ (chan'[c].txn = chan[c].txn \/ chan'[c].txn > chan[c].txn)
          /\ chan'[c].buf = chan[c].buf /\ chan'[c].bufTxn = chan[c].bufTxn
      BY <1>0, <3>1 DEF Typed, Chan
    <3> QED
      BY <1>6, <2>1, <2>2, <3>1, <3>3, <3>4
  <2> QED
    BY <2>3, <2>4
<1> QED
  BY <1>4, <1>5, <1>7, <1>9, <1>10 DEF Get

\* The transport and the work item.
LEMMA PassingKeeps ==
    ASSUME Typed, Typed', Numbers, Answers,
           (\E c \in Channels : Respond(c)) \/ Work
    PROVE  Numbers' /\ Answers'
<1>1. UNCHANGED procVars /\ restarts' = restarts
  BY DEF Respond, Work, WorkStarts, WorkDelivers, WorkEnds
<1>2. ASSUME NEW c \in Channels, Respond(c) PROVE Numbers' /\ Answers'
  <2> DEFINE k0 == Head(inbox[c])
  <2>1. /\ inbox[c] \in Seq(Packet) /\ inbox[c] # <<>> /\ rx \in Seq(Item)
        /\ inbox' = [inbox EXCEPT ![c] = Tail(@)] /\ UNCHANGED chan
        /\ rx' = Append(rx, [ch |-> c, packet |-> k0])
    BY <1>2 DEF Respond, Typed
  <2>2. ASSUME NEW d \in Channels, NEW k \in Packet, Travels(d, k)' PROVE Travels(d, k)
    <3>1. CASE \E i \in 1 .. Len(inbox'[d]) : inbox'[d][i] = k
      <4>1. CASE d = c
        <5>1. inbox'[d] = Tail(inbox[d])
          BY <2>1, <4>1 DEF Typed
        <5>2. PICK i \in 1 .. Len(Tail(inbox[d])) : Tail(inbox[d])[i] = k
          BY <3>1, <5>1
        <5>3. i + 1 \in 1 .. Len(inbox[d]) /\ inbox[d][i + 1] = k
          BY <2>1, <4>1, <5>2
        <5> QED
          BY <5>3 DEF Travels
      <4>2. CASE d # c
        BY <2>1, <3>1, <4>2 DEF Typed, Travels
      <4> QED
        BY <4>1, <4>2
    <3>2. CASE \E i \in 1 .. Len(rx') : rx'[i].ch = d /\ rx'[i].packet = k
      <4>1. PICK i \in 1 .. Len(rx') : rx'[i].ch = d /\ rx'[i].packet = k
        BY <3>2
      <4>2. CASE i = Len(rx) + 1
        <5>1. d = c /\ k = inbox[c][1] /\ 1 \in 1 .. Len(inbox[c])
          BY <2>1, <4>1, <4>2
        <5> QED
          BY <5>1 DEF Travels
      <4>3. CASE i # Len(rx) + 1
        <5>1. i \in 1 .. Len(rx) /\ rx'[i] = rx[i]
          BY <2>1, <4>3
        <5> QED
          BY <4>1, <5>1 DEF Travels
      <4> QED
        BY <4>2, <4>3
    <3> QED
      BY <2>1, <2>2, <3>1, <3>2 DEF Travels
  <2> QED
    BY <1>1, <2>1, <2>2, DeliveryKeeps
<1>3. CASE WorkStarts \/ WorkEnds
  <2>1. UNCHANGED <<chan, rx, inbox>>
    BY <1>3 DEF WorkStarts, WorkEnds
  <2>2. \A d \in Channels, k \in Packet : Travels(d, k)' => Travels(d, k)
    BY <2>1 DEF Travels
  <2> QED
    BY <1>1, <2>1, <2>2, DeliveryKeeps
<1>4. CASE WorkDelivers
  <2> DEFINE c == Head(rx).ch
             packet == Head(rx).packet
  <2>1. rx \in Seq(Item) /\ rx # <<>> /\ rx' = Tail(rx) /\ UNCHANGED inbox
    BY <1>4 DEF WorkDelivers, Typed
  <2>2. Head(rx) \in Item /\ Head(rx) = rx[1] /\ 1 \in 1 .. Len(rx)
    BY <2>1
  <2>3. c \in Channels /\ packet \in Packet
    BY <2>2 DEF Item
  <2>4. Travels(c, packet)
    BY <2>2 DEF Travels
  <2>5. \/ chan' = [chan EXCEPT ![c] = [chan[c] EXCEPT !.buf = NoPacket]]
        \/ /\ chan' = [chan EXCEPT ![c] = [chan[c] EXCEPT !.buf = packet, !.bufTxn = chan[c].txn, !.done = TRUE]]
           /\ packet.txn = chan[c].txn
    BY <1>4, <2>3 DEF WorkDelivers, NextPacket, Dropped, Typed, Chan
  <2> HIDE DEF c, packet
  <2>6. chan[c] \in Chan /\ c \in DOMAIN chan
    BY <2>3 DEF Typed
  <2>7. /\ \A d \in Channels : d # c => chan'[d] = chan[d]
        /\ chan'[c].up <=> chan[c].up
        /\ chan'[c].txn = chan[c].txn
        /\ \/ chan'[c].buf = NoPacket
           \/ chan'[c].buf = packet /\ chan'[c].bufTxn = chan[c].txn /\ packet.txn = chan[c].txn
    <3>1. CASE chan' = [chan EXCEPT ![c] = [chan[c] EXCEPT !.buf = NoPacket]]
      BY <2>6, <3>1 DEF Typed, Chan
    <3>2. CASE /\ chan' = [chan EXCEPT ![c] = [chan[c] EXCEPT !.buf = packet, !.bufTxn = chan[c].txn, !.done = TRUE]]
               /\ packet.txn = chan[c].txn
      BY <2>6, <3>2 DEF Typed, Chan
    <3> QED
      BY <2>5, <3>1, <3>2
  <2>8. ASSUME NEW d \in Channels, NEW k \in Packet, Travels(d, k)' PROVE Travels(d, k)
    <3>1. CASE \E i \in 1 .. Len(inbox'[d]) : inbox'[d][i] = k
      BY <2>1, <3>1 DEF Travels
    <3>2. CASE \E i \in 1 .. Len(rx') : rx'[i].ch = d /\ rx'[i].packet = k
      <4>1. PICK i \in 1 .. Len(rx') : rx'[i].ch = d /\ rx'[i].packet = k
        BY <3>2
      <4>2. i + 1 \in 1 .. Len(rx) /\ rx[i + 1] = rx'[i]
        BY <2>1, <4>1
      <4> QED
        BY <4>1, <4>2 DEF Travels
    <3>3. CASE chan'[d].buf = k /\ k # NoPacket
      <4>1. CASE d = c
        BY <2>4, <2>7, <3>3, <4>1
      <4>2. CASE d # c
        BY <2>7, <3>3, <4>2 DEF Travels
      <4> QED
        BY <4>1, <4>2
    <3> QED
      BY <2>8, <3>1, <3>2, <3>3 DEF Travels
  <2>9. ASSUME NEW d \in Channels
        PROVE  /\ chan'[d].up <=> chan[d].up
               /\ chan'[d].txn = chan[d].txn
               /\ \/ chan'[d].buf = NoPacket
                  \/ chan'[d].buf = chan[d].buf /\ chan'[d].bufTxn = chan[d].bufTxn
                  \/ /\ chan'[d].bufTxn = chan[d].txn /\ chan'[d].buf.txn = chan[d].txn
                     /\ Travels(d, chan'[d].buf)
    BY <2>4, <2>7
  <2> QED
    BY <1>1, <2>8, <2>9, DeliveryKeeps
<1> QED
  BY <1>2, <1>3, <1>4 DEF Work

------------------------------------------------------------------------------
\* The inductive invariant.
SInv == Typed /\ Members /\ Numbers /\ Answers

\* It holds of the channels as spcom_init_channel leaves them.
LEMMA Begins == Init => SInv
<1> SUFFICES ASSUME Init PROVE SInv
  OBVIOUS
<1>1. \A c \in Channels :
        chan[c] = [open |-> FALSE, up |-> FALSE, abort |-> FALSE, txn |-> Initial,
                   buf |-> NoPacket, bufTxn |-> Initial, done |-> FALSE,
                   clients |-> {}, active |-> None, sync |-> None]
  BY DEF Init
<1>2. \A p \in Clients : pc[p] = "out" /\ got[p] = NoPacket
  BY DEF Init
<1>3. \A c \in Channels : inbox[c] = <<>> /\ ~chan[c].up /\ chan[c].buf = NoPacket /\ chan[c].clients = {}
  BY <1>1 DEF Init
<1>4. Typed
  <2>1. \A c \in Channels : chan[c] \in Chan
    <3>1. {} \in SUBSET Clients /\ None \in Clients \union {None} /\ Initial \in Nat
      BY DEF Initial
    <3> SUFFICES ASSUME NEW c \in Channels PROVE chan[c] \in Chan
      OBVIOUS
    <3>2. chan[c] = [open |-> FALSE, up |-> FALSE, abort |-> FALSE, txn |-> Initial,
                     buf |-> NoPacket, bufTxn |-> Initial, done |-> FALSE,
                     clients |-> {}, active |-> None, sync |-> None]
      BY <1>1
    <3> QED
      BY <3>1, <3>2, NoPacketTyped DEF Chan
  <2>2. chan \in [Channels -> Chan]
    <3>1. chan = [c \in Channels |-> chan[c]]
      BY DEF Init
    <3> QED
      BY <2>1, <3>1
  <2>3. inbox \in [Channels -> Seq(Packet)] /\ rx \in Seq(Item)
    <3>1. <<>> \in Seq(Packet) /\ <<>> \in Seq(Item)
      OBVIOUS
    <3> QED
      BY <3>1 DEF Init
  <2>4. asked \in [Clients -> Packet] /\ got \in [Clients -> Packet]
    BY NoPacketTyped DEF Init
  <2>5. pc = [p \in Clients |-> pc[p]] /\ on = [p \in Clients |-> on[p]] /\ sends \in Nat /\ restarts \in Nat
    BY DEF Init
  <2> QED
    BY <1>2, <2>2, <2>3, <2>4, <2>5 DEF Typed
<1>5. Members
  BY <1>2, <1>3 DEF Members, Transacting
<1>6. \A c \in Channels, k \in Packet : ~Travels(c, k)
  BY <1>3 DEF Init, Travels
<1>7. Numbers
  BY <1>2, <1>3, <1>6 DEF Numbers
<1>8. Answers
  BY <1>2 DEF Answers, Awaits, Waits
<1> QED
  BY <1>4, <1>5, <1>7, <1>8 DEF SInv

\* It survives every step of the processes, of the transport and of the work item.
LEMMA StepKeeps == SInv /\ [Next]_vars => SInv'
<1> SUFFICES ASSUME SInv, [Next]_vars PROVE SInv'
  OBVIOUS
<1>1. Typed /\ Members /\ Numbers /\ Answers /\ Typed' /\ Members'
  BY StepTyped, StepMembers DEF SInv
<1>2. CASE UNCHANGED vars
  <2>1. UNCHANGED <<procVars, restarts, rx, inbox, chan>>
    BY <1>2 DEF vars, workVars
  <2>2. \A d \in Channels, k \in Packet : Travels(d, k)' => Travels(d, k)
    BY <2>1 DEF Travels
  <2>3. Numbers' /\ Answers'
    BY <1>1, <2>1, <2>2, DeliveryKeeps
  <2> QED
    BY <1>1, <2>3 DEF SInv
<1>3. CASE Next
  <2>1. Numbers' /\ Answers'
    BY <1>1, <1>3, RegisterKeeps, ActsKeep, LocksKeeps, AgainKeeps, ProbeKeeps, PassingKeeps, RemoveKeeps
       DEF Next, Send
  <2> QED
    BY <1>1, <2>1 DEF SInv
<1> QED
  BY <1>2, <1>3

\* What a process is given as the response is the answer to the request it has
\* sent, however late others' and its own earlier answers come, as long as the
\* secure processor has not been away in between (spcom.c:548, :3676).
THEOREM AnswersAreOwn == Spec => []OwnAnswer
<1>1. SInv => OwnAnswer
  BY DEF SInv, Answers, Own, OwnAnswer
<1> QED
  BY <1>1, Begins, StepKeeps, PTL DEF Spec

\* A channel serves one transaction at a time, sharable or not (spcom.c:2172).
OneTransaction ==
    \A p, q \in Clients : Transacting(p) /\ Transacting(q) /\ on[p] = on[q] => p = q

THEOREM ServesOne == Spec => []OneTransaction
<1>1. SInv => OneTransaction
  BY OneTransacts DEF SInv, OneTransaction, Transacting
<1> QED
  BY <1>1, Begins, StepKeeps, PTL DEF Spec
=============================================================================
