--------------------------- MODULE SecureOwnerProofs ---------------------------
(***************************************************************************)
(* Proofs about the secure processor's start, the memory lent to it and    *)
(* the vault, beside fprintd's session, and about its Gatekeeper's handle. *)
(* They hold for any number of supervisors started by hand and for any     *)
(* crash of any process.                                                   *)
(***************************************************************************)
EXTENDS TrustedSession, FiniteSetTheorems, TLAPS

\* Who is who.
LEMMA Names ==
    /\ "owner" \in Users /\ F \in Users /\ "owner" # F
    /\ "owner" \in Processes /\ F \in Processes /\ Unit \in Starters
    /\ \A u \in Users : u = "owner" \/ u = F
    /\ \A s \in Starters : s \in Processes /\ s # "owner" /\ s # F /\ s \notin Users
BY OthersAssumption DEF Users, Processes, Starters, Unit, F, Nobody

PcOK == pc = [p \in Processes |-> pc[p]]

\* A process goes on, and the others stay where they are.
LEMMA Goes ==
    ASSUME PcOK, NEW p \in Processes, NEW label, Goto(p, label)
    PROVE  /\ PcOK' /\ pc'[p] = label
           /\ \A q \in Processes : q # p => pc'[q] = pc[q]
BY DEF Goto, PcOK

------------------------------------------------------------------------------
(* One start. *)

\* A supervisor has claimed the boot's start.
Claims(s) == pc[s] \notin {"out", "preflight", "marks"} \/ daemons[s] # "none"

\* One of them at most, and it has left the marker.
StartInv ==
    /\ PcOK
    /\ daemons \in [Starters -> {"none", "up", "dead"}]
    /\ \A s \in Starters : Claims(s) => marker
    /\ \A s, t \in Starters : Claims(s) /\ Claims(t) => s = t

\* StartInv holds initially, and again after a reboot.
LEMMA StartBegins == Init => StartInv
<1> SUFFICES ASSUME Init PROVE StartInv
  OBVIOUS
<1>1. PcOK /\ \A p \in Processes : pc[p] = "out"
  BY DEF Init, PcOK
<1> QED
  BY <1>1, Names DEF Init, StartInv, Claims

\* What a step of s may do to the others' claims.
LEMMA ClaimsKept ==
    ASSUME StartInv, PcOK', daemons' \in [Starters -> {"none", "up", "dead"}],
           NEW s \in Starters, marker => marker',
           \A t \in Starters : t # s => pc'[t] = pc[t] /\ daemons'[t] = daemons[t],
           Claims(s)' => Claims(s) \/ (~marker /\ marker')
    PROVE  StartInv'
<1>1. ASSUME NEW t \in Starters, t # s PROVE Claims(t)' <=> Claims(t)
  BY <1>1 DEF Claims
<1>2. ASSUME NEW t \in Starters, Claims(t)' PROVE marker'
  <2>1. CASE t = s
    BY <1>2, <2>1 DEF StartInv
  <2>2. CASE t # s
    BY <1>1, <1>2, <2>2 DEF StartInv
  <2> QED
    BY <2>1, <2>2
<1>3. ASSUME NEW t \in Starters, NEW r \in Starters, Claims(t)', Claims(r)'
      PROVE  t = r
  <2>1. CASE Claims(s)
    BY <1>1, <1>3, <2>1 DEF StartInv
  <2>2. CASE ~Claims(s)
    <3>1. ASSUME NEW q \in Starters, q # s, Claims(q)', Claims(s)' PROVE FALSE
      BY <1>1, <2>2, <3>1 DEF StartInv
    <3>2. CASE t = s \/ r = s
      BY <1>3, <3>1, <3>2
    <3>3. CASE t # s /\ r # s
      BY <1>1, <1>3, <3>3 DEF StartInv
    <3> QED
      BY <3>2, <3>3
  <2> QED
    BY <2>1, <2>2
<1> QED
  BY <1>2, <1>3 DEF StartInv

\* A supervisor that ends.
LEMMA EndsPc ==
    ASSUME PcOK, daemons \in [Starters -> {"none", "up", "dead"}], NEW s \in Starters, Ends(s)
    PROVE  /\ PcOK' /\ pc'[s] = "out" /\ pc'[F] = pc[F]
           /\ \A t \in Starters : t # s => pc'[t] = pc[t]
           /\ pc'["owner"] = pc["owner"] \/ (OwnerAlive /\ pc'["owner"] = "dead")
           /\ daemons' \in [Starters -> {"none", "up", "dead"}]
           /\ \A t \in Starters : t # s => daemons'[t] = daemons[t]
           /\ daemons'[s] # "none" => daemons[s] # "none"
<1> DEFINE owners == IF s = Unit /\ ownerOf = s /\ OwnerAlive THEN {"owner"} ELSE {}
<1>1. pc' = [p \in Processes |-> IF p \in owners THEN "dead" ELSE IF p = s THEN "out" ELSE pc[p]]
  BY DEF Ends
<1>2. daemons' = IF s = Unit /\ daemons[s] = "up" THEN [daemons EXCEPT ![s] = "dead"] ELSE daemons
  BY DEF Ends
<1>3. \A p \in owners : p = "owner" /\ OwnerAlive
  OBVIOUS
<1> HIDE DEF owners
<1>4. PcOK'
  BY <1>1 DEF PcOK
<1>5. pc'[s] = "out" /\ pc'[F] = pc[F] /\ \A t \in Starters : t # s => pc'[t] = pc[t]
  BY <1>1, <1>3, Names
<1>6. pc'["owner"] = pc["owner"] \/ (OwnerAlive /\ pc'["owner"] = "dead")
  <2>1. CASE "owner" \in owners
    BY <1>1, <1>3, <2>1, Names
  <2>2. CASE "owner" \notin owners
    BY <1>1, <2>2, Names
  <2> QED
    BY <2>1, <2>2
<1>7. /\ daemons' \in [Starters -> {"none", "up", "dead"}]
      /\ \A t \in Starters : t # s => daemons'[t] = daemons[t]
      /\ daemons'[s] # "none" => daemons[s] # "none"
  BY <1>2
<1> QED
  BY <1>4, <1>5, <1>6, <1>7

\* The steps of the supervisors,
LEMMA SupKeepsStart ==
    ASSUME StartInv, NEW s \in Starters, Sup(s) \/ SupDies(s)
    PROVE  StartInv'
<1>1. PcOK /\ daemons \in [Starters -> {"none", "up", "dead"}]
  BY DEF StartInv
<1>2. s \in Processes /\ s # "owner" /\ "owner" \in Processes
      /\ \A t \in Starters : t \in Processes /\ t # "owner"
  BY Names
<1>3. CASE Ends(s) /\ (marker => marker')
  <2>1. /\ PcOK' /\ pc'[s] = "out" /\ \A t \in Starters : t # s => pc'[t] = pc[t]
        /\ daemons' \in [Starters -> {"none", "up", "dead"}]
        /\ \A t \in Starters : t # s => daemons'[t] = daemons[t]
        /\ daemons'[s] # "none" => daemons[s] # "none"
    BY <1>1, <1>3, EndsPc
  <2>2. Claims(s)' => Claims(s)
    BY <2>1 DEF Claims
  <2> QED
    BY <1>3, <2>1, <2>2, ClaimsKept
<1>4. ASSUME NEW label, Goto(s, label), UNCHANGED <<marker, daemons>>,
             Claims(s) \/ label \in {"out", "preflight", "marks"}
      PROVE  StartInv'
  <2>1. /\ PcOK' /\ pc'[s] = label /\ \A t \in Starters : t # s => pc'[t] = pc[t]
    BY <1>1, <1>2, <1>4, Goes
  <2>2. Claims(s)' => Claims(s)
    BY <1>4, <2>1 DEF Claims
  <2> QED
    BY <1>1, <1>4, <2>1, <2>2, ClaimsKept
<1>5. CASE SupPreflight(s)
  <2>1. CASE Ends(s)
    BY <1>3, <1>5, <2>1 DEF SupPreflight
  <2>2. CASE ~Ends(s)
    BY <1>4, <1>5, <2>2 DEF SupPreflight
  <2> QED
    BY <2>1, <2>2
<1>6. CASE SupMarks(s)
  <2>1. CASE marker
    BY <1>3, <1>6, <2>1 DEF SupMarks
  <2>2. CASE ~marker
    <3>1. Goto(s, "begins") /\ marker' = TRUE /\ UNCHANGED daemons
      BY <1>6, <2>2 DEF SupMarks
    <3>2. PcOK' /\ \A t \in Starters : t # s => pc'[t] = pc[t]
      BY <1>1, <1>2, <3>1, Goes
    <3> QED
      BY <1>1, <2>2, <3>1, <3>2, ClaimsKept
  <2> QED
    BY <2>1, <2>2
<1>7. CASE SupBegins(s)
  <2>1. CASE Ends(s)
    BY <1>3, <1>7, <2>1 DEF SupBegins
  <2>2. CASE ~Ends(s)
    BY <1>4, <1>7, <2>2 DEF SupBegins, Claims, At
  <2> QED
    BY <2>1, <2>2
<1>8. CASE SupFails(s)
  <2>1. CASE Ends(s)
    BY <1>3, <1>8, <2>1 DEF SupFails
  <2>2. CASE ~Ends(s)
    BY <1>4, <1>8, <2>2 DEF SupFails, Claims, At
  <2> QED
    BY <2>1, <2>2
<1>9. CASE SupDies(s)
  BY <1>3, <1>9 DEF SupDies
<1>10. CASE SupLoads(s) \/ SupPolls(s) \/ SupReads(s) \/ SupDeadline(s)
  <2>1. Claims(s) /\ UNCHANGED <<marker, daemons>>
    BY <1>10 DEF SupLoads, SupPolls, SupReads, SupDeadline, Claims, At, startVars
  <2>2. \E label : Goto(s, label)
    BY <1>10 DEF SupLoads, SupPolls, SupReads, SupDeadline
  <2> QED
    BY <1>4, <2>1, <2>2
<1>11. CASE SupSpawns(s)
  <2>1. Claims(s) /\ Goto(s, "apps") /\ UNCHANGED marker /\ daemons' = [daemons EXCEPT ![s] = "up"]
    BY <1>11 DEF SupSpawns, Claims, At
  <2>2. PcOK' /\ \A t \in Starters : t # s => pc'[t] = pc[t]
    BY <1>1, <1>2, <2>1, Goes
  <2>3. /\ daemons' \in [Starters -> {"none", "up", "dead"}]
        /\ \A t \in Starters : t # s => daemons'[t] = daemons[t]
    BY <1>1, <2>1
  <2> QED
    BY <2>1, <2>2, <2>3, ClaimsKept
<1>12. CASE SupApps(s)
  <2>1. Claims(s) /\ UNCHANGED <<marker, daemons>>
    BY <1>12 DEF SupApps, Claims, At
  <2>2. CASE Goto(s, "fails")
    BY <1>4, <2>1, <2>2
  <2>3. CASE pc' = [pc EXCEPT ![s] = "polls", !["owner"] = "begins"]
    <3>1. PcOK' /\ \A t \in Starters : t # s => pc'[t] = pc[t]
      BY <1>1, <1>2, <2>3 DEF PcOK
    <3> QED
      BY <1>1, <2>1, <3>1, ClaimsKept
  <2> QED
    BY <1>12, <2>2, <2>3 DEF SupApps
<1> QED
  BY <1>5, <1>6, <1>7, <1>8, <1>9, <1>10, <1>11, <1>12 DEF Sup

\* and everything else leaves the claims alone.
LEMMA OthersKeepStart ==
    ASSUME StartInv, PcOK', daemons' \in [Starters -> {"none", "up", "dead"}], marker => marker',
           \A s \in Starters : /\ daemons'[s] # "none" => daemons[s] # "none"
                               /\ pc'[s] = pc[s] \/ pc'[s] \in {"out", "preflight", "marks"}
    PROVE  StartInv'
<1>1. ASSUME NEW s \in Starters, Claims(s)' PROVE Claims(s)
  BY <1>1 DEF Claims
<1> QED
  BY <1>1 DEF StartInv

------------------------------------------------------------------------------
(* The session's steps. *)

\* The steps of fprintd once it is let in.
Session ==
    \/ FprintdDies
    \/ OpenLooks \/ OpenLoads \/ OpenRestores
    \/ Prepare \/ Configure \/ LoadBds \/ Close \/ Closing
    \/ Authorization \/ Captures

\* They move nobody else, and what they share with the start stays.
LEMMA SessionMoves ==
    ASSUME Session
    PROVE  (\E label : Goto(F, label)) /\ UNCHANGED <<startVars, said, lent>>
<1> USE DEF startVars, lendVars
<1>1. CASE FprintdDies
  BY <1>1 DEF FprintdDies
<1>2. CASE OpenLooks \/ Prepare \/ Configure \/ LoadBds \/ Closing
  BY <1>2 DEF OpenLooks, Prepare, Configure, LoadBds, Closing, Refused, Finds, Command, Control,
              SensorReset, RuntimeFiles, Stays
<1>3. CASE OpenLoads \/ Close
  BY <1>3 DEF OpenLoads, Close, Loads
<1>4. CASE OpenRestores
  BY <1>4 DEF OpenRestores, Restores, RestoreFails, RestoreEnds, RestoreLooks, RestoreLoads,
              RestoreOpens, RestoreSigns, RestoreFetches, RestoreCaches, Finds, Loads, Broken
<1>5. CASE Authorization
  BY <1>5 DEF Authorization, Authorize, GatekeeperLooks, GatekeeperLoads, ReadState, EnrollSecret,
              WriteState, GetKey, Decap, VerifySecret, HatOp, Stays, Fails, Asked, Command,
              Finds, Loads
<1>6. CASE Captures
  BY <1>6 DEF Captures, EnrollInit, EnrollDo, EnrollFinal, StartIdentify, IdentifyAborts,
              IdentifyDo, IdentifyFinal, IdentifyInit, Begins, Cancel, CellIds, Command, Stays
<1> QED
  BY <1>1, <1>2, <1>3, <1>4, <1>5, <1>6 DEF Session

\* The owner's move nobody else either.
LEMMA OwnerMoves ==
    ASSUME Owner \/ OwnerDies
    PROVE  (\E label : Goto("owner", label)) /\ UNCHANGED <<startVars>>
<1>1. CASE OwnerDies
  BY <1>1 DEF OwnerDies
<1>2. CASE OwnerOpens \/ OwnerAllocates \/ OwnerConnects \/ OwnerLocks \/ OwnerLends \/ OwnerConfigures
  BY <1>2 DEF OwnerOpens, OwnerAllocates, OwnerConnects, OwnerLocks, OwnerLends, OwnerConfigures,
              OwnerFails
<1>3. CASE OwnerRestores
  BY <1>3 DEF OwnerRestores, Restores, RestoreFails, RestoreEnds, RestoreLooks, RestoreLoads,
              RestoreOpens, RestoreSigns, RestoreFetches, RestoreCaches, Finds, Loads, Broken
<1> QED
  BY <1>1, <1>2, <1>3 DEF Owner

\* Every step of the whole keeps StartInv.
LEMMA StepKeepsStart == StartInv /\ [Next]_allVars => StartInv'
<1> SUFFICES ASSUME StartInv, [Next]_allVars PROVE StartInv'
  OBVIOUS
<1>0. PcOK /\ daemons \in [Starters -> {"none", "up", "dead"}]
  BY DEF StartInv
<1>1. CASE UNCHANGED allVars
  BY <1>1, OthersKeepStart, <1>0 DEF allVars, vars, startVars, PcOK
<1>2. CASE Session
  <2>1. PICK label : Goto(F, label)
    BY <1>2, SessionMoves
  <2>2. UNCHANGED <<marker, daemons>>
    BY <1>2, SessionMoves DEF startVars
  <2>3. PcOK' /\ \A s \in Starters : pc'[s] = pc[s]
    BY <1>0, <2>1, Goes, Names
  <2> QED
    BY <1>0, <2>2, <2>3, OthersKeepStart
<1>3. CASE Owner \/ OwnerDies
  <2>1. PICK label : Goto("owner", label)
    BY <1>3, OwnerMoves
  <2>2. UNCHANGED <<marker, daemons>>
    BY <1>3, OwnerMoves DEF startVars
  <2>3. PcOK' /\ \A s \in Starters : pc'[s] = pc[s]
    BY <1>0, <2>1, Goes, Names
  <2> QED
    BY <1>0, <2>2, <2>3, OthersKeepStart
<1>4. CASE FprintdStarts \/ FprintdWaits
  <2>1. UNCHANGED <<marker, daemons>>
    BY <1>4 DEF FprintdStarts, FprintdWaits, Stays, startVars
  <2>2. PcOK' /\ \A s \in Starters : pc'[s] = pc[s] \/ pc'[s] = "preflight"
    <3>1. CASE FprintdStarts
      <4>1. pc' = [pc EXCEPT ![F] = "waits", ![Unit] = IF @ = "out" THEN "preflight" ELSE @]
        BY <3>1 DEF FprintdStarts
      <4> QED
        BY <1>0, <4>1, Names DEF PcOK
    <3>2. CASE FprintdWaits
      <4>1. \E label : Goto(F, label)
        BY <3>2 DEF FprintdWaits
      <4> QED
        BY <1>0, <4>1, Goes, Names
    <3> QED
      BY <1>4, <3>1, <3>2
  <2> QED
    BY <1>0, <2>1, <2>2, OthersKeepStart
<1>5. CASE \E s \in Starters : Sup(s) \/ SupDies(s)
  BY <1>5, SupKeepsStart
<1>6. CASE \E s \in Starters : DaemonDies(s) \/ (s \in Others /\ SupStarts(s))
  <2>1. PICK s \in Starters : DaemonDies(s) \/ (s \in Others /\ SupStarts(s))
    BY <1>6
  <2>2. CASE DaemonDies(s)
    <3>1. daemons' = [daemons EXCEPT ![s] = "dead"] /\ daemons[s] = "up" /\ UNCHANGED <<pc, marker>>
      BY <2>2 DEF DaemonDies
    <3>2. /\ daemons' \in [Starters -> {"none", "up", "dead"}]
          /\ \A t \in Starters : daemons'[t] # "none" => daemons[t] # "none"
      BY <1>0, <3>1
    <3> QED
      BY <1>0, <3>1, <3>2, OthersKeepStart DEF PcOK
  <2>3. CASE SupStarts(s)
    <3>1. Goto(s, "preflight") /\ UNCHANGED <<marker, daemons>>
      BY <2>3 DEF SupStarts, startVars
    <3>2. PcOK' /\ \A t \in Starters : pc'[t] = pc[t] \/ pc'[t] = "preflight"
      BY <1>0, <3>1, Goes, Names
    <3> QED
      BY <1>0, <3>1, <3>2, OthersKeepStart
  <2> QED
    BY <2>1, <2>2, <2>3
<1>7. CASE LeaseEnds \/ SpssBoots \/ AppsLoaded \/ SpssCrashes
  BY <1>0, <1>7, OthersKeepStart DEF LeaseEnds, SpssBoots, AppsLoaded, SpssCrashes, PcOK
<1>8. CASE Reboot
  <2>1. PcOK' /\ \A s \in Starters : pc'[s] = "out" /\ daemons'[s] = "none"
    BY <1>8, Names DEF Reboot, PcOK
  <2>2. daemons' \in [Starters -> {"none", "up", "dead"}]
    BY <1>8 DEF Reboot
  <2> QED
    BY <2>1, <2>2 DEF StartInv, Claims
<1> QED
  BY <1>1, <1>2, <1>3, <1>4, <1>5, <1>6, <1>7, <1>8
     DEF Next, OwnerSteps, SecureNext, Session, Starters

\* The daemons are started by one supervisor in a boot, whatever dies and however
\* many start together (fingerprint-secure:119).
THEOREM ProcessorStartsOnce == Spec => []OneStart
<1>1. SessionInit => StartInv
  BY StartBegins DEF SessionInit
<1>2. StartInv => OneStart
  <2> SUFFICES ASSUME StartInv PROVE OneStart
    OBVIOUS
  <2> DEFINE S == {s \in Starters : daemons[s] # "none"}
  <2>1. \A s, t \in S : s = t
    BY DEF StartInv, Claims
  <2>2. CASE S = {}
    <3>1. Cardinality(S) = 0
      BY <2>2, FS_EmptySet
    <3> QED
      BY <3>1 DEF OneStart
  <2>3. CASE S # {}
    <3>1. PICK s : S = {s}
      BY <2>1, <2>3
    <3>2. Cardinality(S) = 1
      BY <3>1, FS_Singleton
    <3> QED
      BY <3>2 DEF OneStart
  <2> QED
    BY <2>2, <2>3
<1> QED
  BY <1>1, <1>2, StepKeepsStart, PTL DEF Spec

------------------------------------------------------------------------------
(* What the start, the owner and the session may rely on. *)

\* The owner has not been started, and nobody has been told anything.
Untold == pc["owner"] = "out" /\ said = "nothing" /\ status.state # "ready"

\* A start that has not come to the owner.
Early(s) == pc[s] \in {"begins", "loads", "spawns", "apps"}

\* Only an owner that has restored everything lets fprintd in.
OwnerInv ==
    /\ status \in [state : {"none", "starting", "ready", "failed"}, fresh : BOOLEAN]
    /\ ~marker => Untold
    /\ \A s \in Starters : Early(s) => Untold
    /\ said = "ready" => pc["owner"] \in {"ready", "dead"}
    /\ status.state = "ready" => pc["owner"] \in {"ready", "dead"}
    /\ pc[F] \notin {"out", "waits"} => pc["owner"] \in {"ready", "dead"}

\* What is lent is locked before.
LendInv ==
    /\ lent => "spcom" \in pins
    /\ pc["owner"] = "binds" => "spcom" \in pins

Apps == {"hwvault", "dualfp", "skeymast"}

VaultOK ==
    /\ resident \subseteq Apps
    /\ mine \in [Users -> SUBSET Apps]
    /\ mine["owner"] \subseteq {"hwvault"}
    /\ creds \subseteq Credentials
    /\ restored \in [Users -> SUBSET Credentials]

\* The owner's restored credentials are in the vault it keeps, and fprintd loads
\* the vault only when the owner is gone.
VaultInv ==
    /\ VaultOK
    /\ \A u \in Users : pc[u] \in {"signs", "fetches", "caches"} => Left(u) # {}
    /\ restored["owner"] \subseteq creds
    /\ pc["owner"] \notin {"restores", "signs", "fetches", "caches", "vaultFails"}
         => restored["owner"] = {}
    /\ pc["owner"] \in {"restores", "signs", "fetches", "caches", "ready"} => "hwvault" \in resident
    /\ pc["owner"] = "ready" => creds = Credentials
    /\ pc[F] \in {"out", "waits"} => mine[F] = {}
    /\ "hwvault" \in mine[F] => pc["owner"] = "dead"

\* From its enrolment on the handle in hand is the one skeymast knows.
HandleInv == pc[F] \in {"writes", "wraps", "unwraps", "verifies"} => handle = "live"

SessionInv == StartInv /\ OwnerInv /\ LendInv /\ VaultInv /\ HandleInv

LEMMA SessionBegins == SessionInit => SessionInv
<1> SUFFICES ASSUME SessionInit PROVE SessionInv
  OBVIOUS
<1>1. Init /\ handle = "none"
  BY DEF SessionInit
<1>2. pc["owner"] = "out" /\ pc[F] = "out" /\ \A s \in Starters : pc[s] = "out"
  BY <1>1, Names DEF Init
<1>3. OwnerInv
  BY <1>1, <1>2 DEF Init, OwnerInv, Untold, Early
<1>4. LendInv /\ HandleInv
  BY <1>1, <1>2 DEF Init, LendInv, HandleInv
<1>5. VaultInv
  <2>1. mine = [u \in Users |-> {}] /\ restored = [u \in Users |-> {}] /\ resident = {} /\ creds = {}
    BY <1>1 DEF Init
  <2>2. mine["owner"] = {} /\ mine[F] = {} /\ restored["owner"] = {}
    BY <2>1, Names
  <2>3. VaultOK
    BY <2>1, <2>2 DEF VaultOK
  <2>4. \A u \in Users : pc[u] = "out"
    BY <1>2, Names
  <2> QED
    BY <1>2, <2>1, <2>2, <2>3, <2>4 DEF VaultInv
<1> QED
  BY <1>1, <1>3, <1>4, <1>5, StartBegins DEF SessionInv

------------------------------------------------------------------------------
(* A process that is gone leaves the rest as it has to be. *)

\* Nobody dies.
LEMMA BuriesNobody ==
    ASSUME VaultOK, Bury({})
    PROVE  UNCHANGED <<resident, mine, creds, restored>> /\ pins' = pins
<1>1. UNION {mine[u] : u \in {}} = {}
  OBVIOUS
<1>2. resident' = resident /\ creds' = creds
  BY <1>1 DEF Bury
<1>3. mine' = mine /\ restored' = restored
  BY DEF Bury, VaultOK
<1>4. pins' = pins
  BY DEF Bury
<1> QED
  BY <1>2, <1>3, <1>4

\* One of the vault's users dies.
LEMMA BuriesOne ==
    ASSUME VaultOK, NEW u \in Users, Bury({u})
    PROVE  /\ VaultOK'
           /\ \E gone \in SUBSET mine[u] :
                /\ resident' = resident \ gone
                /\ creds' = IF "hwvault" \in gone THEN {} ELSE creds
           /\ mine'[u] = {} /\ restored'[u] = {}
           /\ \A v \in Users : v # u => mine'[v] = mine[v] /\ restored'[v] = restored[v]
           /\ pins' = pins \ {u}
<1>1. UNION {mine[v] : v \in {u}} = mine[u]
  OBVIOUS
<1>2. PICK gone \in SUBSET mine[u] :
        /\ resident' = resident \ gone
        /\ creds' = IF "hwvault" \in gone THEN {} ELSE creds
  BY <1>1 DEF Bury
<1>3. /\ mine' = [v \in Users |-> IF v \in {u} THEN {} ELSE mine[v]]
      /\ restored' = [v \in Users |-> IF v \in {u} THEN {} ELSE restored[v]]
      /\ pins' = pins \ {u}
  BY DEF Bury
<1>4. VaultOK'
  BY <1>2, <1>3, Names DEF VaultOK
<1> QED
  BY <1>2, <1>3, <1>4

------------------------------------------------------------------------------
(* The vault. *)

\* The next credential is one that is left.
LEMMA NextCredential ==
    ASSUME NEW u \in Users, VaultOK, Left(u) # {}
    PROVE  FirstLeft(u) \in Left(u) /\ FirstLeft(u) \in Credentials
<1>1. Left(u) \subseteq {0, 1, 11} /\ Left(u) \subseteq Credentials
  BY CredentialsAssumption DEF Left
<1>2. \E c \in Left(u) : \A d \in Left(u) : c <= d
  <2>1. CASE 0 \in Left(u)
    BY <1>1, <2>1
  <2>2. CASE 0 \notin Left(u) /\ 1 \in Left(u)
    BY <1>1, <2>2
  <2>3. CASE 0 \notin Left(u) /\ 1 \notin Left(u)
    BY <1>1, <2>3
  <2> QED
    BY <2>1, <2>2, <2>3
<1> QED
  BY <1>1, <1>2 DEF FirstLeft

\* Nothing of the vault changes, and its users stay where they are or leave the
\* places where it matters.
LEMMA VaultStays ==
    ASSUME VaultInv, UNCHANGED <<resident, mine, creds, restored>>,
           pc'["owner"] = pc["owner"]
             \/ (restored["owner"] = {} /\ pc["owner"] # "dead"
                 /\ pc'["owner"] \notin {"restores", "signs", "fetches", "caches", "ready"}),
           pc'[F] = pc[F] \/ (pc'[F] \in {"out", "waits"} => mine[F] = {}),
           pc'[F] = pc[F] \/ pc'[F] \notin {"signs", "fetches", "caches"} \/ Left(F) # {}
    PROVE  VaultInv'
<1>1. VaultOK'
  BY DEF VaultInv, VaultOK
<1>2. ASSUME NEW u \in Users, pc'[u] \in {"signs", "fetches", "caches"} PROVE Left(u)' # {}
  <2>1. Left(u)' = Left(u)
    BY DEF Left
  <2> QED
    BY <1>2, <2>1, Names DEF VaultInv
<1>3. pc["owner"] = "dead" => pc'["owner"] = "dead"
  OBVIOUS
<1>4. /\ restored["owner"] \subseteq creds
      /\ pc'["owner"] \notin {"restores", "signs", "fetches", "caches", "vaultFails"} => restored["owner"] = {}
      /\ pc'["owner"] \in {"restores", "signs", "fetches", "caches", "ready"} => "hwvault" \in resident
      /\ pc'["owner"] = "ready" => creds = Credentials
  BY DEF VaultInv
<1>5. pc'[F] \in {"out", "waits"} => mine[F] = {}
  BY DEF VaultInv
<1>6. "hwvault" \in mine[F] => pc'["owner"] = "dead"
  BY <1>3 DEF VaultInv
<1> QED
  BY <1>1, <1>2, <1>4, <1>5, <1>6 DEF VaultInv

\* The owner dies: what it had loaded may go with it, which fprintd notices.
LEMMA OwnerGone ==
    ASSUME VaultInv, Bury({"owner"}), pc'["owner"] = "dead", pc'[F] = pc[F]
    PROVE  VaultInv'
<1>1. VaultOK
  BY DEF VaultInv
<1>2. /\ VaultOK' /\ mine'["owner"] = {} /\ restored'["owner"] = {}
      /\ mine'[F] = mine[F] /\ restored'[F] = restored[F]
  BY <1>1, BuriesOne, Names
<1>3. ASSUME NEW u \in Users, pc'[u] \in {"signs", "fetches", "caches"} PROVE Left(u)' # {}
  <2>1. u = F
    BY <1>3, Names
  <2> QED
    BY <1>2, <1>3, <2>1 DEF VaultInv, Left
<1> QED
  BY <1>2, <1>3 DEF VaultInv

\* fprintd dies, or the application it has loaded goes at its end: the owner's
\* vault is not its.
LEMMA SessionGone ==
    ASSUME VaultInv, Bury({F}), pc'[F] = "out", pc'["owner"] = pc["owner"]
    PROVE  VaultInv'
<1>1. VaultOK
  BY DEF VaultInv
<1>2. /\ VaultOK' /\ mine'[F] = {}
      /\ mine'["owner"] = mine["owner"] /\ restored'["owner"] = restored["owner"]
  BY <1>1, BuriesOne, Names
<1>3. PICK gone \in SUBSET mine[F] :
        /\ resident' = resident \ gone
        /\ creds' = IF "hwvault" \in gone THEN {} ELSE creds
  BY <1>1, BuriesOne, Names
<1>4. ASSUME NEW u \in Users, pc'[u] \in {"signs", "fetches", "caches"} PROVE Left(u)' # {}
  <2>1. u = "owner"
    BY <1>4, Names
  <2> QED
    BY <1>2, <1>4, <2>1 DEF VaultInv, Left
<1>5. CASE pc["owner"] = "dead"
  BY <1>2, <1>3, <1>4, <1>5 DEF VaultInv
<1>6. CASE pc["owner"] # "dead"
  <2>1. "hwvault" \notin gone
    BY <1>6 DEF VaultInv
  <2> QED
    BY <1>2, <1>3, <1>4, <1>6, <2>1 DEF VaultInv
<1> QED
  BY <1>5, <1>6

\* The steps of restoring, of either user.
LEMMA RestoringKeeps ==
    ASSUME VaultInv, PcOK, NEW u \in Users, Restores(u),
           u = F => pc["owner"] \in {"ready", "dead"},
           u = "owner" => pc[F] \in {"out", "waits"}
    PROVE  VaultInv'
<1>1. VaultOK /\ u \in Processes
  BY Names DEF VaultInv
<1>2. ASSUME NEW label, Goto(u, label) PROVE pc'[u] = label /\ \A v \in Users : v # u => pc'[v] = pc[v]
  BY <1>1, <1>2, Goes, Names DEF Processes
<1>3. CASE RestoreLooks(u)
  <2>1. /\ pc[u] = "vault" /\ UNCHANGED <<resident, mine, creds, restored>>
        /\ \/ Goto(u, "restores") /\ "hwvault" \in resident
           \/ Goto(u, "vaultLoads") \/ Goto(u, "vaultFails")
    BY <1>3 DEF RestoreLooks, Finds, At, vaultVars
  <2>2. /\ \A v \in Users : v # u => pc'[v] = pc[v]
        /\ pc'[u] \in {"restores", "vaultLoads", "vaultFails"}
        /\ pc'[u] = "restores" => "hwvault" \in resident
    BY <1>2, <2>1
  <2>3. ASSUME NEW v \in Users, pc'[v] \in {"signs", "fetches", "caches"} PROVE Left(v)' # {}
    BY <2>1, <2>2, <2>3 DEF VaultInv, Left
  <2>4. VaultOK'
    BY <1>1, <2>1 DEF VaultOK
  <2>5. CASE u = "owner"
    BY <2>1, <2>2, <2>3, <2>4, <2>5, Names DEF VaultInv
  <2>6. CASE u = F
    BY <2>1, <2>2, <2>3, <2>4, <2>6, Names DEF VaultInv
  <2> QED
    BY <2>5, <2>6, Names
<1>4. CASE RestoreLoads(u)
  <2>1. pc[u] = "vaultLoads" /\ UNCHANGED <<creds, restored>>
    BY <1>4 DEF RestoreLoads, At
  <2>2. CASE Goto(u, "vaultFails") /\ UNCHANGED <<resident, mine>>
    <3>1. pc'[u] = "vaultFails" /\ \A v \in Users : v # u => pc'[v] = pc[v]
      BY <1>2, <2>2
    <3>2. ASSUME NEW v \in Users, pc'[v] \in {"signs", "fetches", "caches"} PROVE Left(v)' # {}
      BY <2>1, <3>1, <3>2 DEF VaultInv, Left
    <3>3. VaultOK'
      BY <1>1, <2>1, <2>2 DEF VaultOK
    <3> QED
      BY <2>1, <2>2, <3>1, <3>2, <3>3, Names DEF VaultInv
  <2>3. CASE /\ "hwvault" \notin resident /\ resident' = resident \union {"hwvault"}
             /\ mine' = [mine EXCEPT ![u] = @ \union {"hwvault"}] /\ Goto(u, "restores")
    <3>1. pc'[u] = "restores" /\ \A v \in Users : v # u => pc'[v] = pc[v]
      BY <1>2, <2>3
    <3>2. ASSUME NEW v \in Users, pc'[v] \in {"signs", "fetches", "caches"} PROVE Left(v)' # {}
      BY <2>1, <3>1, <3>2 DEF VaultInv, Left
    <3>3. /\ mine' \in [Users -> SUBSET Apps]
          /\ mine'[u] = mine[u] \union {"hwvault"} /\ \A v \in Users : v # u => mine'[v] = mine[v]
      BY <1>1, <2>3 DEF VaultOK, Apps
    <3>4. VaultOK'
      BY <1>1, <2>1, <2>3, <3>3, Names DEF VaultOK, Apps
    <3>5. CASE u = "owner"
      BY <2>1, <2>3, <3>1, <3>2, <3>3, <3>4, <3>5, Names DEF VaultInv
    <3>6. CASE u = F
      <4>1. pc["owner"] = "dead"
        BY <2>3, <3>6 DEF VaultInv
      <4> QED
        BY <2>1, <2>3, <3>1, <3>2, <3>3, <3>4, <3>6, <4>1, Names DEF VaultInv
    <3> QED
      BY <3>5, <3>6, Names
  <2> QED
    BY <1>4, <2>2, <2>3 DEF RestoreLoads, Loads
<1>5. CASE Broken(u) /\ UNCHANGED <<resident, mine>>
           /\ pc[u] \in {"restores", "signs", "fetches", "caches"}
  <2>1. pc'[u] = "vaultFails" /\ \A v \in Users : v # u => pc'[v] = pc[v]
    BY <1>2, <1>5 DEF Broken
  <2>2. UNCHANGED <<creds, restored>>
    BY <1>5 DEF Broken
  <2>3. ASSUME NEW v \in Users, pc'[v] \in {"signs", "fetches", "caches"} PROVE Left(v)' # {}
    BY <2>1, <2>2, <2>3 DEF VaultInv, Left
  <2>4. VaultOK'
    BY <1>1, <1>5, <2>2 DEF VaultOK
  <2> QED
    BY <1>5, <2>1, <2>2, <2>3, <2>4, Names DEF VaultInv
<1>6. ASSUME NEW label \in {"signs", "fetches", "caches"}, Goto(u, label), Left(u) # {},
             pc[u] \in {"restores", "signs", "fetches"},
             UNCHANGED <<resident, mine, creds, restored>>
      PROVE  VaultInv'
  <2>1. pc'[u] = label /\ \A v \in Users : v # u => pc'[v] = pc[v]
    BY <1>2, <1>6
  <2>2. ASSUME NEW v \in Users, pc'[v] \in {"signs", "fetches", "caches"} PROVE Left(v)' # {}
    BY <1>6, <2>1, <2>2 DEF VaultInv, Left
  <2>3. VaultOK'
    BY <1>1, <1>6 DEF VaultOK
  <2> QED
    BY <1>6, <2>1, <2>2, <2>3, Names DEF VaultInv
<1>7. CASE RestoreOpens(u) \/ RestoreSigns(u) \/ RestoreFetches(u)
  <2>1. pc[u] \in {"restores", "signs", "fetches"} /\ Left(u) # {} /\ UNCHANGED <<resident, mine>>
    BY <1>7 DEF RestoreOpens, RestoreSigns, RestoreFetches, At, VaultInv
  <2>2. CASE Broken(u)
    BY <1>5, <2>1, <2>2
  <2>3. CASE ~Broken(u)
    BY <1>6, <1>7, <2>1, <2>3 DEF RestoreOpens, RestoreSigns, RestoreFetches
  <2> QED
    BY <2>2, <2>3
<1>8. CASE RestoreCaches(u)
  <2>1. pc[u] = "caches" /\ Left(u) # {} /\ UNCHANGED <<resident, mine>>
    BY <1>8 DEF RestoreCaches, At, VaultInv
  <2>2. CASE Broken(u)
    BY <1>5, <2>1, <2>2
  <2>3. CASE ~Broken(u)
    <3> DEFINE c == FirstLeft(u)
    <3>1. c \in Credentials
      BY <1>1, <2>1, NextCredential
    <3> HIDE DEF c
    <3>2. /\ "hwvault" \in resident /\ Goto(u, "restores")
          /\ restored' = [restored EXCEPT ![u] = @ \union {c}]
          /\ creds' = creds \union {c}
      BY <1>8, <2>3 DEF RestoreCaches, c
    <3>3. pc'[u] = "restores" /\ \A v \in Users : v # u => pc'[v] = pc[v]
      BY <1>2, <3>2
    <3>4. /\ restored' \in [Users -> SUBSET Credentials]
          /\ restored'[u] = restored[u] \union {c} /\ \A v \in Users : v # u => restored'[v] = restored[v]
      BY <1>1, <3>1, <3>2 DEF VaultOK
    <3>5. VaultOK' /\ creds' \subseteq Credentials
      BY <1>1, <2>1, <3>1, <3>2, <3>4 DEF VaultOK
    <3>6. ASSUME NEW v \in Users, pc'[v] \in {"signs", "fetches", "caches"} PROVE Left(v)' # {}
      BY <3>3, <3>4, <3>6 DEF VaultInv, Left
    <3>7. restored'["owner"] \subseteq creds'
      BY <3>2, <3>4, Names DEF VaultInv
    <3>8. pc["owner"] = "ready" => creds' = Credentials
      BY <3>2, <3>5 DEF VaultInv
    <3> QED
      BY <2>1, <3>2, <3>3, <3>4, <3>5, <3>6, <3>7, <3>8, Names DEF VaultInv
  <2> QED
    BY <2>2, <2>3
<1> QED
  BY <1>3, <1>4, <1>7, <1>8 DEF Restores

\* A session unloads applications it has loaded itself, at its end or when
\* restoring has failed.
LEMMA SessionUnloads ==
    ASSUME VaultInv, PcOK, NEW tas \in SUBSET mine[F], Unload(F, tas), NEW label, Goto(F, label),
           label \notin {"out", "waits", "signs", "fetches", "caches"},
           restored' = restored \/ restored' = [restored EXCEPT ![F] = {}]
    PROVE  VaultInv'
<1>1. VaultOK /\ F \in Users /\ F # "owner" /\ "owner" \in Users
  BY Names DEF VaultInv
<1>2. pc'[F] = label /\ pc'["owner"] = pc["owner"]
  BY Goes, Names
<1>3. /\ mine' \in [Users -> SUBSET Apps] /\ mine'["owner"] = mine["owner"]
      /\ "hwvault" \in mine'[F] => "hwvault" \in mine[F]
      /\ resident' = resident \ tas
      /\ creds' = IF "hwvault" \in tas THEN {} ELSE creds
  BY <1>1 DEF Unload, VaultOK
<1>4. restored' \in [Users -> SUBSET Credentials] /\ restored'["owner"] = restored["owner"]
  BY <1>1 DEF VaultOK
<1>5. VaultOK'
  BY <1>1, <1>3, <1>4 DEF VaultOK
<1>6. ASSUME NEW u \in Users, pc'[u] \in {"signs", "fetches", "caches"} PROVE Left(u)' # {}
  <2>1. u = "owner"
    BY <1>2, <1>6, Names
  <2> QED
    BY <1>2, <1>4, <1>6, <2>1, Names DEF VaultInv, Left
<1>7. CASE pc["owner"] = "dead"
  BY <1>2, <1>3, <1>4, <1>5, <1>6, <1>7 DEF VaultInv
<1>8. CASE pc["owner"] # "dead"
  <2>1. "hwvault" \notin tas
    BY <1>8 DEF VaultInv
  <2> QED
    BY <1>2, <1>3, <1>4, <1>5, <1>6, <1>8, <2>1 DEF VaultInv
<1> QED
  BY <1>7, <1>8

\* A session loads dualfp or the Gatekeeper.
LEMMA SessionLoads ==
    ASSUME VaultInv, PcOK, NEW ta \in {"dualfp", "skeymast"}, NEW label, NEW failed,
           Loads(F, ta, label, failed), UNCHANGED <<creds, restored>>,
           {label, failed} \intersect {"out", "waits", "signs", "fetches", "caches"} = {}
    PROVE  VaultInv'
<1>1. VaultOK /\ F \in Users /\ F # "owner" /\ "owner" \in Users
  BY Names DEF VaultInv
<1>2. PICK next \in {label, failed} : Goto(F, next)
  BY DEF Loads
<1>3. pc'[F] \notin {"out", "waits", "signs", "fetches", "caches"} /\ pc'["owner"] = pc["owner"]
  BY <1>2, Goes, Names
<1>4. CASE UNCHANGED <<resident, mine>>
  <2>1. UNCHANGED <<resident, mine, creds, restored>>
    BY <1>4
  <2> QED
    BY <1>3, <2>1, VaultStays
<1>5. CASE resident' = resident \union {ta} /\ mine' = [mine EXCEPT ![F] = @ \union {ta}]
  <2>1. /\ mine' \in [Users -> SUBSET Apps] /\ mine'["owner"] = mine["owner"]
        /\ "hwvault" \in mine'[F] => "hwvault" \in mine[F]
    BY <1>1, <1>5 DEF VaultOK, Apps
  <2>2. VaultOK'
    BY <1>1, <1>5, <2>1 DEF VaultOK, Apps
  <2>3. ASSUME NEW u \in Users, pc'[u] \in {"signs", "fetches", "caches"} PROVE Left(u)' # {}
    BY <1>3, <2>3, Names DEF VaultInv, Left
  <2> QED
    BY <1>3, <1>5, <2>1, <2>2, <2>3 DEF VaultInv
<1> QED
  BY <1>4, <1>5 DEF Loads

\* Restoring has ended: the owner has the vault filled or holds what there is,
LEMMA OwnerRestored ==
    ASSUME VaultInv, PcOK, pc[F] \in {"out", "waits"},
           RestoreFails("owner", "held") \/ RestoreEnds("owner", "ready")
    PROVE  VaultInv'
<1>1. VaultOK /\ F \in Users /\ F # "owner" /\ "owner" \in Users /\ "owner" \in Processes
  BY Names DEF VaultInv
<1>2. restored' = [restored EXCEPT !["owner"] = {}]
  BY DEF RestoreFails, RestoreEnds
<1>3. /\ restored' \in [Users -> SUBSET Credentials] /\ restored'["owner"] = {}
      /\ restored'[F] = restored[F]
  BY <1>1, <1>2 DEF VaultOK
<1>4. CASE RestoreFails("owner", "held")
  <2> DEFINE tas == mine["owner"] \intersect {"hwvault"}
  <2>1. Unload("owner", tas) /\ Goto("owner", "held") /\ pc["owner"] = "vaultFails"
    BY <1>4 DEF RestoreFails, At
  <2>2. pc'["owner"] = "held" /\ pc'[F] = pc[F]
    BY <1>1, <2>1, Goes, Names
  <2>3. /\ mine' \in [Users -> SUBSET Apps] /\ mine'["owner"] \subseteq mine["owner"]
        /\ mine'[F] = mine[F] /\ resident' \subseteq resident /\ creds' \subseteq creds
    BY <1>1, <2>1 DEF Unload, VaultOK
  <2>4. VaultOK'
    BY <1>1, <1>3, <2>3 DEF VaultOK
  <2>5. ASSUME NEW u \in Users, pc'[u] \in {"signs", "fetches", "caches"} PROVE Left(u)' # {}
    BY <2>2, <2>5, Names
  <2> QED
    BY <1>3, <2>1, <2>2, <2>3, <2>4, <2>5 DEF VaultInv
<1>5. CASE RestoreEnds("owner", "ready")
  <2>1. /\ Left("owner") = {} /\ Goto("owner", "ready") /\ pc["owner"] = "restores"
        /\ UNCHANGED <<resident, mine, creds>>
    BY <1>5 DEF RestoreEnds, At
  <2>2. pc'["owner"] = "ready" /\ pc'[F] = pc[F]
    BY <1>1, <2>1, Goes, Names
  <2>3. creds = Credentials
    BY <1>1, <2>1 DEF VaultInv, VaultOK, Left
  <2>4. VaultOK'
    BY <1>1, <1>3, <2>1 DEF VaultOK
  <2>5. ASSUME NEW u \in Users, pc'[u] \in {"signs", "fetches", "caches"} PROVE Left(u)' # {}
    BY <2>2, <2>5, Names
  <2> QED
    BY <1>3, <2>1, <2>2, <2>3, <2>4, <2>5 DEF VaultInv
<1> QED
  BY <1>4, <1>5

\* and the session goes on with what is there.
LEMMA SessionRestored ==
    ASSUME VaultInv, PcOK, RestoreEnds(F, "prepares")
    PROVE  VaultInv'
<1>1. VaultOK /\ F \in Users /\ F # "owner" /\ "owner" \in Users
  BY Names DEF VaultInv
<1>2. /\ restored' = [restored EXCEPT ![F] = {}] /\ Goto(F, "prepares")
      /\ UNCHANGED <<resident, mine, creds>>
  BY DEF RestoreEnds
<1>3. pc'[F] = "prepares" /\ pc'["owner"] = pc["owner"]
  BY <1>2, Goes, Names
<1>4. restored' \in [Users -> SUBSET Credentials] /\ restored'["owner"] = restored["owner"]
  BY <1>1, <1>2 DEF VaultOK
<1>5. VaultOK'
  BY <1>1, <1>2, <1>4 DEF VaultOK
<1>6. ASSUME NEW u \in Users, pc'[u] \in {"signs", "fetches", "caches"} PROVE Left(u)' # {}
  BY <1>3, <1>4, <1>6, Names DEF VaultInv, Left
<1> QED
  BY <1>2, <1>3, <1>4, <1>5, <1>6 DEF VaultInv

------------------------------------------------------------------------------
(* The lease. *)

\* Steps that start no owner and let nobody in without it.
LEMMA LeaseStays ==
    ASSUME OwnerInv, marker => marker', said' = said,
           status' \in [state : {"none", "starting", "ready", "failed"}, fresh : BOOLEAN],
           status'.state = "ready" => status.state = "ready" \/ said = "ready",
           pc'["owner"] = pc["owner"] \/ (pc["owner"] # "out" /\ pc'["owner"] = "dead"),
           \A t \in Starters : Early(t)' => Early(t) \/ ~marker,
           pc'[F] = pc[F] \/ pc'[F] \in {"out", "waits"} \/ pc["owner"] \in {"ready", "dead"}
    PROVE  OwnerInv'
<1>1. Untold => Untold'
  BY DEF Untold
<1>2. ~marker' => Untold'
  BY <1>1 DEF OwnerInv
<1>3. \A t \in Starters : Early(t)' => Untold'
  BY <1>1 DEF OwnerInv
<1>4. pc["owner"] \in {"ready", "dead"} => pc'["owner"] \in {"ready", "dead"}
  OBVIOUS
<1>5. said' = "ready" => pc'["owner"] \in {"ready", "dead"}
  BY <1>4 DEF OwnerInv
<1>6. status'.state = "ready" => pc'["owner"] \in {"ready", "dead"}
  BY <1>4 DEF OwnerInv
<1>7. pc'[F] \notin {"out", "waits"} => pc'["owner"] \in {"ready", "dead"}
  BY <1>4 DEF OwnerInv
<1> QED
  BY <1>2, <1>3, <1>5, <1>6, <1>7 DEF OwnerInv

\* The owner's own steps: it says that it is ready when it is.
LEMMA OwnerTells ==
    ASSUME OwnerInv, PcOK, NEW label, Goto("owner", label),
           pc["owner"] \notin {"out", "ready", "dead"}, UNCHANGED startVars,
           said' = said \/ said' = "failed" \/ (said' = "ready" /\ label = "ready")
    PROVE  OwnerInv'
<1>1. pc'["owner"] = label /\ pc'[F] = pc[F] /\ \A s \in Starters : pc'[s] = pc[s]
  BY Goes, Names
<1>2. UNCHANGED <<marker, status>>
  BY DEF startVars
<1>3. ~Untold
  BY DEF Untold
<1>4. marker /\ \A s \in Starters : ~Early(s)
  BY <1>3 DEF OwnerInv
<1>5. said # "ready" /\ status.state # "ready" /\ pc[F] \in {"out", "waits"}
  BY DEF OwnerInv
<1>6. \A s \in Starters : ~Early(s)'
  BY <1>1, <1>4 DEF Early
<1> QED
  BY <1>1, <1>2, <1>4, <1>5, <1>6 DEF OwnerInv

\* The owner is started.
LEMMA OwnerBegins ==
    ASSUME StartInv, OwnerInv, NEW s \in Starters, Early(s), UNCHANGED <<marker, status>>,
           pc' = [pc EXCEPT ![s] = "polls", !["owner"] = "begins"], said' = "nothing"
    PROVE  OwnerInv'
<1>1. /\ pc'["owner"] = "begins" /\ pc'[s] = "polls" /\ pc'[F] = pc[F]
      /\ \A t \in Starters : t # s => pc'[t] = pc[t]
  BY Names DEF StartInv, PcOK
<1>2. Claims(s) /\ Untold
  BY DEF Claims, Early, OwnerInv
<1>3. marker /\ \A t \in Starters : t # s => ~Early(t)
  BY <1>2 DEF StartInv, Claims, Early
<1>4. \A t \in Starters : ~Early(t)'
  BY <1>1, <1>3 DEF Early
<1>5. pc[F] \in {"out", "waits"}
  BY <1>2 DEF Untold, OwnerInv
<1> QED
  BY <1>1, <1>2, <1>3, <1>4, <1>5 DEF OwnerInv, Untold
------------------------------------------------------------------------------
(* Every step. *)

\* What StartInv leaves to show.
KeptInv == OwnerInv /\ LendInv /\ VaultInv

\* A supervisor ends, and its owner with it,
LEMMA EndsKeeps ==
    ASSUME StartInv, KeptInv, NEW s \in Starters, Ends(s),
           marker => marker', UNCHANGED <<status, said, lent>>
    PROVE  KeptInv'
<1>0. OwnerInv /\ LendInv /\ VaultInv /\ VaultOK
  BY DEF KeptInv, VaultInv
<1>1. /\ PcOK' /\ pc'[s] = "out" /\ pc'[F] = pc[F]
      /\ \A t \in Starters : t # s => pc'[t] = pc[t]
      /\ pc'["owner"] = pc["owner"] \/ (OwnerAlive /\ pc'["owner"] = "dead")
  BY EndsPc DEF StartInv
<1>2. \A t \in Starters : Early(t)' => Early(t)
  BY <1>1 DEF Early
<1>3. OwnerInv'
  BY <1>0, <1>1, <1>2, LeaseStays DEF OwnerInv, OwnerAlive
<1>4. CASE Bury({}) /\ pc'["owner"] = pc["owner"]
  <2>1. UNCHANGED <<resident, mine, creds, restored>> /\ pins' = pins
    BY <1>0, <1>4, BuriesNobody
  <2>2. VaultInv'
    BY <1>0, <1>1, <1>4, <2>1, VaultStays
  <2>3. LendInv'
    BY <1>0, <1>4, <2>1 DEF LendInv
  <2> QED
    BY <1>3, <2>2, <2>3 DEF KeptInv
<1>5. CASE Bury({"owner"}) /\ pc'["owner"] = "dead"
  <2>1. pins' = pins \ {"owner"}
    BY <1>5 DEF Bury
  <2>2. VaultInv'
    BY <1>0, <1>1, <1>5, OwnerGone
  <2>3. LendInv'
    BY <1>0, <1>5, <2>1 DEF LendInv
  <2> QED
    BY <1>3, <2>2, <2>3 DEF KeptInv
<1>6. (Bury({}) /\ pc'["owner"] = pc["owner"]) \/ (Bury({"owner"}) /\ pc'["owner"] = "dead")
  <2> DEFINE owners == IF s = Unit /\ ownerOf = s /\ OwnerAlive THEN {"owner"} ELSE {}
  <2>1. Bury(owners)
        /\ pc' = [p \in Processes |-> IF p \in owners THEN "dead" ELSE IF p = s THEN "out" ELSE pc[p]]
    BY DEF Ends
  <2>2. owners = {} \/ owners = {"owner"}
    OBVIOUS
  <2> HIDE DEF owners
  <2>3. CASE owners = {}
    BY <2>1, <2>3, Names
  <2>4. CASE owners = {"owner"}
    BY <2>1, <2>4, Names
  <2> QED
    BY <2>2, <2>3, <2>4
<1> QED
  BY <1>4, <1>5, <1>6

\* it goes on,
LEMMA SupGoesKeeps ==
    ASSUME StartInv, KeptInv, NEW s \in Starters, NEW label, Goto(s, label),
           marker => marker', UNCHANGED <<said, lendVars, vaultVars>>,
           status' \in [state : {"none", "starting", "ready", "failed"}, fresh : BOOLEAN],
           status'.state = "ready" => status.state = "ready" \/ said = "ready",
           label \in {"begins", "loads", "spawns", "apps"} => Early(s) \/ ~marker
    PROVE  KeptInv'
<1>0. OwnerInv /\ LendInv /\ VaultInv
  BY DEF KeptInv
<1>1. /\ pc'[s] = label /\ pc'[F] = pc[F] /\ pc'["owner"] = pc["owner"]
      /\ \A t \in Starters : t # s => pc'[t] = pc[t]
  BY Goes, Names DEF StartInv
<1>2. \A t \in Starters : Early(t)' => Early(t) \/ ~marker
  BY <1>1 DEF Early
<1>3. OwnerInv'
  BY <1>0, <1>1, <1>2, LeaseStays
<1>4. VaultInv'
  BY <1>0, <1>1, VaultStays DEF vaultVars
<1>5. LendInv'
  BY <1>0, <1>1 DEF LendInv, lendVars
<1> QED
  BY <1>3, <1>4, <1>5 DEF KeptInv

\* and whatever it does, the rest is kept.
LEMMA SupKeeps ==
    ASSUME StartInv, KeptInv, NEW s \in Starters, Sup(s) \/ SupDies(s)
    PROVE  KeptInv'
<1>0. OwnerInv /\ LendInv /\ VaultInv
      /\ status \in [state : {"none", "starting", "ready", "failed"}, fresh : BOOLEAN]
  BY DEF KeptInv, OwnerInv
<1>1. CASE SupPreflight(s)
  <2>1. CASE Ends(s) /\ UNCHANGED lent
    BY <1>1, <2>1, EndsKeeps DEF SupPreflight
  <2>2. CASE Goto(s, "marks") /\ UNCHANGED <<daemons, lendVars, vaultVars>>
    BY <1>0, <1>1, <2>2, SupGoesKeeps DEF SupPreflight
  <2> QED
    BY <1>1, <2>1, <2>2 DEF SupPreflight
<1>2. CASE SupMarks(s)
  <2>1. CASE marker
    BY <1>2, <2>1, EndsKeeps DEF SupMarks
  <2>2. CASE ~marker
    BY <1>0, <1>2, <2>2, SupGoesKeeps DEF SupMarks
  <2> QED
    BY <2>1, <2>2
<1>3. CASE SupBegins(s)
  <2>1. CASE Ends(s) /\ UNCHANGED <<status, lent>>
    BY <1>3, <2>1, EndsKeeps DEF SupBegins
  <2>2. CASE Publish("starting") /\ Goto(s, "loads") /\ UNCHANGED <<daemons, lendVars, vaultVars>>
    <3>1. Early(s) /\ UNCHANGED <<marker, said>>
      BY <1>3 DEF SupBegins, Early, At
    <3>2. status' = [state |-> "starting", fresh |-> FALSE]
      BY <2>2 DEF Publish
    <3> QED
      BY <2>2, <3>1, <3>2, SupGoesKeeps
  <2> QED
    BY <1>3, <2>1, <2>2 DEF SupBegins
<1>4. CASE SupLoads(s)
  <2>1. Early(s) /\ UNCHANGED <<marker, status, said, lendVars, vaultVars>>
    BY <1>4 DEF SupLoads, Early, At, startVars
  <2>2. \E label : Goto(s, label)
    BY <1>4 DEF SupLoads
  <2> QED
    BY <1>0, <2>1, <2>2, SupGoesKeeps
<1>5. CASE SupSpawns(s)
  <2>1. Early(s)
    BY <1>5 DEF SupSpawns, Early, At
  <2> QED
    BY <1>0, <1>5, <2>1, SupGoesKeeps DEF SupSpawns
<1>6. CASE SupApps(s)
  <2>1. Early(s) /\ UNCHANGED <<marker, status, lendVars, vaultVars>>
    BY <1>6 DEF SupApps, Early, At
  <2>2. CASE Goto(s, "fails") /\ UNCHANGED said
    BY <1>0, <2>1, <2>2, SupGoesKeeps
  <2>3. CASE pc' = [pc EXCEPT ![s] = "polls", !["owner"] = "begins"] /\ said' = "nothing"
    <3>1. OwnerInv'
      BY <1>0, <2>1, <2>3, OwnerBegins
    <3>2. pc'["owner"] = "begins" /\ pc'[F] = pc[F] /\ pc["owner"] = "out"
      BY <1>0, <2>1, <2>3, Names DEF StartInv, PcOK, OwnerInv, Untold
    <3>3. VaultInv'
      <4>1. restored["owner"] = {}
        BY <1>0, <3>2 DEF VaultInv
      <4> QED
        BY <1>0, <2>1, <3>2, <4>1, VaultStays DEF vaultVars
    <3>4. LendInv'
      BY <1>0, <2>1, <3>2 DEF LendInv, lendVars
    <3> QED
      BY <3>1, <3>3, <3>4 DEF KeptInv
  <2> QED
    BY <1>6, <2>2, <2>3 DEF SupApps
<1>7. CASE SupPolls(s) \/ SupDeadline(s)
  <2>1. UNCHANGED <<marker, status, said, lendVars, vaultVars>>
    BY <1>7 DEF SupPolls, SupDeadline, startVars
  <2>2. PICK label \in {"reads", "fails"} : Goto(s, label)
    BY <1>7 DEF SupPolls, SupDeadline
  <2> QED
    BY <1>0, <2>1, <2>2, SupGoesKeeps
<1>8. CASE SupReads(s)
  <2>1. UNCHANGED <<marker, said, lendVars, vaultVars>>
    BY <1>8 DEF SupReads
  <2>2. PICK label \in {"polls", "fails"} : Goto(s, label)
    BY <1>8 DEF SupReads
  <2>3. CASE UNCHANGED status
    BY <1>0, <2>1, <2>2, <2>3, SupGoesKeeps
  <2>4. CASE (status.state = "ready" \/ said = "ready") /\ Publish("ready")
    <3>1. status' = [state |-> "ready", fresh |-> TRUE]
      BY <2>4 DEF Publish
    <3> QED
      BY <2>1, <2>2, <2>4, <3>1, SupGoesKeeps
  <2> QED
    BY <1>8, <2>3, <2>4 DEF SupReads
<1>9. CASE SupFails(s)
  <2>1. CASE Ends(s) /\ UNCHANGED <<status, lent>>
    BY <1>9, <2>1, EndsKeeps DEF SupFails
  <2>2. CASE Publish("failed") /\ Goto(s, "keeps") /\ UNCHANGED <<daemons, lendVars, vaultVars>>
    <3>1. status' = [state |-> "failed", fresh |-> FALSE]
      BY <2>2 DEF Publish
    <3> QED
      BY <1>9, <2>2, <3>1, SupGoesKeeps DEF SupFails
  <2> QED
    BY <1>9, <2>1, <2>2 DEF SupFails
<1>10. CASE SupDies(s)
  BY <1>10, EndsKeeps DEF SupDies
<1> QED
  BY <1>1, <1>2, <1>3, <1>4, <1>5, <1>6, <1>7, <1>8, <1>9, <1>10 DEF Sup

\* The owner's steps: the buffer is locked before its address is sent.
LEMMA OwnerKeeps ==
    ASSUME StartInv, KeptInv, Owner \/ OwnerDies
    PROVE  KeptInv'
<1>0. OwnerInv /\ LendInv /\ VaultInv /\ VaultOK /\ PcOK
  BY DEF KeptInv, StartInv, VaultInv
<1>1. CASE OwnerDies
  <2>1. pc'["owner"] = "dead" /\ pc'[F] = pc[F] /\ \A t \in Starters : pc'[t] = pc[t]
    BY <1>0, <1>1, Goes, Names DEF OwnerDies
  <2>2. Bury({"owner"}) /\ UNCHANGED <<marker, status, said, lent>> /\ pc["owner"] # "out"
    BY <1>1 DEF OwnerDies, startVars, OwnerAlive
  <2>3. \A t \in Starters : Early(t)' => Early(t)
    BY <2>1 DEF Early
  <2>4. OwnerInv'
    BY <1>0, <2>1, <2>2, <2>3, LeaseStays DEF OwnerInv
  <2>5. VaultInv'
    BY <1>0, <2>1, <2>2, OwnerGone
  <2>6. pins' = pins \ {"owner"}
    BY <2>2 DEF Bury
  <2>7. LendInv'
    BY <1>0, <2>1, <2>2, <2>6 DEF LendInv
  <2> QED
    BY <2>4, <2>5, <2>7 DEF KeptInv
<1>2. ASSUME NEW label \in {"allocates", "connects", "locks", "binds", "configures", "vault", "held", "dead"},
             Goto("owner", label),
             pc["owner"] \in {"begins", "allocates", "connects", "locks", "binds", "configures"},
             UNCHANGED <<startVars, vaultVars>>, said' = said \/ said' = "failed", LendInv'
      PROVE  KeptInv'
  <2>1. OwnerInv'
    BY <1>0, <1>2, OwnerTells
  <2>2. pc'["owner"] = label /\ pc'[F] = pc[F]
    BY <1>0, <1>2, Goes, Names
  <2>3. restored["owner"] = {}
    BY <1>0, <1>2 DEF VaultInv
  <2>4. VaultInv'
    BY <1>0, <1>2, <2>2, <2>3, VaultStays DEF vaultVars
  <2> QED
    BY <1>2, <2>1, <2>4 DEF KeptInv
<1>3. ASSUME OwnerFails, UNCHANGED <<startVars, lent, vaultVars>>,
             pc["owner"] \in {"begins", "allocates", "connects", "locks", "binds", "configures"}
      PROVE  KeptInv'
  <2>1. CASE lent
    <3>1. Goto("owner", "held") /\ UNCHANGED pins /\ said' = "failed"
      BY <1>3, <2>1 DEF OwnerFails
    <3>2. LendInv'
      BY <1>0, <1>3, <3>1, Goes, Names DEF LendInv
    <3> QED
      BY <1>2, <1>3, <3>1, <3>2
  <2>2. CASE ~lent
    <3>1. Goto("owner", "dead") /\ said' = "failed"
      BY <1>3, <2>2 DEF OwnerFails
    <3>2. LendInv'
      BY <1>0, <1>3, <2>2, <3>1, Goes, Names DEF LendInv
    <3> QED
      BY <1>2, <1>3, <3>1, <3>2
  <2> QED
    BY <2>1, <2>2
<1>4. CASE OwnerOpens \/ OwnerAllocates \/ OwnerConnects \/ OwnerConfigures
  <2>1. /\ pc["owner"] \in {"begins", "allocates", "connects", "configures"}
        /\ UNCHANGED <<startVars, lent, vaultVars>>
    BY <1>4 DEF OwnerOpens, OwnerAllocates, OwnerConnects, OwnerConfigures, At
  <2>2. CASE OwnerFails
    BY <1>3, <2>1, <2>2
  <2>3. CASE ~OwnerFails
    <3>1. PICK label \in {"allocates", "connects", "locks", "vault"} :
            Goto("owner", label) /\ said' = said /\ (pins' = pins \/ pins' = pins \union {"owner"})
      BY <1>4, <2>3 DEF OwnerOpens, OwnerAllocates, OwnerConnects, OwnerConfigures
    <3>2. LendInv'
      BY <1>0, <2>1, <3>1, Goes, Names DEF LendInv
    <3> QED
      BY <1>2, <2>1, <3>1, <3>2
  <2> QED
    BY <2>2, <2>3
<1>5. CASE OwnerLocks
  <2>1. pc["owner"] = "locks" /\ UNCHANGED <<startVars, lent, vaultVars>>
    BY <1>5 DEF OwnerLocks, At
  <2>2. CASE OwnerFails
    BY <1>3, <2>1, <2>2
  <2>3. CASE ~OwnerFails
    <3>1. Goto("owner", "binds") /\ said' = said /\ pins' = pins \union {"spcom"}
      BY <1>5, <2>3 DEF OwnerLocks
    <3>2. LendInv'
      BY <3>1 DEF LendInv
    <3> QED
      BY <1>2, <2>1, <3>1, <3>2
  <2> QED
    BY <2>2, <2>3
<1>6. CASE OwnerLends
  <2>1. pc["owner"] = "binds" /\ Goto("owner", "configures") /\ UNCHANGED <<startVars, said, pins, vaultVars>>
    BY <1>6 DEF OwnerLends, At
  <2>2. LendInv'
    BY <1>0, <2>1 DEF LendInv
  <2> QED
    BY <1>2, <2>1, <2>2
<1>7. CASE OwnerRestores
  <2>1. pc["owner"] \in {"vault", "vaultLoads", "restores", "signs", "fetches", "caches", "vaultFails"}
        /\ UNCHANGED <<startVars, lendVars>>
    BY <1>7 DEF OwnerRestores, Restores, RestoreFails, RestoreEnds, RestoreLooks, RestoreLoads,
                RestoreOpens, RestoreSigns, RestoreFetches, RestoreCaches, At
  <2>2. pc[F] \in {"out", "waits"}
    BY <1>0, <2>1 DEF OwnerInv
  <2>3. \E label : /\ Goto("owner", label) /\ label # "binds"
                   /\ said' = said \/ said' = "failed" \/ (said' = "ready" /\ label = "ready")
    BY <1>7 DEF OwnerRestores, Restores, RestoreFails, RestoreEnds, RestoreLooks, RestoreLoads,
                RestoreOpens, RestoreSigns, RestoreFetches, RestoreCaches, Finds, Loads, Broken
  <2>4. OwnerInv'
    BY <1>0, <2>1, <2>3, OwnerTells
  <2>5. LendInv'
    BY <1>0, <2>1, <2>3, Goes, Names DEF LendInv, lendVars
  <2>6. VaultInv'
    <3>1. CASE Restores("owner")
      BY <1>0, <2>2, <3>1, RestoringKeeps, Names
    <3>2. CASE RestoreFails("owner", "held") \/ RestoreEnds("owner", "ready")
      BY <1>0, <2>2, <3>2, OwnerRestored
    <3> QED
      BY <1>7, <3>1, <3>2 DEF OwnerRestores
  <2> QED
    BY <2>4, <2>5, <2>6 DEF KeptInv
<1> QED
  BY <1>1, <1>4, <1>5, <1>6, <1>7 DEF Owner
\* A session that uses what is there.
LEMMA SessionUses ==
    ASSUME VaultInv, PcOK, NEW label, Goto(F, label), UNCHANGED vaultVars,
           label \notin {"out", "waits", "signs", "fetches", "caches"}
    PROVE  VaultInv'
<1>1. pc'[F] = label /\ pc'["owner"] = pc["owner"]
  BY Goes, Names
<1> QED
  BY <1>1, VaultStays DEF vaultVars

\* The steps of the session.
LEMMA SessionKeeps ==
    ASSUME StartInv, KeptInv, Session
    PROVE  KeptInv'
<1>0. OwnerInv /\ LendInv /\ VaultInv /\ VaultOK /\ PcOK
  BY DEF KeptInv, StartInv, VaultInv
<1>1. CASE FprintdDies
  <2>1. pc'[F] = "out" /\ pc'["owner"] = pc["owner"] /\ \A t \in Starters : pc'[t] = pc[t]
    BY <1>0, <1>1, Goes, Names DEF FprintdDies
  <2>2. Bury({F}) /\ UNCHANGED <<marker, status, said, lent>>
    BY <1>1 DEF FprintdDies, startVars
  <2>3. OwnerInv'
    BY <1>0, <2>1, <2>2, LeaseStays DEF OwnerInv, Early
  <2>4. VaultInv'
    BY <1>0, <2>1, <2>2, SessionGone
  <2>5. pins' = pins \ {F}
    BY <2>2 DEF Bury
  <2>6. LendInv'
    BY <1>0, <2>1, <2>2, <2>5 DEF LendInv, F
  <2> QED
    BY <2>3, <2>4, <2>6 DEF KeptInv
<1>2. CASE ~FprintdDies
  <2>1. PICK label : Goto(F, label)
    BY SessionMoves
  <2>2. UNCHANGED <<startVars, said, lent>>
    BY SessionMoves
  <2>3. pc[F] \notin {"out", "waits"}
    BY <1>2 DEF Session, OpenLooks, OpenLoads, OpenRestores, Restores, RestoreFails, RestoreEnds,
         RestoreLooks, RestoreLoads, RestoreOpens, RestoreSigns, RestoreFetches, RestoreCaches,
         Prepare, Configure, LoadBds, Close, Closing, Authorization, Authorize, GatekeeperLooks,
         GatekeeperLoads, ReadState, EnrollSecret, WriteState, GetKey, Decap, VerifySecret, HatOp,
         Captures, EnrollInit, EnrollDo, EnrollFinal, StartIdentify, IdentifyAborts, IdentifyDo,
         IdentifyFinal, Cancel, At
  <2>4. pc["owner"] \in {"ready", "dead"}
    BY <1>0, <2>3 DEF OwnerInv
  <2>5. pc'["owner"] = pc["owner"] /\ \A t \in Starters : pc'[t] = pc[t]
    BY <1>0, <2>1, Goes, Names
  <2>6. OwnerInv'
    BY <1>0, <2>2, <2>4, <2>5, LeaseStays DEF OwnerInv, Early, startVars
  <2>7. LendInv'
    <3>1. UNCHANGED pins
      BY <1>2 DEF Session, OpenLooks, OpenLoads, OpenRestores, Prepare, Configure, LoadBds, Close,
           Closing, Authorization, Authorize, GatekeeperLooks, GatekeeperLoads, ReadState,
           EnrollSecret, WriteState, GetKey, Decap, VerifySecret, HatOp, Captures, EnrollInit,
           EnrollDo, EnrollFinal, StartIdentify, IdentifyAborts, IdentifyDo, IdentifyFinal, Cancel,
           Stays, lendVars
    <3> QED
      BY <1>0, <2>2, <2>5, <3>1 DEF LendInv
  <2>8. VaultInv'
    <3>1. CASE OpenLooks \/ Prepare \/ Configure \/ LoadBds \/ Closing
      <4>1. UNCHANGED vaultVars
        BY <3>1 DEF OpenLooks, Prepare, Configure, LoadBds, Closing, Stays
      <4>2. \E next \in {"vault", "loads", "closes", "configures", "prepares", "uploads", "open"} :
              Goto(F, next)
        BY <3>1 DEF OpenLooks, Prepare, Configure, LoadBds, Closing, Refused, Finds, Command,
                    Control, SensorReset, RuntimeFiles
      <4> QED
        BY <1>0, <4>1, <4>2, SessionUses
    <3>2. CASE Captures
      <4>1. UNCHANGED vaultVars
        BY <3>2 DEF Captures, EnrollInit, EnrollDo, EnrollFinal, StartIdentify, IdentifyAborts,
                    IdentifyDo, IdentifyFinal, Cancel, Stays
      <4>2. \E next \in {"enrollInit", "enrollWait", "enrollFinal", "matchWait", "matchAbort",
                         "matchFinal", "open"} : Goto(F, next)
        BY <3>2 DEF Captures, EnrollInit, EnrollDo, EnrollFinal, StartIdentify, IdentifyAborts,
                    IdentifyDo, IdentifyFinal, Cancel, IdentifyInit, Begins, Command, CellIds
      <4> QED
        BY <1>0, <4>1, <4>2, SessionUses
    <3>3. CASE OpenLoads
      BY <1>0, <3>3, SessionLoads DEF OpenLoads
    <3>4. CASE GatekeeperLoads
      BY <1>0, <3>4, SessionLoads DEF GatekeeperLoads
    <3>5. CASE Authorization /\ ~GatekeeperLoads
      <4>1. UNCHANGED vaultVars
        BY <3>5 DEF Authorization, Authorize, GatekeeperLooks, ReadState, EnrollSecret, WriteState,
                    GetKey, Decap, VerifySecret, HatOp, Stays
      <4>2. \E next \in {"open", "state", "gatekeeper", "gatekeeperLoads", "enrolls", "writes", "wraps",
                         "unwraps", "verifies", "token", "enrollInit"} : Goto(F, next)
        BY <3>5 DEF Authorization, Authorize, GatekeeperLooks, ReadState, EnrollSecret, WriteState,
                    GetKey, Decap, VerifySecret, HatOp, Fails, Asked, Command, Finds
      <4> QED
        BY <1>0, <4>1, <4>2, SessionUses
    <3>6. CASE OpenRestores
      <4>1. CASE Restores(F)
        BY <1>0, <2>4, <4>1, RestoringKeeps, Names
      <4>2. CASE RestoreFails(F, "closes")
        <5>1. Unload(F, mine[F] \intersect {"hwvault"}) /\ Goto(F, "closes")
              /\ restored' = [restored EXCEPT ![F] = {}]
          BY <4>2 DEF RestoreFails
        <5>2. mine[F] \intersect {"hwvault"} \in SUBSET mine[F]
          OBVIOUS
        <5> QED
          BY <1>0, <5>1, <5>2, SessionUnloads
      <4>3. CASE RestoreEnds(F, "prepares")
        BY <1>0, <4>3, SessionRestored
      <4> QED
        BY <3>6, <4>1, <4>2, <4>3 DEF OpenRestores
    <3>7. CASE Close
      <4>1. Unload(F, mine[F]) /\ Goto(F, "closed") /\ restored' = restored
        BY <3>7 DEF Close
      <4> QED
        BY <1>0, <4>1, SessionUnloads
    <3> QED
      BY <1>2, <3>1, <3>2, <3>3, <3>4, <3>5, <3>6, <3>7 DEF Session
  <2> QED
    BY <2>6, <2>7, <2>8 DEF KeptInv
<1> QED
  BY <1>1, <1>2

\* fprintd starts, and is let in with the owner ready.
LEMMA WaitingKeeps ==
    ASSUME StartInv, KeptInv, FprintdStarts \/ FprintdWaits
    PROVE  KeptInv'
<1>0. OwnerInv /\ LendInv /\ VaultInv /\ PcOK
  BY DEF KeptInv, StartInv
<1>1. UNCHANGED <<marker, status, said, lendVars, vaultVars>>
  BY DEF FprintdStarts, FprintdWaits, Stays, startVars
<1>2. /\ pc'["owner"] = pc["owner"]
      /\ pc'[F] \in {"out", "waits"} \/ (pc'[F] = "closed" /\ pc["owner"] \in {"ready", "dead"})
      /\ \A t \in Starters : pc'[t] = pc[t] \/ pc'[t] = "preflight"
      /\ pc[F] \in {"out", "waits"}
  <2>1. CASE FprintdStarts
    <3>1. pc' = [pc EXCEPT ![F] = "waits", ![Unit] = IF @ = "out" THEN "preflight" ELSE @] /\ pc[F] = "out"
      BY <2>1 DEF FprintdStarts, At
    <3> QED
      BY <1>0, <3>1, Names DEF PcOK
  <2>2. CASE FprintdWaits
    <3>1. pc[F] = "waits" /\ \/ Goto(F, "out")
                             \/ Goto(F, "closed") /\ status.state = "ready"
      BY <2>2 DEF FprintdWaits, Admitted, Admits, At
    <3>2. status.state = "ready" => pc["owner"] \in {"ready", "dead"}
      BY <1>0 DEF OwnerInv
    <3> QED
      BY <1>0, <3>1, <3>2, Goes, Names
  <2> QED
    BY <2>1, <2>2
<1>3. OwnerInv'
  <2>1. \A t \in Starters : Early(t)' => Early(t) \/ ~marker
    BY <1>2 DEF Early
  <2> QED
    BY <1>0, <1>1, <1>2, <2>1, LeaseStays DEF OwnerInv
<1>4. LendInv'
  BY <1>0, <1>1, <1>2 DEF LendInv, lendVars
<1>5. VaultInv'
  <2>1. mine[F] = {}
    BY <1>0, <1>2 DEF VaultInv
  <2> QED
    BY <1>0, <1>1, <1>2, <2>1, VaultStays DEF vaultVars
<1> QED
  BY <1>3, <1>4, <1>5 DEF KeptInv

\* A supervisor started by hand, a dying daemon, the passing of time and the
\* processor: what is lent to it stays when it crashes.
LEMMA SurroundingsKeep ==
    ASSUME StartInv, KeptInv,
           \/ \E s \in Starters : SupStarts(s) \/ DaemonDies(s)
           \/ LeaseEnds \/ SpssBoots \/ AppsLoaded \/ SpssCrashes
    PROVE  KeptInv'
<1>0. OwnerInv /\ LendInv /\ VaultInv /\ PcOK
      /\ status \in [state : {"none", "starting", "ready", "failed"}, fresh : BOOLEAN]
  BY DEF KeptInv, StartInv, OwnerInv
<1>1. UNCHANGED <<marker, said, pins, lent, vaultVars>>
  BY DEF SupStarts, DaemonDies, LeaseEnds, SpssBoots, AppsLoaded, SpssCrashes, Unlocked, startVars,
         lendVars
<1>2. /\ status' \in [state : {"none", "starting", "ready", "failed"}, fresh : BOOLEAN]
      /\ status'.state = status.state
  <2>1. CASE LeaseEnds
    <3>1. status' = [status EXCEPT !.fresh = FALSE]
      BY <2>1 DEF LeaseEnds
    <3> QED
      BY <1>0, <3>1
  <2>2. CASE ~LeaseEnds
    BY <1>0, <2>2 DEF SupStarts, DaemonDies, SpssBoots, AppsLoaded, SpssCrashes, startVars
  <2> QED
    BY <2>1, <2>2
<1>3. /\ pc'["owner"] = pc["owner"] /\ pc'[F] = pc[F]
      /\ \A t \in Starters : pc'[t] = pc[t] \/ pc'[t] = "preflight"
  <2>1. CASE UNCHANGED pc
    BY <2>1
  <2>2. CASE \E s \in Starters : Goto(s, "preflight")
    BY <1>0, <2>2, Goes, Names
  <2> QED
    BY <2>1, <2>2 DEF SupStarts, DaemonDies, LeaseEnds, SpssBoots, AppsLoaded, SpssCrashes
<1>4. OwnerInv'
  BY <1>0, <1>1, <1>2, <1>3, LeaseStays DEF Early
<1>5. LendInv'
  BY <1>0, <1>1, <1>3 DEF LendInv
<1>6. VaultInv'
  BY <1>0, <1>1, <1>3, VaultStays DEF vaultVars
<1> QED
  BY <1>4, <1>5, <1>6 DEF KeptInv

\* All of it begins anew with the next boot.
LEMMA RebootKeeps ==
    ASSUME Reboot
    PROVE  KeptInv'
<1>1. pc'["owner"] = "out" /\ pc'[F] = "out" /\ \A s \in Starters : pc'[s] = "out"
  BY Names DEF Reboot
<1>2. OwnerInv'
  <2>1. status' = [state |-> "none", fresh |-> FALSE] /\ said' = "nothing"
    BY DEF Reboot
  <2> QED
    BY <1>1, <2>1 DEF OwnerInv, Untold, Early
<1>3. LendInv'
  BY <1>1 DEF Reboot, LendInv
<1>4. VaultInv'
  <2>1. mine' = [u \in Users |-> {}] /\ restored' = [u \in Users |-> {}] /\ resident' = {} /\ creds' = {}
    BY DEF Reboot
  <2>2. mine'["owner"] = {} /\ mine'[F] = {} /\ restored'["owner"] = {}
    BY <2>1, Names
  <2>3. VaultOK'
    BY <2>1, <2>2 DEF VaultOK
  <2>4. \A u \in Users : pc'[u] = "out"
    BY <1>1, Names
  <2> QED
    BY <1>1, <2>1, <2>2, <2>3, <2>4 DEF VaultInv
<1> QED
  BY <1>2, <1>3, <1>4 DEF KeptInv

\* Every step of the whole keeps the invariant.
LEMMA StepKeeps == StartInv /\ KeptInv /\ [Next]_allVars => KeptInv'
<1> SUFFICES ASSUME StartInv, KeptInv, [Next]_allVars PROVE KeptInv'
  OBVIOUS
<1>1. CASE UNCHANGED allVars
  BY <1>1 DEF allVars, vars, startVars, lendVars, vaultVars, KeptInv, OwnerInv, Untold, Early,
              LendInv, VaultInv, VaultOK, Left
<1>2. CASE Session
  BY <1>2, SessionKeeps
<1>3. CASE FprintdStarts \/ FprintdWaits
  BY <1>3, WaitingKeeps
<1>4. CASE Reboot
  BY <1>4, RebootKeeps
<1>5. CASE SecureNext
  <2>1. CASE \E s \in Starters : Sup(s) \/ SupDies(s)
    BY <2>1, SupKeeps
  <2>2. CASE Owner \/ OwnerDies
    BY <2>2, OwnerKeeps
  <2> QED
    BY <1>5, <2>1, <2>2, SurroundingsKeep DEF SecureNext, Starters
<1> QED
  BY <1>1, <1>2, <1>3, <1>4, <1>5 DEF Next, OwnerSteps, Session

\* StartInv and the rest hold in every state.
LEMMA AlwaysKept == Spec => [](StartInv /\ KeptInv)
<1>1. SessionInit => StartInv /\ KeptInv
  BY SessionBegins DEF SessionInv, KeptInv
<1>2. StartInv /\ KeptInv /\ [Next]_allVars => (StartInv /\ KeptInv)'
  BY StepKeeps, StepKeepsStart
<1> QED
  BY <1>1, <1>2, PTL DEF Spec

\* Memory whose address may be in the secure processor stays pinned, through the
\* death of the owner and of its supervisor and the processor's crash
\* (el721-secure-owner.c:95).
THEOREM LentStaysPinned == Spec => []LentPinned
<1>1. KeptInv => LentPinned
  BY DEF KeptInv, LendInv, LentPinned
<1> QED
  BY <1>1, AlwaysKept, PTL

\* The vault the owner has filled keeps its application and its credentials,
\* whatever sessions of fprintd come, fail, close or are killed
\* (el721-qtee.c:791, :1273).
THEOREM VaultStaysKept == Spec => []VaultKept
<1>1. KeptInv => VaultKept
  BY DEF KeptInv, VaultInv, VaultKept
<1> QED
  BY <1>1, AlwaysKept, PTL

\* The owner and fprintd do not meet at the secure element's node
\* (fingerprint-secure:84).
THEOREM OneRestoresAtATime == Spec => []OneRestorer
<1>1. KeptInv => OneRestorer
  BY DEF KeptInv, OwnerInv, OneRestorer, Restoring
<1> QED
  BY <1>1, AlwaysKept, PTL
------------------------------------------------------------------------------
(* The Gatekeeper's handle. *)

\* The start and the owner leave fprintd where it is, and skeymast loaded.
LEMMA OwnerSparesGatekeeper ==
    ASSUME StartInv, KeptInv, SecureNext
    PROVE  pc'[F] = pc[F] /\ "skeymast" \notin resident \ resident'
<1>0. PcOK /\ VaultOK /\ daemons \in [Starters -> {"none", "up", "dead"}]
  BY DEF StartInv, KeptInv, VaultInv
<1>1. ASSUME NEW s \in Starters, Ends(s)
      PROVE  pc'[F] = pc[F] /\ "skeymast" \notin resident \ resident'
  <2>1. pc'[F] = pc[F]
    BY <1>0, <1>1, EndsPc
  <2>2. Bury({}) \/ Bury({"owner"})
    <3> DEFINE owners == IF s = Unit /\ ownerOf = s /\ OwnerAlive THEN {"owner"} ELSE {}
    <3>1. Bury(owners)
      BY <1>1 DEF Ends
    <3>2. owners = {} \/ owners = {"owner"}
      OBVIOUS
    <3> QED
      BY <3>1, <3>2
  <2>3. CASE Bury({})
    BY <1>0, <2>1, <2>3, BuriesNobody
  <2>4. CASE Bury({"owner"})
    <3>1. \E gone \in SUBSET mine["owner"] : resident' = resident \ gone
      BY <1>0, <2>4, BuriesOne, Names
    <3> QED
      BY <1>0, <2>1, <3>1 DEF VaultOK
  <2> QED
    BY <2>2, <2>3, <2>4
<1>2. ASSUME NEW s \in Starters, \E label : Goto(s, label), UNCHANGED vaultVars
      PROVE  pc'[F] = pc[F] /\ "skeymast" \notin resident \ resident'
  BY <1>0, <1>2, Goes, Names DEF vaultVars
<1>3. ASSUME NEW s \in Starters, Sup(s) \/ SupDies(s)
      PROVE  pc'[F] = pc[F] /\ "skeymast" \notin resident \ resident'
  <2>1. CASE Ends(s)
    BY <1>1, <2>1
  <2>2. CASE SupApps(s)
    <3>1. CASE Goto(s, "fails")
      BY <1>2, <2>2, <3>1 DEF SupApps
    <3>2. CASE pc' = [pc EXCEPT ![s] = "polls", !["owner"] = "begins"]
      <4>1. pc'[F] = pc[F]
        BY <1>0, <3>2, Names DEF PcOK
      <4> QED
        BY <2>2, <4>1 DEF SupApps, vaultVars
    <3> QED
      BY <2>2, <3>1, <3>2 DEF SupApps
  <2>3. CASE ~Ends(s) /\ ~SupApps(s)
    <3>1. (\E label : Goto(s, label)) /\ UNCHANGED vaultVars
      BY <1>3, <2>3 DEF Sup, SupDies, SupPreflight, SupMarks, SupBegins, SupLoads, SupSpawns,
           SupPolls, SupReads, SupDeadline, SupFails
    <3> QED
      BY <1>2, <3>1
  <2> QED
    BY <2>1, <2>2, <2>3
<1>4. CASE Owner \/ OwnerDies
  <2>1. PICK label : Goto("owner", label)
    BY <1>4, OwnerMoves
  <2>2. pc'[F] = pc[F]
    BY <1>0, <2>1, Goes, Names
  <2>3. CASE OwnerDies
    <3>1. \E gone \in SUBSET mine["owner"] : resident' = resident \ gone
      BY <1>0, <2>3, BuriesOne, Names DEF OwnerDies
    <3> QED
      BY <1>0, <2>2, <3>1 DEF VaultOK
  <2>4. CASE OwnerRestores
    <3>1. resident' = resident \/ resident' = resident \union {"hwvault"}
          \/ resident' = resident \ (mine["owner"] \intersect {"hwvault"})
      BY <2>4 DEF OwnerRestores, Restores, RestoreFails, RestoreEnds, RestoreLooks, RestoreLoads,
           RestoreOpens, RestoreSigns, RestoreFetches, RestoreCaches, Finds, Loads, Broken, Unload,
           vaultVars
    <3> QED
      BY <2>2, <3>1
  <2>5. CASE ~OwnerDies /\ ~OwnerRestores
    BY <1>4, <2>2, <2>5 DEF Owner, OwnerOpens, OwnerAllocates, OwnerConnects, OwnerLocks, OwnerLends,
         OwnerConfigures, vaultVars
  <2> QED
    BY <2>3, <2>4, <2>5
<1>5. CASE \E s \in Starters : SupStarts(s)
  BY <1>2, <1>5 DEF SupStarts
<1>6. CASE LeaseEnds \/ SpssBoots \/ AppsLoaded \/ SpssCrashes \/ \E s \in Starters : DaemonDies(s)
  BY <1>6 DEF LeaseEnds, SpssBoots, AppsLoaded, SpssCrashes, DaemonDies, vaultVars
<1> QED
  BY <1>3, <1>4, <1>5, <1>6 DEF SecureNext, Starters

\* Every step keeps the handle in hand alive.
LEMMA StepKeepsHandle == StartInv /\ KeptInv /\ HandleInv /\ [Next]_allVars => HandleInv'
<1> SUFFICES ASSUME StartInv, KeptInv, HandleInv, [Next]_allVars PROVE HandleInv'
  OBVIOUS
<1>0. PcOK /\ F \in Processes
  BY Names DEF StartInv
<1>1. CASE UNCHANGED allVars
  BY <1>1 DEF allVars, vars, sessionVars, HandleInv
<1>2. CASE SecureNext /\ Handles(handle)
  <2>1. pc'[F] = pc[F] /\ handle' = handle
    BY <1>2, OwnerSparesGatekeeper DEF Handles, Spent
  <2> QED
    BY <2>1 DEF HandleInv
<1>3. ASSUME NEW label, Goto(F, label), label \notin {"writes", "wraps", "unwraps", "verifies"}
      PROVE  HandleInv'
  BY <1>0, <1>3, Goes DEF HandleInv
<1>4. CASE EnrollSecret
  <2>1. CASE handle' = "live"
    BY <2>1 DEF HandleInv
  <2>2. CASE Fails
    BY <1>3, <2>2 DEF Fails
  <2> QED
    BY <1>4, <2>1, <2>2 DEF EnrollSecret
<1>5. CASE WriteState \/ GetKey \/ Decap \/ VerifySecret
  <2>1. handle = "live"
    BY <1>5 DEF WriteState, GetKey, Decap, VerifySecret, At, HandleInv
  <2>2. CASE Fails
    BY <1>3, <2>2 DEF Fails
  <2>3. CASE UNCHANGED handle
    BY <2>1, <2>3 DEF HandleInv
  <2> QED
    BY <1>5, <2>2, <2>3 DEF WriteState, GetKey, Decap, VerifySecret
<1>6. CASE Session /\ ~EnrollSecret /\ ~WriteState /\ ~GetKey /\ ~Decap /\ ~VerifySecret
  <2>1. CASE OpenLooks \/ OpenLoads \/ Prepare \/ Configure \/ LoadBds \/ Close \/ Closing \/ FprintdDies
    BY <1>3, <2>1 DEF OpenLooks, OpenLoads, Prepare, Configure, LoadBds, Close, Closing, FprintdDies,
         Refused, Finds, Loads, Command, Control, SensorReset, RuntimeFiles
  <2>2. CASE OpenRestores
    BY <1>3, <2>2 DEF OpenRestores, Restores, RestoreFails, RestoreEnds, RestoreLooks, RestoreLoads,
         RestoreOpens, RestoreSigns, RestoreFetches, RestoreCaches, Finds, Loads, Broken
  <2>3. CASE Captures
    BY <1>3, <2>3 DEF Captures, EnrollInit, EnrollDo, EnrollFinal, StartIdentify, IdentifyAborts,
         IdentifyDo, IdentifyFinal, Cancel, IdentifyInit, Begins, Command, CellIds
  <2>4. CASE Authorize \/ GatekeeperLooks \/ GatekeeperLoads \/ ReadState \/ HatOp
    BY <1>3, <2>4 DEF Authorize, GatekeeperLooks, GatekeeperLoads, ReadState, HatOp, Fails, Finds,
         Loads, Command
  <2> QED
    BY <1>6, <2>1, <2>2, <2>3, <2>4 DEF Session, Authorization
<1>7. CASE FprintdStarts
  <2>1. pc' = [pc EXCEPT ![F] = "waits", ![Unit] = IF @ = "out" THEN "preflight" ELSE @]
    BY <1>7 DEF FprintdStarts
  <2>2. pc'[F] = "waits"
    BY <1>0, <2>1, Names DEF PcOK
  <2> QED
    BY <2>2 DEF HandleInv
<1>8. CASE FprintdWaits
  BY <1>3, <1>8 DEF FprintdWaits
<1>9. CASE Reboot
  <2>1. pc'[F] = "out"
    BY <1>9, Names DEF Reboot
  <2> QED
    BY <2>1 DEF HandleInv
<1> QED
  BY <1>1, <1>2, <1>4, <1>5, <1>6, <1>7, <1>8, <1>9 DEF Next, OwnerSteps, Session, Authorization

\* The Gatekeeper is asked to verify with a handle of its present life only: one
\* read from the file is replaced by an enrolment first (el721-qtee.c:2235).
THEOREM HandleStaysUsable == Spec => []HandleUsable
<1>1. SessionInit => HandleInv
  BY SessionBegins DEF SessionInv
<1>2. StartInv /\ KeptInv /\ HandleInv /\ [Next]_allVars => HandleInv'
  BY StepKeepsHandle
<1>3. HandleInv => HandleUsable
  BY DEF HandleInv, HandleUsable, At
<1> QED
  BY <1>1, <1>2, <1>3, AlwaysKept, PTL DEF Spec
=============================================================================
