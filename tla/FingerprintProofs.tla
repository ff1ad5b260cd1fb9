--------------------------- MODULE FingerprintProofs ---------------------------
(***************************************************************************)
(* Proofs about the fingerprint prompt: for any gallery, and any number of *)
(* presses, light requests and mishaps.                                    *)
(***************************************************************************)
EXTENDS FingerprintPrompt, TLAPS

Driver == [action : {"none", "enroll", "match"}, inhibited : BOOLEAN,
           finger : BOOLEAN, deadline : BOOLEAN, request : 0 .. MaxToken,
           current : 0 .. Len(Gallery), capturing : BOOLEAN]
Outcome == [what : {"none", "error", "retry", "enrolled", "no match", "match"},
            entry : Owners, owner : Owners]
Touch == [on : BOOLEAN, state : {"idle", "pressed", "released"},
          news : BOOLEAN, held : BOOLEAN]
Finger == [down : BOOLEAN, press : 0 .. MaxPress, owner : Owners]
Panel == [awake : BOOLEAN, hbm : BOOLEAN, lit : BOOLEAN]
Devices == {"light", "touch", "supply"}
Shell == [covered : BOOLEAN, ready : BOOLEAN, shade : BOOLEAN, token : 0 .. MaxToken,
          painting : 0 .. MaxToken, painted : 0 .. MaxToken]

\* The driver's own state and what it does to its hardware.
DriverTyped ==
    /\ alive \in BOOLEAN /\ drv \in Driver /\ job \in Nat /\ outcome \in Outcome
    /\ touch \in Touch /\ panel \in Panel /\ sensor \in BOOLEAN /\ image \in Owners
    /\ lightFile \in 0 .. MaxToken /\ tokens \in 0 .. MaxToken

\* What else a reading goes by.
WorldTyped ==
    /\ finger \in Finger
    /\ captured \subseteq (0 .. MaxPress) \X (0 .. Len(Gallery))
    /\ lease \in {"none", "blocked", "ready"} /\ presented \in 0 .. MaxToken
    /\ shell \in Shell /\ pulse \in {"none", "ready", "blocked"}
    /\ frame \in 0 .. MaxToken /\ mishaps \in 0 .. MaxMishaps

Typed == DriverTyped /\ WorldTyped

LEMMA Bounds ==
    /\ MaxToken \in Nat /\ MaxPress \in Nat /\ MaxMishaps \in Nat
    /\ Len(Gallery) \in Nat \ {0} /\ 0 \in 0 .. MaxToken /\ 0 \in Owners
    /\ \A e \in Entries : Gallery[e] \in Nat \ {0}
BY ReaderAssumption, PromptAssumption DEF Entries, Owners

\* A light is the driver's, unless a write or a command failed.
Lamp ==
    /\ panel.hbm => panel.lit
    /\ panel.lit => panel.awake
    /\ panel.lit /\ ~panel.hbm => "light" \in refused

\* What a failing write left on is on,
RefusedOn ==
    /\ refused \subseteq Devices
    /\ "light" \in refused => panel.lit
    /\ "touch" \in refused => touch.on
    /\ "supply" \in refused => sensor

\* and nothing else is.
OnRefused ==
    /\ panel.lit => "light" \in refused
    /\ touch.on => "touch" \in refused
    /\ sensor => "supply" \in refused

\* Who is lit, and what is on, when nothing goes on.
Power ==
    /\ Lamp /\ RefusedOn
    /\ alive /\ drv.action = "none" => OnRefused
    /\ drv.action # "none" /\ drv.inhibited => ~touch.on
    /\ touch.state = "pressed" => touch.on

\* An action has reported nothing yet; a capture belongs to one.
Jobs ==
    /\ drv.action # "none" => job = 0
    /\ job <= 1
    /\ ~alive => drv.action = "none"
    /\ drv.capturing => drv.action # "none" /\ ~drv.deadline /\ drv.request = 0

\* A match is the finger's.
Own == outcome.what = "match" => outcome.entry = outcome.owner

\* A press is behind entry e as long as e has had no image of it.
Behind(e) == <<finger.press, e>> \notin captured

\* A press the driver has not seen.
Fresh == touch.news /\ Pressed

\* What is still to be captured has not been: of a press that asks or has asked
\* for light the loaded entry and those after it, of one that is being captured
\* those after it, of a contact the driver has yet to see all of them.
Once ==
    /\ \A c \in captured : c[1] <= finger.press
    /\ drv.deadline \/ drv.request # 0 =>
         \A e \in 0 .. Len(Gallery) : e >= drv.current => Behind(e)
    /\ drv.capturing => \A e \in 0 .. Len(Gallery) : e > drv.current => Behind(e)
    /\ Fresh => \A e \in 0 .. Len(Gallery) : Behind(e)

\* Only the latest token is on file, and what the broker may present has been
\* painted.
Lit ==
    /\ drv.request # 0 => drv.request = tokens
    /\ lightFile # 0 => lightFile = tokens
    /\ presented <= shell.painted
    /\ frame <= shell.painted
    /\ shell.painted <= tokens

\* The inductive invariant.
Inv == Typed /\ Power /\ Jobs /\ Own /\ Once /\ Lit

------------------------------------------------------------------------------
(* What the driver does to its hardware. *)

\* A write of fod_enable keeps a press only if it enables.
LEMMA Fod ==
    ASSUME NEW t \in Touch, NEW on \in BOOLEAN, t.state = "pressed" => t.on
    PROVE  /\ FodEnable(t, on) \in Touch
           /\ [FodEnable(t, on) EXCEPT !.news = FALSE] \in Touch
           /\ [FodEnable(t, on) EXCEPT !.held = FALSE] \in Touch
           /\ FodEnable(t, on).on <=> on
           /\ FodEnable(t, on).state = "pressed" => t.state = "pressed" /\ on /\ FodEnable(t, on).news = t.news
<1>1. [t EXCEPT !.on = TRUE] \in Touch /\ [t EXCEPT !.on = FALSE, !.state = "idle", !.news = TRUE] \in Touch
  BY DEF Touch
<1>2. FodEnable(t, on) \in Touch
  BY <1>1 DEF FodEnable
<1>3. \A u \in Touch : [u EXCEPT !.news = FALSE] \in Touch /\ [u EXCEPT !.held = FALSE] \in Touch
  BY DEF Touch
<1>4. CASE t.on <=> on
  BY <1>2, <1>3, <1>4 DEF FodEnable, Touch
<1>5. CASE on /\ ~t.on
  <2>1. FodEnable(t, on) = [t EXCEPT !.on = TRUE]
    BY <1>5, t.on \in BOOLEAN DEF FodEnable, Touch
  <2>2. [t EXCEPT !.on = TRUE].on /\ [t EXCEPT !.on = TRUE].state = t.state
    BY DEF Touch
  <2>3. t.state # "pressed"
    BY <1>5
  <2> QED
    BY <1>2, <1>3, <1>5, <2>1, <2>2, <2>3
<1>6. CASE ~on /\ t.on
  <2>1. FodEnable(t, on) = [t EXCEPT !.on = FALSE, !.state = "idle", !.news = TRUE]
    BY <1>6 DEF FodEnable, Touch
  <2>2. /\ ~[t EXCEPT !.on = FALSE, !.state = "idle", !.news = TRUE].on
        /\ [t EXCEPT !.on = FALSE, !.state = "idle", !.news = TRUE].state = "idle"
    BY DEF Touch
  <2> QED
    BY <1>2, <1>3, <1>6, <2>1, <2>2
<1> QED
  BY <1>4, <1>5, <1>6

\* What is on, one by one, and the type invariant.
LEMMA OnSets ==
    /\ refused \subseteq On <=> RefusedOn
    /\ On \subseteq refused <=> OnRefused
BY DEF On, RefusedOn, OnRefused, Devices

LEMMA TypedIsType == Typed /\ RefusedOn <=> PromptTypeOK
BY OnSets
   DEF Typed, DriverTyped, WorldTyped, PromptTypeOK, ReaderTypeOK, Driver, Outcome, Touch,
       Finger, Panel, Shell

LEMMA Mode ==
    ASSUME NEW p \in Panel, NEW on \in BOOLEAN
    PROVE  /\ FodMode(p, on) \in Panel
           /\ FodMode(p, on).awake <=> p.awake
           /\ FodMode(p, on).hbm <=> IF p.awake THEN on ELSE p.hbm
           /\ FodMode(p, on).lit <=> IF p.awake /\ (p.hbm <=> ~on) THEN on ELSE p.lit
<1>1. CASE p.awake /\ p.hbm # on
  <2>1. FodMode(p, on) = [p EXCEPT !.hbm = on, !.lit = on]
    BY <1>1 DEF FodMode
  <2> QED
    BY <1>1, <2>1 DEF Panel
<1>2. CASE ~(p.awake /\ p.hbm # on)
  <2>1. FodMode(p, on) = p
    BY <1>2 DEF FodMode
  <2> QED
    BY <1>2, <2>1 DEF Panel
<1> QED
  BY <1>1, <1>2

LEMMA ModeFails ==
    ASSUME NEW p \in Panel, NEW q \in FodModeFails(p)
    PROVE  q \in Panel /\ (q.awake <=> p.awake) /\ (q.hbm => p.hbm) /\ (q.lit <=> p.lit)
<1>1. CASE q = p
  BY <1>1
<1>2. CASE q = [p EXCEPT !.hbm = FALSE]
  BY <1>2 DEF Panel
<1> QED
  BY <1>1, <1>2 DEF FodModeFails

\* Three writes: what stays on is on record, and a press is not made up.
LEMMA Switches ==
    ASSUME NEW p \in Panel, NEW s \in BOOLEAN, NEW failing \in SUBSET Devices,
           SwitchOff(p, s, failing), touch \in Touch, touch.state = "pressed" => touch.on,
           refused \subseteq Devices, p.hbm => p.lit, p.lit => p.awake,
           p.lit /\ ~p.hbm => "light" \in refused \cup failing
    PROVE  /\ touch' \in Touch /\ panel' \in Panel /\ sensor' \in BOOLEAN
           /\ Lamp' /\ RefusedOn' /\ OnRefused' /\ (panel'.lit => p.lit)
           /\ touch'.state = "pressed" => touch'.on
           /\ Fresh' => Fresh
<1>0. /\ touch' = IF "touch" \in failing THEN touch ELSE FodEnable(touch, FALSE)
      /\ sensor' = (s /\ "supply" \in failing)
      /\ panel' \in IF "light" \in failing THEN FodModeFails(p) ELSE {FodMode(p, FALSE)}
      /\ refused' = (refused \cup failing) \cap On'
  BY DEF SwitchOff
<1>1. /\ touch' \in Touch /\ (touch'.state = "pressed" => touch'.on)
      /\ touch'.on => "touch" \in failing
      /\ touch'.state = "pressed" => touch' = touch
  <2>1. CASE "touch" \in failing
    BY <1>0, <2>1
  <2>2. CASE "touch" \notin failing
    BY <1>0, <2>2, Fod
  <2> QED
    BY <2>1, <2>2
<1>2. /\ panel' \in Panel /\ (panel'.hbm => panel'.lit) /\ (panel'.lit => panel'.awake)
      /\ panel'.lit => p.lit /\ "light" \in refused \cup failing
  <2>1. CASE "light" \in failing
    BY <1>0, <2>1, ModeFails
  <2>2. CASE "light" \notin failing
    <3>1. panel' = FodMode(p, FALSE)
      BY <1>0, <2>2
    <3>2. /\ panel' \in Panel /\ (panel'.awake <=> p.awake)
          /\ panel'.hbm <=> IF p.awake THEN FALSE ELSE p.hbm
          /\ panel'.lit <=> IF p.awake /\ p.hbm THEN FALSE ELSE p.lit
      BY <3>1, Mode
    <3> QED
      BY <2>2, <3>2
  <2> QED
    BY <2>1, <2>2
<1>3. sensor' \in BOOLEAN /\ (sensor' => "supply" \in failing)
  BY <1>0
<1>4. RefusedOn'
  BY <1>0 DEF RefusedOn, On, Devices
<1>5. OnRefused'
  <2>1. /\ panel'.lit => "light" \in On'
        /\ touch'.on => "touch" \in On'
        /\ sensor' => "supply" \in On'
    BY DEF On
  <2> QED
    BY <1>0, <1>1, <1>2, <1>3, <2>1 DEF OnRefused
<1>6. Lamp'
  BY <1>2, <1>5 DEF Lamp, OnRefused
<1>7. Fresh' => Fresh
  BY <1>1 DEF Fresh, Pressed
<1> QED
  BY <1>1, <1>2, <1>3, <1>4, <1>5, <1>6, <1>7

LEMMA IdleTyped ==
    /\ Idle \in Driver /\ Idle.action = "none" /\ Idle.inhibited
    /\ ~Idle.deadline /\ Idle.request = 0 /\ ~Idle.capturing /\ ~Idle.finger
BY Bounds DEF Idle, Driver

LEMMA NoOutcomeTyped ==
    /\ NoOutcome \in Outcome /\ NoOutcome.what = "none"
    /\ [NoOutcome EXCEPT !.what = "error"] \in Outcome
    /\ [NoOutcome EXCEPT !.what = "error"].what = "error"
BY Bounds DEF NoOutcome, Outcome

\* The end of an action, with whatever result, keeps the invariant.
LEMMA EndKeeps ==
    ASSUME Inv, NEW p \in Panel, NEW failing \in SUBSET Devices, Cleanup(p, failing),
           p.hbm => p.lit, p.lit => p.awake,
           p.lit /\ ~p.hbm => "light" \in refused \cup failing,
           UNCHANGED <<alive, finger, captured, tokens, desk, ui>>,
           mishaps' \in 0 .. MaxMishaps,
           job' \in Nat, job' <= 1, outcome' \in Outcome, Own'
    PROVE  Inv'
<1>0. Typed /\ Power /\ Jobs /\ Once /\ Lit
  BY DEF Inv
<1>1. drv' = Idle /\ SwitchOff(p, sensor, failing) /\ lightFile' = 0 /\ image' = 0
  BY DEF Cleanup
<1>2. /\ touch' \in Touch /\ panel' \in Panel /\ sensor' \in BOOLEAN
      /\ Lamp' /\ RefusedOn' /\ OnRefused' /\ (touch'.state = "pressed" => touch'.on)
      /\ Fresh' => Fresh
  <2>1. /\ touch \in Touch /\ sensor \in BOOLEAN /\ refused \subseteq Devices
        /\ touch.state = "pressed" => touch.on
    BY <1>0 DEF Typed, DriverTyped, Power, RefusedOn
  <2> QED
    BY <1>1, <2>1, Switches
<1>3. Typed'
  BY <1>0, <1>1, <1>2, IdleTyped, Bounds DEF Typed, DriverTyped, WorldTyped, desk, ui
<1>4. Power'
  BY <1>1, <1>2, IdleTyped DEF Power
<1>5. Jobs'
  BY <1>0, <1>1, IdleTyped DEF Jobs
<1>6. Once'
  BY <1>0, <1>1, <1>2, IdleTyped DEF Once, Behind
<1>7. Lit'
  BY <1>0, <1>1, IdleTyped DEF Lit, desk, ui
<1> QED
  BY <1>3, <1>4, <1>5, <1>6, <1>7 DEF Inv

LEMMA CleansUpKeeps ==
    ASSUME Inv, CleansUp, UNCHANGED <<alive, finger, captured, tokens, desk, ui>>,
           mishaps' \in 0 .. MaxMishaps,
           job' \in Nat, job' <= 1, outcome' \in Outcome, Own'
    PROVE  Inv'
<1>1. PICK failing \in SUBSET On : Cleanup(panel, failing)
  BY DEF CleansUp
<1>2. failing \in SUBSET Devices
  BY DEF On, Devices
<1>3. /\ panel \in Panel /\ (panel.hbm => panel.lit) /\ (panel.lit => panel.awake)
      /\ panel.lit /\ ~panel.hbm => "light" \in refused \cup failing
  BY DEF Inv, Typed, DriverTyped, Power, Lamp
<1> QED
  BY <1>1, <1>2, <1>3, EndKeeps

\* So does an error,
LEMMA FailedTyped ==
    ASSUME Inv, Failed, UNCHANGED ui
    PROVE  /\ UNCHANGED <<alive, finger, captured, tokens, desk, ui>>
           /\ job' \in Nat /\ job' <= 1 /\ outcome' \in Outcome /\ Own'
<1>1. /\ UNCHANGED <<alive, finger, captured, tokens, desk, ui>> /\ job' = job
      /\ outcome' = [NoOutcome EXCEPT !.what = "error"]
  BY DEF Failed, desk
<1>2. job' \in Nat /\ job' <= 1
  BY <1>1 DEF Inv, Jobs, Typed, DriverTyped
<1>3. outcome' \in Outcome /\ Own'
  BY <1>1, NoOutcomeTyped DEF Own
<1> QED
  BY <1>1, <1>2, <1>3

LEMMA FailKeeps ==
    ASSUME Inv, ActionFail, UNCHANGED ui, mishaps' \in 0 .. MaxMishaps
    PROVE  Inv'
BY CleansUpKeeps, FailedTyped DEF ActionFail

\* or a result.
LEMMA ResultKeeps ==
    ASSUME Inv, CleansUp, drv.action # "none", NEW what, NEW entry, Report(what, entry),
           what \in {"retry", "enrolled", "no match", "match"}, entry \in Owners,
           what = "match" => entry = image,
           UNCHANGED <<alive, finger, captured, tokens, desk, ui>>, mishaps' \in 0 .. MaxMishaps
    PROVE  Inv'
<1>1. job = 0 /\ job' = job + 1 /\ image \in Owners
  BY DEF Inv, Jobs, Report, Typed, DriverTyped
<1>2. outcome' = [what |-> what, entry |-> entry, owner |-> image]
  BY DEF Report
<1>3. outcome' \in Outcome /\ Own'
  BY <1>1, <1>2 DEF Own, Outcome
<1>4. job' \in Nat /\ job' <= 1
  <2>1. job = 0 /\ job' = job + 1
    BY <1>1
  <2> QED
    BY ONLY <2>1
<1> QED
  BY <1>3, <1>4, CleansUpKeeps

\* The parts of the invariant a step of the reader may disturb, when it leaves
\* the desktop alone.
LEMMA ReaderKeeps ==
    ASSUME Inv, DriverTyped', Power', Jobs', Own', Once',
           UNCHANGED <<desk, ui>>, mishaps' \in 0 .. MaxMishaps, finger' \in Finger,
           captured' \subseteq (0 .. MaxPress) \X (0 .. Len(Gallery)),
           tokens <= tokens',
           drv'.request # 0 => drv'.request = tokens',
           lightFile' # 0 => lightFile' = tokens'
    PROVE  Inv'
<1>0. Typed /\ Lit
  BY DEF Inv
<1>1. Typed'
  BY <1>0 DEF Typed, WorldTyped, desk, ui
<1>2. shell.painted \in Nat /\ tokens \in Nat /\ tokens' \in Nat /\ shell.painted <= tokens
  BY <1>0, Bounds DEF Typed, DriverTyped, WorldTyped, Shell, Lit
<1>3. shell.painted <= tokens'
  BY <1>2
<1>4. Lit'
  BY <1>0, <1>3 DEF Lit, desk, ui
<1> QED
  BY <1>1, <1>4 DEF Inv

\* A driver that goes on as it was, but for what it knows of the finger.
LEMMA OnceKeeps ==
    ASSUME Once, UNCHANGED <<finger, captured>>,
           drv'.current = drv.current, ~drv'.capturing,
           drv'.deadline \/ drv'.request # 0 => drv.deadline \/ drv.request # 0,
           Fresh' => Fresh
    PROVE  Once'
BY DEF Once, Behind

LEMMA BeginKeeps ==
    ASSUME Inv, NEW action \in {"enroll", "match"}, Begin(action), UNCHANGED ui, mishaps' \in 0 .. MaxMishaps
    PROVE  Inv'
<1>0. Typed /\ Power /\ Jobs /\ Once /\ Lit
  BY DEF Inv
<1>1. /\ alive /\ panel.awake /\ job' = 0 /\ outcome' = NoOutcome /\ sensor' = TRUE /\ lightFile' = 0
      /\ touch' = [FodEnable(touch, FALSE) EXCEPT !.news = FALSE] /\ panel' = FodMode(panel, FALSE)
      /\ refused' = (refused \ {"supply"}) \cap On'
      /\ UNCHANGED <<alive, finger, image, captured, tokens, desk, ui>>
  BY DEF Begin, desk
<1>2. /\ drv' \in Driver /\ drv'.action # "none" /\ drv'.inhibited /\ ~drv'.finger
      /\ ~drv'.deadline /\ drv'.request = 0 /\ ~drv'.capturing
  <2>1. \A n \in {0, 1} : n \in 0 .. Len(Gallery)
    BY Bounds
  <2>2. PICK n \in {0, 1} : drv' = [Idle EXCEPT !.action = action, !.current = n]
    BY DEF Begin
  <2> QED
    BY <2>1, <2>2, Bounds DEF Idle, Driver
<1>3. touch' \in Touch /\ ~touch'.on /\ touch'.state # "pressed"
  <2>1. touch \in Touch /\ (touch.state = "pressed" => touch.on)
    BY <1>0 DEF Typed, DriverTyped, Power
  <2>2. /\ FodEnable(touch, FALSE) \in Touch /\ touch' \in Touch
        /\ ~FodEnable(touch, FALSE).on /\ FodEnable(touch, FALSE).state # "pressed"
    BY <1>1, <2>1, Fod
  <2>3. \A t \in Touch : LET u == [t EXCEPT !.news = FALSE] IN u.on = t.on /\ u.state = t.state
    BY DEF Touch
  <2> QED
    BY <1>1, <2>2, <2>3
<1>4. panel' \in Panel /\ Lamp' /\ RefusedOn'
  <2>1. panel \in Panel /\ Lamp /\ refused \subseteq Devices
    BY <1>0 DEF Typed, DriverTyped, Power, RefusedOn
  <2>2. /\ panel' \in Panel /\ panel'.awake /\ ~panel'.hbm
        /\ panel'.lit => panel.lit /\ ~panel.hbm
    BY <1>1, <2>1, Mode
  <2>3. RefusedOn'
    BY <1>1, <2>1 DEF RefusedOn, On, Devices
  <2>4. panel'.lit => "light" \in On'
    BY DEF On
  <2> QED
    BY <1>1, <2>1, <2>2, <2>3, <2>4 DEF Lamp
<1>5. DriverTyped'
  BY <1>0, <1>1, <1>2, <1>3, <1>4, NoOutcomeTyped, Bounds DEF Typed, DriverTyped
<1>6. Power' /\ Jobs' /\ Own'
  <2>1. outcome'.what # "match"
    BY <1>1, NoOutcomeTyped
  <2>2. job' <= 1
    BY <1>1
  <2>3. Power'
    BY <1>1, <1>2, <1>3, <1>4 DEF Power
  <2>4. Jobs'
    BY <1>1, <1>2, <2>2 DEF Jobs
  <2> QED
    BY <2>1, <2>3, <2>4 DEF Own
<1>7. Once'
  BY <1>0, <1>1, <1>2, <1>3 DEF Once, Behind, Fresh, Pressed
<1>8. tokens \in Nat /\ tokens <= tokens'
  BY <1>0, <1>1, Bounds DEF Typed, DriverTyped
<1> QED
  BY <1>0, <1>1, <1>2, <1>5, <1>6, <1>7, <1>8, ReaderKeeps DEF Typed, WorldTyped

LEMMA BeginFailKeeps ==
    ASSUME Inv, BeginFails, UNCHANGED ui, mishaps' \in 0 .. MaxMishaps
    PROVE  Inv'
<1>0. Typed /\ Power /\ Jobs /\ Once /\ Lit
  BY DEF Inv
<1>1. /\ alive /\ drv.action = "none" /\ job' = 0 /\ drv' = Idle
      /\ outcome' = [NoOutcome EXCEPT !.what = "error"]
      /\ UNCHANGED <<alive, finger, image, captured, lightFile, tokens, desk, ui>>
  BY DEF BeginFails, desk
<1>2. /\ touch' \in Touch /\ panel' \in Panel /\ sensor' \in BOOLEAN
      /\ Lamp' /\ RefusedOn' /\ OnRefused' /\ (touch'.state = "pressed" => touch'.on)
      /\ Fresh' => Fresh
  <2>1. PICK failing \in SUBSET (On \cup {"supply"}) : SwitchOff(panel, TRUE, failing)
    BY DEF BeginFails
  <2>2. failing \in SUBSET Devices
    BY DEF On, Devices
  <2>3. /\ panel \in Panel /\ touch \in Touch /\ refused \subseteq Devices /\ Lamp
        /\ touch.state = "pressed" => touch.on
    BY <1>0 DEF Typed, DriverTyped, Power, RefusedOn
  <2> QED
    BY <2>1, <2>2, <2>3, Switches DEF Lamp
<1>3. DriverTyped'
  BY <1>0, <1>1, <1>2, IdleTyped, NoOutcomeTyped DEF Typed, DriverTyped
<1>4. Power' /\ Jobs' /\ Own'
  <2>1. outcome'.what # "match"
    BY <1>1, NoOutcomeTyped
  <2>2. job' <= 1
    BY <1>1
  <2>3. Power'
    BY <1>1, <1>2, IdleTyped DEF Power
  <2>4. Jobs'
    BY <1>1, <2>2, IdleTyped DEF Jobs
  <2> QED
    BY <2>1, <2>3, <2>4 DEF Own
<1>5. Once'
  BY <1>0, <1>1, <1>2, IdleTyped DEF Once, Behind
<1>6. tokens \in Nat /\ tokens <= tokens'
  BY <1>0, <1>1, Bounds DEF Typed, DriverTyped
<1> QED
  BY <1>0, <1>1, <1>3, <1>4, <1>5, <1>6, IdleTyped, ReaderKeeps DEF Typed, WorldTyped, Lit

\* fprintd is started again after the cleanup script.
LEMMA RestartKeeps ==
    ASSUME Inv, Restart, UNCHANGED ui, mishaps' \in 0 .. MaxMishaps
    PROVE  Inv'
<1>0. Typed /\ Power /\ Jobs /\ Own /\ Once /\ Lit
  BY DEF Inv
<1>1. /\ alive' = TRUE /\ lightFile' = 0 /\ drv.action = "none"
      /\ UNCHANGED <<drv, job, outcome, finger, image, captured, tokens, desk, ui>>
  BY <1>0 DEF Restart, Jobs, desk
<1>2. /\ touch' \in Touch /\ panel' \in Panel /\ sensor' \in BOOLEAN
      /\ Lamp' /\ RefusedOn' /\ OnRefused' /\ (touch'.state = "pressed" => touch'.on)
      /\ Fresh' => Fresh
  <2>1. PICK failing \in SUBSET On : SwitchOff(panel, sensor, failing)
    BY DEF Restart
  <2>2. failing \in SUBSET Devices
    BY DEF On, Devices
  <2>3. /\ panel \in Panel /\ touch \in Touch /\ refused \subseteq Devices /\ Lamp
        /\ touch.state = "pressed" => touch.on
        /\ sensor \in BOOLEAN
    BY <1>0 DEF Typed, DriverTyped, Power, RefusedOn
  <2> QED
    BY <2>1, <2>2, <2>3, Switches DEF Lamp
<1>4. DriverTyped'
  BY <1>0, <1>1, <1>2, Bounds DEF Typed, DriverTyped
<1>5. Power' /\ Jobs' /\ Own'
  BY <1>0, <1>1, <1>2 DEF Power, Jobs, Own
<1>6. Once'
  BY <1>0, <1>1, <1>2 DEF Once, Behind
<1>7. tokens \in Nat /\ tokens <= tokens'
  BY <1>0, <1>1, Bounds DEF Typed, DriverTyped
<1> QED
  BY <1>0, <1>1, <1>4, <1>5, <1>6, <1>7, ReaderKeeps DEF Typed, WorldTyped, Lit

------------------------------------------------------------------------------
(* The polls. *)

\* A poll that gets as far as the touch state remembers it and nothing else.
LEMMA Observes ==
    ASSUME Typed, NEW d \in Driver, Observed(d)
    PROVE  /\ touch' \in Touch /\ ~touch'.news
           /\ touch'.on <=> touch.on
           /\ touch'.state = touch.state
           /\ drv' \in Driver
           /\ drv'.action = d.action /\ drv'.request = d.request /\ drv'.current = d.current
           /\ drv'.inhibited <=> d.inhibited
           /\ drv'.deadline <=> d.deadline
           /\ drv'.capturing <=> d.capturing
<1>1. touch \in Touch /\ touch' = [touch EXCEPT !.news = FALSE]
  BY DEF Typed, DriverTyped, Observed
<1>2. touch' \in Touch /\ ~touch'.news /\ (touch'.on <=> touch.on) /\ touch'.state = touch.state
  BY <1>1 DEF Touch
<1>3. PICK b \in BOOLEAN : drv' = [d EXCEPT !.finger = b]
  BY DEF Observed, Pressed
<1>4. /\ drv' \in Driver
      /\ drv'.action = d.action /\ drv'.request = d.request /\ drv'.current = d.current
      /\ drv'.inhibited <=> d.inhibited
      /\ drv'.deadline <=> d.deadline
      /\ drv'.capturing <=> d.capturing
  BY <1>3 DEF Driver
<1> QED
  BY <1>2, <1>4

\* The light goes off in the middle of an action.
LEMMA DarkKeeps ==
    ASSUME Power, panel \in Panel, panel' = FodMode(panel, FALSE), refused' = refused \cap On'
    PROVE  panel' \in Panel /\ Lamp' /\ RefusedOn'
<1>0. Lamp /\ refused \subseteq Devices
  BY DEF Power, RefusedOn
<1>1. /\ panel' \in Panel /\ (panel'.awake <=> panel.awake)
      /\ panel'.hbm <=> IF panel.awake THEN FALSE ELSE panel.hbm
      /\ panel'.lit <=> IF panel.awake /\ panel.hbm THEN FALSE ELSE panel.lit
  BY Mode
<1>2. RefusedOn'
  BY <1>0 DEF RefusedOn, On, Devices
<1>3. panel'.lit => "light" \in On'
  BY DEF On
<1> QED
  BY <1>0, <1>1, <1>2, <1>3 DEF Lamp

\* It, and the touch mode and supply, stay as they are.
LEMMA SameKeeps ==
    ASSUME Power, UNCHANGED <<panel, refused, sensor>>, touch.on => touch'.on
    PROVE  Lamp' /\ RefusedOn'
BY DEF Power, Lamp, RefusedOn

\* A poll of an armed reader that does not begin a capture: the light goes on
\* only with the panel awake, and what is pending stays or is new.
LEMMA PollKeeps ==
    ASSUME Inv, alive, drv.action # "none", ~drv.capturing,
           UNCHANGED <<alive, job, outcome, finger, sensor, image, captured, desk, ui>>,
           mishaps' \in 0 .. MaxMishaps,
           drv' \in Driver, drv'.action = drv.action, drv'.current = drv.current, ~drv'.capturing,
           drv'.deadline \/ drv'.request # 0 => drv.deadline \/ drv.request # 0 \/ NewContact,
           touch' \in Touch, ~Fresh',
           drv'.inhibited => ~touch'.on, touch'.state = "pressed" => touch'.on,
           panel' \in Panel, Lamp', RefusedOn',
           lightFile' \in 0 .. MaxToken, tokens' \in 0 .. MaxToken, tokens <= tokens',
           drv'.request # 0 => drv'.request = tokens',
           lightFile' # 0 => lightFile' = tokens'
    PROVE  Inv'
<1>0. Typed /\ Power /\ Jobs /\ Own /\ Once
  BY DEF Inv
<1>1. DriverTyped'
  BY <1>0 DEF Typed, DriverTyped
<1>2. Power'
  BY <1>0 DEF Power
<1>3. Jobs'
  BY <1>0 DEF Jobs
<1>4. Own'
  BY <1>0 DEF Own
<1>5. Once'
  BY <1>0 DEF Once, Behind, NewContact, Fresh
<1> QED
  BY <1>0, <1>1, <1>2, <1>3, <1>4, <1>5, ReaderKeeps DEF Typed, WorldTyped

LEMMA InhibitKeeps ==
    ASSUME Inv, PollInhibits, UNCHANGED ui, mishaps' \in 0 .. MaxMishaps
    PROVE  Inv'
<1>0. Typed /\ Power /\ Lit
  BY DEF Inv
<1>1. CASE panel.awake
  <2>1. /\ alive /\ drv.action # "none" /\ ~drv.capturing /\ lightFile' = 0
        /\ panel' = FodMode(panel, FALSE) /\ touch' = FodEnable(touch, FALSE)
        /\ drv' = [drv EXCEPT !.inhibited = TRUE, !.deadline = FALSE, !.finger = FALSE, !.request = 0]
        /\ refused' = refused \cap On'
        /\ UNCHANGED <<alive, job, outcome, finger, sensor, image, captured, tokens, desk, ui>>
    BY <1>1 DEF PollInhibits, Polls, desk
  <2>2. touch' \in Touch /\ ~touch'.on /\ touch'.state # "pressed"
    BY <1>0, <2>1, Fod DEF Typed, DriverTyped, Power
  <2>3. panel' \in Panel /\ Lamp' /\ RefusedOn'
    BY <1>0, <2>1, DarkKeeps DEF Typed, DriverTyped
  <2>4. /\ drv' \in Driver /\ drv'.action = drv.action /\ drv'.current = drv.current
        /\ ~drv'.capturing /\ ~drv'.deadline /\ drv'.request = 0
    BY <1>0, <2>1, Bounds DEF Typed, DriverTyped, Driver
  <2>5. tokens' \in 0 .. MaxToken /\ tokens <= tokens' /\ lightFile' \in 0 .. MaxToken
    BY <1>0, <2>1, Bounds DEF Typed, DriverTyped
  <2>6. ~Fresh'
    BY <2>2 DEF Fresh, Pressed
  <2> QED
    BY <2>1, <2>2, <2>3, <2>4, <2>5, <2>6, PollKeeps
<1>2. CASE ~panel.awake
  BY <1>2, FailKeeps DEF PollInhibits
<1> QED
  BY <1>1, <1>2

LEMMA EnableKeeps ==
    ASSUME Inv, PollEnables, UNCHANGED ui, mishaps' \in 0 .. MaxMishaps
    PROVE  Inv'
<1>0. Typed /\ Power /\ Lit
  BY DEF Inv
<1>1. /\ alive /\ drv.action # "none" /\ ~drv.capturing /\ drv.inhibited
      /\ touch' = [FodEnable(touch, TRUE) EXCEPT !.news = FALSE]
      /\ refused' = refused \ {"touch"}
      /\ UNCHANGED <<alive, job, outcome, finger, panel, sensor, image, captured, lightFile,
                     tokens, desk, ui>>
  BY DEF PollEnables, Polls, desk
<1>2. ~touch.on /\ touch.state # "pressed"
  BY <1>0, <1>1 DEF Power
<1>3. FodEnable(touch, TRUE) \in Touch /\ FodEnable(touch, TRUE).state # "pressed" /\ touch' \in Touch
  BY <1>0, <1>1, <1>2, Fod DEF Typed, DriverTyped
<1>4. touch'.state # "pressed"
  BY <1>1, <1>3 DEF Touch
<1>5. /\ drv' \in Driver /\ drv'.action = drv.action /\ drv'.current = drv.current /\ ~drv'.inhibited
      /\ drv'.request = drv.request /\ (drv'.deadline <=> drv.deadline) /\ ~drv'.capturing
  <2>1. PICK b \in BOOLEAN : drv' = [drv EXCEPT !.inhibited = FALSE, !.finger = b]
    BY DEF PollEnables
  <2> QED
    BY <1>0, <1>1, <2>1 DEF Typed, DriverTyped, Driver
<1>6. tokens' \in 0 .. MaxToken /\ tokens <= tokens' /\ lightFile' \in 0 .. MaxToken
  BY <1>0, <1>1, Bounds DEF Typed, DriverTyped
<1>7. ~Fresh' /\ panel' \in Panel /\ Lamp' /\ RefusedOn'
  BY <1>0, <1>1, <1>4 DEF Fresh, Pressed, Typed, DriverTyped, Power, Lamp, RefusedOn
<1> QED
  BY <1>0, <1>1, <1>3, <1>4, <1>5, <1>6, <1>7, PollKeeps DEF Lit

\* A poll that only observes, or that also changes the light or the request.
LEMMA WatchKeeps ==
    ASSUME Inv, Watching, NEW d \in Driver, Observed(d),
           UNCHANGED <<alive, job, outcome, finger, sensor, image, captured, desk, ui>>,
           mishaps' \in 0 .. MaxMishaps,
           d.action = drv.action, d.current = drv.current, ~d.capturing,
           d.inhibited <=> drv.inhibited,
           d.deadline \/ d.request # 0 => drv.deadline \/ drv.request # 0 \/ NewContact,
           panel' \in Panel, Lamp', RefusedOn',
           lightFile' \in 0 .. MaxToken, tokens' \in 0 .. MaxToken, tokens <= tokens',
           d.request # 0 => d.request = tokens',
           lightFile' # 0 => lightFile' = tokens'
    PROVE  Inv'
<1>0. Typed /\ Power
  BY DEF Inv
<1>1. alive /\ drv.action # "none" /\ ~drv.capturing /\ ~drv.inhibited /\ touch.on
  BY DEF Watching, Polls
<1>2. /\ touch' \in Touch /\ ~touch'.news
      /\ touch'.on <=> touch.on
      /\ drv' \in Driver
      /\ drv'.action = d.action /\ drv'.request = d.request /\ drv'.current = d.current
      /\ drv'.inhibited <=> d.inhibited
      /\ drv'.deadline <=> d.deadline
      /\ drv'.capturing <=> d.capturing
  BY <1>0, Observes
<1>3. ~Fresh'
  BY <1>2 DEF Fresh
<1> QED
  BY <1>1, <1>2, <1>3, PollKeeps

\* Whichever of the polls it is, short of a capture.
LEMMA PollsKeep ==
    ASSUME Inv, PollRequests \/ PollObserves \/ PollReleased \/ PollLights \/ PollLightsBlindly,
           UNCHANGED ui, mishaps' \in 0 .. MaxMishaps
    PROVE  Inv'
<1>0. /\ Typed /\ Power /\ Lit /\ drv \in Driver /\ panel \in Panel
      /\ tokens \in 0 .. MaxToken /\ lightFile \in 0 .. MaxToken /\ tokens <= tokens
  BY Bounds DEF Inv, Typed, DriverTyped
<1>1. CASE PollRequests
  <2> DEFINE d == [drv EXCEPT !.request = tokens', !.deadline = TRUE]
  <2>1. /\ Watching /\ NewContact /\ tokens < MaxToken /\ tokens' = tokens + 1 /\ lightFile' = tokens'
        /\ Observed(d)
        /\ UNCHANGED <<alive, job, outcome, finger, panel, sensor, image, captured, refused, desk, ui>>
    BY <1>1 DEF PollRequests, desk
  <2>2. tokens' \in 0 .. MaxToken /\ tokens <= tokens'
    BY <1>0, <2>1, Bounds
  <2>3. /\ d \in Driver /\ d.action = drv.action /\ d.current = drv.current
        /\ (d.inhibited <=> drv.inhibited) /\ (d.capturing <=> drv.capturing) /\ d.request = tokens'
    BY <1>0, <2>2 DEF Driver
  <2>4. ~drv.capturing /\ Lamp' /\ RefusedOn' /\ panel' = panel
    BY <1>0, <2>1, <2>3, Observes, SameKeeps DEF Watching, Polls
  <2> HIDE DEF d
  <2> QED
    BY <1>0, <2>1, <2>2, <2>3, <2>4, WatchKeeps
<1>2. CASE PollObserves
  <2>1. /\ Watching /\ Observed(drv) /\ ~drv.capturing
        /\ UNCHANGED <<alive, job, outcome, finger, panel, sensor, image, captured, lightFile, tokens,
                       refused, desk, ui>>
    BY <1>2 DEF PollObserves, Watching, Polls, desk
  <2>2. Lamp' /\ RefusedOn'
    BY <1>0, <2>1, Observes, SameKeeps
  <2> QED
    BY <1>0, <2>1, <2>2, WatchKeeps DEF Lit
<1>3. CASE PollReleased /\ panel.awake
  <2> DEFINE d == [drv EXCEPT !.request = 0, !.deadline = FALSE]
  <2>1. /\ Watching /\ Observed(d) /\ panel' = FodMode(panel, FALSE) /\ lightFile' = 0
        /\ refused' = refused \cap On'
        /\ UNCHANGED <<alive, job, outcome, finger, sensor, image, captured, tokens, desk, ui>>
    BY <1>3 DEF PollReleased, desk
  <2>2. /\ d \in Driver /\ d.action = drv.action /\ d.current = drv.current /\ ~d.deadline
        /\ (d.inhibited <=> drv.inhibited) /\ (d.capturing <=> drv.capturing) /\ d.request = 0
    BY <1>0, Bounds DEF Driver
  <2>3. panel' \in Panel /\ Lamp' /\ RefusedOn' /\ ~drv.capturing
    BY <1>0, <2>1, DarkKeeps DEF Watching, Polls
  <2> HIDE DEF d
  <2> QED
    BY <1>0, <2>1, <2>2, <2>3, Bounds, WatchKeeps
<1>4. CASE PollLights /\ panel.awake
  <2> DEFINE d == [drv EXCEPT !.request = 0, !.deadline = TRUE]
  <2>1. /\ Watching /\ Observed(d) /\ panel' = FodMode(panel, TRUE) /\ drv.request # 0
        /\ refused' = refused \ {"light"}
        /\ UNCHANGED <<alive, job, outcome, finger, sensor, image, captured, lightFile, tokens,
                       desk, ui>>
    BY <1>4 DEF PollLights, desk
  <2>2. /\ d \in Driver /\ d.action = drv.action /\ d.current = drv.current
        /\ (d.inhibited <=> drv.inhibited) /\ (d.capturing <=> drv.capturing) /\ d.request = 0
    BY <1>0, Bounds DEF Driver
  <2>3. panel' \in Panel /\ Lamp' /\ RefusedOn' /\ ~drv.capturing
    <3>1. /\ panel' \in Panel /\ panel'.awake /\ panel'.hbm
          /\ panel'.lit <=> IF ~panel.hbm THEN TRUE ELSE panel.lit
      BY <1>0, <1>4, <2>1, Mode
    <3>2. touch'.on <=> touch.on
      BY <1>0, <2>1, <2>2, Observes
    <3> QED
      BY <1>0, <2>1, <3>1, <3>2 DEF Watching, Polls, Power, Lamp, RefusedOn
  <2> HIDE DEF d
  <2> QED
    BY <1>0, <2>1, <2>2, <2>3, WatchKeeps DEF Lit
<1>5. CASE (PollReleased \/ PollLights) /\ ~panel.awake
  BY <1>5, FailKeeps DEF PollReleased, PollLights
<1>6. CASE PollLightsBlindly
  <2> DEFINE p == [panel EXCEPT !.lit = TRUE]
  <2>1. PICK failing \in SUBSET On : Cleanup(p, failing \cup {"light"})
    BY <1>6 DEF PollLightsBlindly
  <2>2. failing \cup {"light"} \in SUBSET Devices
    BY DEF On, Devices
  <2>3. p \in Panel /\ p.lit /\ p.awake /\ Failed
    BY <1>0, <1>6 DEF PollLightsBlindly, Panel
  <2> HIDE DEF p
  <2> QED
    BY <2>1, <2>2, <2>3, FailedTyped, EndKeeps
<1> QED
  BY <1>1, <1>2, <1>3, <1>4, <1>5, <1>6

------------------------------------------------------------------------------
(* Captures. *)

LEMMA CaptureKeeps ==
    ASSUME Inv, PollCaptures, UNCHANGED ui, mishaps' \in 0 .. MaxMishaps
    PROVE  Inv'
<1> DEFINE d == [drv EXCEPT !.deadline = FALSE, !.capturing = TRUE]
<1>0. Typed /\ Power /\ Jobs /\ Own /\ Once /\ Lit /\ drv \in Driver /\ finger \in Finger
  BY DEF Inv, Typed, DriverTyped, WorldTyped
<1>1. /\ Watching /\ drv.request = 0 /\ drv.deadline /\ Observed(d)
      /\ image' = finger.owner /\ captured' = captured \cup {<<finger.press, drv.current>>}
      /\ UNCHANGED <<alive, job, outcome, finger, panel, sensor, lightFile, tokens, refused, desk, ui>>
  BY DEF PollCaptures, desk
<1>2. /\ d \in Driver /\ d.action = drv.action /\ d.current = drv.current /\ d.request = 0
      /\ (d.inhibited <=> drv.inhibited) /\ d.capturing /\ ~d.deadline
  BY <1>0, <1>1 DEF Driver
<1> HIDE DEF d
<1>3. alive /\ drv.action # "none" /\ ~drv.inhibited /\ touch.on
  BY <1>1 DEF Watching, Polls
<1>4. /\ touch' \in Touch /\ ~touch'.news /\ (touch'.on <=> touch.on)
      /\ drv' \in Driver
      /\ drv'.action = drv.action /\ drv'.request = 0 /\ drv'.current = drv.current
      /\ ~drv'.inhibited /\ ~drv'.deadline /\ drv'.capturing
  BY <1>0, <1>1, <1>2, <1>3, Observes
<1>5. finger.owner \in Owners /\ finger.press \in 0 .. MaxPress /\ drv.current \in 0 .. Len(Gallery)
  BY <1>0 DEF Finger, Driver
<1>6. DriverTyped'
  BY <1>0, <1>1, <1>4, <1>5 DEF Typed, DriverTyped
<1>7. Power' /\ Jobs' /\ Own'
  <2>1. Lamp' /\ RefusedOn'
    BY <1>0, <1>1, <1>4, SameKeeps
  <2> QED
    BY <1>0, <1>1, <1>3, <1>4, <2>1 DEF Power, Jobs, Own
<1>8. Once'
  <2>1. finger.press <= finger.press /\ \A e \in 0 .. Len(Gallery) : e > drv.current => e >= drv.current
    BY <1>5, Bounds
  <2>2. \A c \in captured' : c[1] <= finger.press
    BY <1>0, <1>1, <2>1 DEF Once
  <2>3. \A e \in 0 .. Len(Gallery) : e > drv.current => Behind(e) /\ e # drv.current
    BY <1>0, <1>1, <1>5, <2>1, Bounds DEF Once
  <2>4. \A e \in 0 .. Len(Gallery) : e > drv.current => <<finger.press, e>> \notin captured'
    BY <1>1, <2>3 DEF Behind
  <2>5. ~Fresh'
    BY <1>4 DEF Fresh
  <2> QED
    BY <1>1, <1>4, <2>2, <2>4, <2>5 DEF Once, Behind
<1>9. captured' \subseteq (0 .. MaxPress) \X (0 .. Len(Gallery))
  BY <1>0, <1>1, <1>5 DEF Typed, WorldTyped
<1>10. tokens \in Nat /\ tokens <= tokens'
  BY <1>0, <1>1, Bounds DEF Typed, DriverTyped
<1> QED
  BY <1>0, <1>1, <1>4, <1>6, <1>7, <1>8, <1>9, <1>10, ReaderKeeps DEF Lit

\* The driver goes on after a capture: for the next sample of an enrolment, or
\* for the next entry of a match.
LEMMA GoOnKeeps ==
    ASSUME Inv, drv.capturing,
           UNCHANGED <<alive, job, outcome, touch, finger, sensor, captured, tokens, desk, ui>>,
           mishaps' \in 0 .. MaxMishaps,
           drv' \in Driver, drv'.action = drv.action, ~drv'.capturing, drv'.request = 0,
           drv'.inhibited <=> drv.inhibited, drv'.finger <=> drv.finger,
           drv'.deadline => drv'.current = drv.current + 1,
           panel' \in Panel, Lamp', RefusedOn',
           image' = 0, lightFile' \in {0, lightFile}
    PROVE  Inv'
<1>0. Typed /\ Power /\ Jobs /\ Own /\ Once /\ Lit
  BY DEF Inv
<1>1. drv.action # "none" /\ tokens \in Nat /\ drv.current \in Nat
  BY <1>0, Bounds DEF Jobs, Typed, DriverTyped, Driver
<1>2. DriverTyped'
  BY <1>0, Bounds DEF Typed, DriverTyped
<1>3. Power' /\ Jobs'
  BY <1>0, <1>1 DEF Power, Jobs
<1>4. Own'
  BY <1>0 DEF Own
<1>5. Once'
  <2>1. drv'.deadline => \A e \in 0 .. Len(Gallery) : e >= drv'.current => e > drv.current
    BY <1>1, Bounds
  <2>2. Fresh' <=> Fresh
    BY DEF Fresh, Pressed
  <2> QED
    BY <1>0, <2>1, <2>2 DEF Once, Behind
<1>6. lightFile' # 0 => lightFile' = tokens'
  BY <1>0, <1>1 DEF Lit
<1>7. tokens <= tokens'
  BY <1>1
<1> QED
  BY <1>0, <1>2, <1>3, <1>4, <1>5, <1>6, <1>7, ReaderKeeps DEF Typed, WorldTyped

\* Every end of a capture.
LEMMA CaptureEndKeeps ==
    ASSUME Inv, CaptureEnds, UNCHANGED ui, mishaps' \in 0 .. MaxMishaps
    PROVE  Inv'
<1>0. Typed /\ Power /\ Jobs /\ drv \in Driver /\ panel \in Panel
  BY DEF Inv, Typed, DriverTyped
<1>1. CASE CaptureFails
  BY <1>1, FailKeeps DEF CaptureFails
<1>2. CASE EnrollContinues
  <2>1. /\ drv.capturing /\ drv' = [drv EXCEPT !.capturing = FALSE, !.request = 0] /\ panel.awake
        /\ panel' = FodMode(panel, FALSE) /\ lightFile' = 0 /\ image' = 0
        /\ refused' = refused \cap On'
        /\ UNCHANGED <<alive, job, outcome, touch, finger, sensor, captured, tokens, desk, ui>>
    BY <1>2 DEF EnrollContinues, Captures, desk
  <2>2. panel' \in Panel /\ Lamp' /\ RefusedOn'
    BY <1>0, <2>1, DarkKeeps
  <2>3. ~drv.deadline
    BY <1>0, <2>1 DEF Jobs
  <2>4. /\ drv' \in Driver /\ drv'.action = drv.action /\ ~drv'.capturing /\ drv'.request = 0
        /\ (drv'.inhibited <=> drv.inhibited) /\ (drv'.finger <=> drv.finger) /\ ~drv'.deadline
    BY <1>0, <2>1, <2>3, Bounds DEF Driver
  <2> QED
    BY <2>1, <2>2, <2>4, GoOnKeeps
<1>3. CASE MatchNext
  <2>1. /\ drv.capturing /\ drv.current < Len(Gallery) /\ image' = 0
        /\ drv' = [drv EXCEPT !.current = drv.current + 1, !.capturing = FALSE, !.deadline = TRUE]
        /\ UNCHANGED <<alive, job, outcome, touch, finger, panel, sensor, captured, lightFile, tokens,
                       refused, desk, ui>>
    BY <1>0, <1>3 DEF MatchNext, Captures, desk, Driver
  <2>2. drv.request = 0
    BY <1>0, <2>1 DEF Jobs
  <2>3. drv.current + 1 \in 0 .. Len(Gallery)
    BY <1>0, <2>1, Bounds DEF Driver
  <2>4. /\ drv' \in Driver /\ drv'.action = drv.action /\ ~drv'.capturing /\ drv'.request = 0
        /\ (drv'.inhibited <=> drv.inhibited) /\ (drv'.finger <=> drv.finger)
        /\ drv'.current = drv.current + 1
    BY <1>0, <2>1, <2>2, <2>3 DEF Driver
  <2>5. panel' \in Panel /\ Lamp' /\ RefusedOn' /\ lightFile' \in {0, lightFile}
    BY <1>0, <2>1, SameKeeps
  <2> QED
    BY <2>1, <2>4, <2>5, GoOnKeeps
<1>4. CASE EnrollCompletes \/ MatchRetries \/ MatchExhausted
  <2>1. PICK what \in {"retry", "enrolled", "no match"} : Report(what, 0)
    BY <1>4 DEF EnrollCompletes, MatchRetries, MatchExhausted
  <2>2. /\ CleansUp /\ drv.action # "none"
        /\ UNCHANGED <<alive, finger, captured, tokens, desk, ui>>
    BY <1>4 DEF EnrollCompletes, MatchRetries, MatchExhausted, Captures
  <2>3. what # "match" /\ what \in {"retry", "enrolled", "no match", "match"}
    OBVIOUS
  <2> QED
    BY <2>1, <2>2, <2>3, Bounds, ResultKeeps
<1>5. CASE MatchFound
  <2>1. /\ CleansUp /\ drv.action = "match" /\ image = drv.current
        /\ Report("match", MatchOf(Gallery[drv.current]))
        /\ UNCHANGED <<alive, finger, captured, tokens, desk, ui>>
    BY <1>5 DEF MatchFound, Captures
  <2>2. MatchOf(Gallery[drv.current]) = drv.current
    BY DEF MatchOf
  <2>3. drv.current \in Owners /\ "match" \in {"retry", "enrolled", "no match", "match"}
    BY <1>0 DEF Driver, Owners
  <2> QED
    BY <2>1, <2>2, <2>3, ResultKeeps
<1> QED
  BY <1>1, <1>2, <1>3, <1>4, <1>5 DEF CaptureEnds

\* The reader's steps.
LEMMA ReaderStepKeeps ==
    ASSUME Inv, Reader, UNCHANGED ui, mishaps' \in 0 .. MaxMishaps
    PROVE  Inv'
<1>1. CASE Poll
  BY <1>1, InhibitKeeps, EnableKeeps, PollsKeep, CaptureKeeps, FailKeeps
     DEF Poll, PollFindsTouchOff, PollTimesOut
<1>2. CASE PollFails
  BY <1>2, FailKeeps DEF PollFails
<1> QED
  BY <1>1, <1>2, BeginKeeps, BeginFailKeeps, CaptureEndKeeps, RestartKeeps DEF Reader

------------------------------------------------------------------------------
(* The finger, the hardware and the death of fprintd. *)

\* What happens to the hardware beside the driver: nothing is lit by it.
LEMMA WorldKeeps ==
    ASSUME Inv, UNCHANGED <<alive, drv, job, outcome, image, lightFile, tokens, desk, ui>>,
           touch' \in Touch, touch'.on => touch.on, touch'.state = "pressed" => touch'.on,
           panel' \in Panel, Lamp', RefusedOn', OnRefused => OnRefused',
           sensor' \in BOOLEAN, finger' \in Finger,
           mishaps' \in 0 .. MaxMishaps, captured' = captured, Once'
    PROVE  Inv'
<1>0. Typed /\ Power /\ Jobs /\ Own /\ Lit
  BY DEF Inv
<1>1. Typed'
  BY <1>0 DEF Typed, DriverTyped, WorldTyped, desk, ui
<1>2. Power'
  BY <1>0 DEF Power
<1>3. Jobs' /\ Own' /\ Lit'
  BY <1>0 DEF Jobs, Own, Lit, desk, ui
<1> QED
  BY <1>1, <1>2, <1>3 DEF Inv

LEMMA PressKeeps ==
    ASSUME Inv, Press, UNCHANGED ui, mishaps' \in 0 .. MaxMishaps
    PROVE  Inv'
<1>0. Typed /\ Power /\ Once /\ touch \in Touch /\ panel \in Panel /\ finger \in Finger
  BY DEF Inv, Typed, DriverTyped, WorldTyped
<1>1. /\ finger.press < MaxPress
      /\ UNCHANGED <<alive, drv, job, outcome, panel, sensor, image, captured, lightFile, tokens, refused,
                     desk, ui>>
  BY DEF Press, desk
<1>2. PICK owner \in Owners :
        finger' = [down |-> TRUE, press |-> finger.press + 1, owner |-> owner]
  BY DEF Press
<1>3. finger.press \in Nat /\ finger.press + 1 \in 0 .. MaxPress /\ ~(finger.press + 1 <= finger.press)
  BY <1>0, <1>1, Bounds DEF Finger
<1>4. finger' \in Finger /\ finger'.press = finger.press + 1
  BY <1>2, <1>3 DEF Finger
<1>5. touch' \in Touch /\ (touch'.on <=> touch.on) /\ (touch'.state = "pressed" => touch'.on)
  <2>1. CASE touch.on
    <3>1. touch' = [touch EXCEPT !.state = "pressed", !.news = TRUE, !.held = TRUE]
      BY <2>1 DEF Press
    <3> QED
      BY <1>0, <2>1, <3>1 DEF Touch
  <2>2. CASE ~touch.on
    <3>1. touch' = [touch EXCEPT !.held = FALSE]
      BY <2>2 DEF Press
    <3> QED
      BY <1>0, <2>2, <3>1 DEF Touch, Power
  <2> QED
    BY <2>1, <2>2
<1>6. Once'
  <2>1. \A e \in 0 .. Len(Gallery) : <<finger.press + 1, e>> \notin captured
    <3> SUFFICES ASSUME NEW e \in 0 .. Len(Gallery), <<finger.press + 1, e>> \in captured PROVE FALSE
      OBVIOUS
    <3>1. <<finger.press + 1, e>>[1] <= finger.press
      BY <1>0 DEF Once
    <3> QED
      BY <1>3, <3>1
  <2>2. \A c \in captured : c[1] <= finger.press + 1
    <3>1. \A c \in captured : c[1] \in Nat /\ c[1] <= finger.press
      BY <1>0, Bounds DEF Typed, WorldTyped, Once
    <3> QED
      BY <1>3, <3>1
  <2> QED
    BY <1>1, <1>4, <2>1, <2>2 DEF Once, Behind
<1>7. Lamp' /\ RefusedOn' /\ (OnRefused => OnRefused')
  BY <1>0, <1>1, <1>5, SameKeeps DEF OnRefused
<1> QED
  BY <1>0, <1>1, <1>4, <1>5, <1>6, <1>7, WorldKeeps DEF Typed, DriverTyped, WorldTyped

LEMMA ReleaseKeeps ==
    ASSUME Inv, Release, UNCHANGED ui, mishaps' \in 0 .. MaxMishaps
    PROVE  Inv'
<1>0. Typed /\ Power /\ Once /\ touch \in Touch /\ panel \in Panel /\ finger \in Finger
  BY DEF Inv, Typed, DriverTyped, WorldTyped
<1>1. /\ finger' = [finger EXCEPT !.down = FALSE, !.owner = 0]
      /\ UNCHANGED <<alive, drv, job, outcome, panel, sensor, image, captured, lightFile, tokens, refused,
                     desk, ui>>
  BY DEF Release, desk
<1>2. finger' \in Finger /\ finger'.press = finger.press
  BY <1>0, <1>1, Bounds DEF Finger
<1>3. /\ touch' \in Touch /\ (touch'.on <=> touch.on)
      /\ touch'.state = "pressed" => touch.state = "pressed" /\ (touch'.news <=> touch.news)
  <2>1. CASE touch' = [touch EXCEPT !.state = "released", !.news = TRUE, !.held = FALSE]
    BY <1>0, <2>1 DEF Touch
  <2>2. CASE touch' = [touch EXCEPT !.held = FALSE]
    BY <1>0, <2>2 DEF Touch
  <2> QED
    BY <2>1, <2>2 DEF Release
<1>4. Once'
  BY <1>0, <1>1, <1>2, <1>3 DEF Once, Behind, Fresh, Pressed
<1>5. Lamp' /\ RefusedOn' /\ (OnRefused => OnRefused')
  BY <1>0, <1>1, <1>3, SameKeeps DEF OnRefused
<1> QED
  BY <1>0, <1>1, <1>2, <1>3, <1>4, <1>5, WorldKeeps DEF Typed, DriverTyped, WorldTyped, Power

\* The panel alone: its watchdog, or the display is switched.
LEMMA PanelKeeps ==
    ASSUME Inv, panel' \in Panel, Lamp', mishaps' \in 0 .. MaxMishaps,
           refused' \in {refused \cup {"light"}, refused \ {"light"}},
           "light" \in refused' <=> panel'.lit,
           UNCHANGED <<alive, drv, job, outcome, touch, finger, sensor, image, captured, lightFile,
                       tokens, desk, ui>>
    PROVE  Inv'
<1>0. Typed /\ Power /\ Once
  BY DEF Inv
<1>1. Once'
  BY <1>0 DEF Once, Behind, Fresh, Pressed
<1>2. RefusedOn' /\ (OnRefused => OnRefused')
  BY <1>0 DEF Power, RefusedOn, OnRefused, Devices
<1> QED
  BY <1>0, <1>1, <1>2, WorldKeeps DEF Typed, DriverTyped, WorldTyped, Power

LEMMA SuspendKeeps ==
    ASSUME Inv, Suspend, UNCHANGED ui, mishaps' \in 0 .. MaxMishaps
    PROVE  Inv'
<1>0. Typed /\ Power /\ Once /\ touch \in Touch /\ panel \in Panel
  BY DEF Inv, Typed, DriverTyped, WorldTyped
<1>1. /\ panel' = [panel EXCEPT !.hbm = FALSE, !.lit = FALSE] /\ sensor' = FALSE /\ refused' = {}
      /\ touch' \in {[FodEnable(touch, FALSE) EXCEPT !.held = FALSE], [touch EXCEPT !.held = FALSE]}
      /\ touch.on => touch' = [FodEnable(touch, FALSE) EXCEPT !.held = FALSE]
      /\ UNCHANGED <<alive, drv, job, outcome, finger, image, captured, lightFile, tokens, desk, ui>>
  BY DEF Suspend, desk
<1>2. /\ FodEnable(touch, FALSE) \in Touch
      /\ ~FodEnable(touch, FALSE).on /\ FodEnable(touch, FALSE).state # "pressed"
  BY <1>0, Fod DEF Power
<1>3. touch' \in Touch /\ ~touch'.on /\ touch'.state # "pressed"
  <2>1. ASSUME NEW t \in Touch, t.state # "pressed", touch' = [t EXCEPT !.held = FALSE]
        PROVE  touch' \in Touch /\ (touch'.on <=> t.on) /\ touch'.state # "pressed"
    BY <2>1 DEF Touch
  <2>2. CASE touch.on
    <3>1. touch' = [FodEnable(touch, FALSE) EXCEPT !.held = FALSE]
      BY <1>1, <2>2
    <3> QED
      BY <1>2, <2>1, <3>1
  <2>3. CASE ~touch.on
    <3>1. touch.state # "pressed"
      BY <1>0, <2>3 DEF Power
    <3>2. CASE touch' = [touch EXCEPT !.held = FALSE]
      BY <1>0, <2>1, <2>3, <3>1, <3>2
    <3>3. CASE touch' = [FodEnable(touch, FALSE) EXCEPT !.held = FALSE]
      <4>1. touch' \in Touch /\ (touch'.on <=> FodEnable(touch, FALSE).on) /\ touch'.state # "pressed"
        BY <1>2, <2>1, <3>3
      <4> QED
        BY <1>2, <4>1
    <3> QED
      BY <1>1, <3>2, <3>3
  <2> QED
    BY <2>2, <2>3
<1>4. panel' \in Panel /\ Lamp' /\ RefusedOn' /\ OnRefused'
  <2>1. panel' \in Panel /\ ~panel'.hbm /\ ~panel'.lit
    BY <1>0, <1>1 DEF Panel
  <2> QED
    BY <1>1, <1>3, <2>1 DEF Lamp, RefusedOn, OnRefused
<1>5. Once'
  BY <1>0, <1>1, <1>3 DEF Once, Behind, Fresh, Pressed
<1> QED
  BY <1>0, <1>1, <1>3, <1>4, <1>5, WorldKeeps DEF Typed, WorldTyped

LEMMA CrashKeeps ==
    ASSUME Inv, Crash, UNCHANGED ui, mishaps' \in 0 .. MaxMishaps
    PROVE  Inv'
<1>0. Typed /\ Power /\ Jobs /\ Once /\ Lit
  BY DEF Inv
<1>1. /\ ~alive' /\ alive' \in BOOLEAN /\ drv' = Idle /\ outcome' = NoOutcome /\ image' = 0
      /\ UNCHANGED <<job, touch, finger, panel, sensor, captured, lightFile, tokens, refused, desk, ui>>
  BY DEF Crash, desk
<1>2. Typed'
  BY <1>0, <1>1, IdleTyped, NoOutcomeTyped, Bounds DEF Typed, DriverTyped, WorldTyped, desk, ui
<1>3. Power'
  BY <1>0, <1>1, IdleTyped DEF Power, Lamp, RefusedOn
<1>4. Jobs'
  BY <1>0, <1>1, IdleTyped DEF Jobs
<1>5. Own'
  BY <1>1, NoOutcomeTyped DEF Own
<1>6. Once'
  BY <1>0, <1>1, IdleTyped DEF Once, Behind, Fresh, Pressed
<1>7. Lit'
  BY <1>0, <1>1, IdleTyped DEF Lit, desk, ui
<1> QED
  BY <1>2, <1>3, <1>4, <1>5, <1>6, <1>7 DEF Inv

------------------------------------------------------------------------------
(* Shell and broker. *)

\* They write no more than their own files and what they say to each other.
LEMMA DeskKeeps ==
    ASSUME Inv, UNCHANGED readerVars, WorldTyped',
           presented' <= shell'.painted, frame' <= shell'.painted, shell'.painted <= tokens
    PROVE  Inv'
<1>0. Typed /\ Power /\ Jobs /\ Own /\ Once /\ Lit
  BY DEF Inv
<1>1. UNCHANGED <<alive, drv, job, outcome, touch, finger, panel, sensor, image, captured, lightFile, tokens, refused>>
  BY DEF readerVars
<1>2. Typed'
  BY <1>0, <1>1 DEF Typed, DriverTyped
<1>3. Power' /\ Jobs' /\ Own'
  BY <1>0, <1>1 DEF Power, Lamp, RefusedOn, OnRefused, Jobs, Own
<1>4. Once'
  BY <1>0, <1>1 DEF Once, Behind, Fresh, Pressed
<1>5. Lit'
  BY <1>0, <1>1 DEF Lit
<1> QED
  BY <1>2, <1>3, <1>4, <1>5 DEF Inv

LEMMA NewShellTyped == NewShell \in Shell /\ NewShell.painted = 0
BY Bounds DEF NewShell, Shell

LEMMA DesktopKeeps ==
    ASSUME Inv, Desktop, UNCHANGED mishaps
    PROVE  Inv'
<1>0. /\ Typed /\ Lit /\ shell \in Shell /\ tokens \in Nat /\ presented \in 0 .. MaxToken
      /\ lightFile \in 0 .. MaxToken /\ frame \in 0 .. MaxToken /\ mishaps \in 0 .. MaxMishaps
      /\ lease \in {"none", "blocked", "ready"} /\ pulse \in {"none", "ready", "blocked"}
      /\ finger \in Finger /\ captured \subseteq (0 .. MaxPress) \X (0 .. Len(Gallery))
  BY Bounds DEF Inv, Typed, DriverTyped, WorldTyped
<1>1. CASE ShellPoll
  <2>1. PICK shade \in BOOLEAN, token \in 0 .. MaxToken, painting \in 0 .. MaxToken :
          shell' = [shell EXCEPT !.shade = shade, !.token = token, !.painting = painting]
    <3>1. Asked \in 0 .. MaxToken /\ (panel.hbm \/ Asked # 0) \in BOOLEAN
      BY <1>0, Bounds DEF Asked
    <3>2. shell.painting \in 0 .. MaxToken
      BY <1>0 DEF Shell
    <3> QED
      BY <1>0, <1>1, <3>1, <3>2 DEF ShellPoll
  <2>2. shell' \in Shell /\ shell'.painted = shell.painted
    BY <1>0, <2>1 DEF Shell
  <2>3. pulse' \in {"none", "ready", "blocked"} /\ UNCHANGED <<readerVars, desk, frame>>
    BY <1>0, <1>1 DEF ShellPoll, Availability
  <2> QED
    BY <1>0, <2>2, <2>3, DeskKeeps DEF WorldTyped, readerVars, desk, Lit
<1>2. CASE Painted
  <2>1. UNCHANGED <<readerVars, desk, pulse>>
    BY <1>2 DEF Painted
  <2>2. CASE frame' = frame /\ shell' = [shell EXCEPT !.painting = 0]
    <3>1. shell' \in Shell /\ shell'.painted = shell.painted
      BY <1>0, <2>2, Bounds DEF Shell
    <3> QED
      BY <1>0, <2>1, <2>2, <3>1, DeskKeeps DEF WorldTyped, readerVars, desk, Lit
  <2>3. CASE /\ frame' = shell.painting /\ shell.painting # 0 /\ shell.painting = lightFile
             /\ shell' = [shell EXCEPT !.painting = 0, !.painted = shell.painting]
    <3>1. shell' \in Shell /\ shell'.painted = shell.painting /\ shell.painting \in 0 .. MaxToken
      BY <1>0, <2>3, Bounds DEF Shell
    <3>2. shell.painting = tokens
      BY <1>0, <2>3 DEF Lit
    <3>3. presented <= tokens /\ tokens <= tokens
      BY <1>0, Bounds DEF Lit, Shell
    <3> QED
      BY <1>0, <2>1, <2>3, <3>1, <3>2, <3>3, DeskKeeps DEF WorldTyped, readerVars, desk
  <2> QED
    BY <1>2, <2>2, <2>3 DEF Painted
<1>3. CASE BrokerPulse
  <2>1. PICK b \in BOOLEAN : shell' = [shell EXCEPT !.ready = b]
    BY <1>3 DEF BrokerPulse
  <2>2. shell' \in Shell /\ shell'.painted = shell.painted
    BY <1>0, <2>1 DEF Shell
  <2>3. /\ lease' \in {"none", "ready", "blocked"} /\ presented' \in {0, presented} /\ pulse' = "none"
        /\ UNCHANGED <<readerVars, frame>>
    BY <1>0, <1>3 DEF BrokerPulse
  <2>4. presented' \in 0 .. MaxToken /\ presented' <= shell.painted
    <3>1. shell.painted \in Nat /\ 0 <= shell.painted
      BY <1>0, Bounds DEF Shell
    <3> QED
      BY <1>0, <2>3, <3>1, Bounds DEF Lit
  <2> QED
    BY <1>0, <2>2, <2>3, <2>4, DeskKeeps DEF WorldTyped, readerVars, Lit
<1>4. CASE BrokerPresented
  <2>1. /\ frame' = 0 /\ presented' \in {frame, presented}
        /\ UNCHANGED <<readerVars, lease, shell, pulse>>
    BY <1>4 DEF BrokerPresented
  <2>2. 0 <= shell.painted
    BY <1>0, Bounds DEF Shell
  <2> QED
    BY <1>0, <2>1, <2>2, Bounds, DeskKeeps DEF WorldTyped, readerVars, Lit
<1> QED
  BY <1>1, <1>2, <1>3, <1>4 DEF Desktop

LEMMA MishapKeeps == Inv /\ Mishap => Inv'
<1> SUFFICES ASSUME Inv, Mishap PROVE Inv'
  OBVIOUS
<1>0. /\ Typed /\ Lit /\ shell \in Shell /\ tokens \in Nat /\ presented \in 0 .. MaxToken
      /\ panel \in Panel /\ frame \in 0 .. MaxToken
      /\ lease \in {"none", "blocked", "ready"} /\ pulse \in {"none", "ready", "blocked"}
      /\ finger \in Finger /\ captured \subseteq (0 .. MaxPress) \X (0 .. Len(Gallery))
  BY Bounds DEF Inv, Typed, DriverTyped, WorldTyped
<1>a. mishaps' \in 0 .. MaxMishaps
  <2>1. mishaps < MaxMishaps /\ mishaps' = mishaps + 1
    BY DEF Mishap
  <2> QED
    BY <1>0, <2>1, Bounds DEF Typed, WorldTyped
<1>b. 0 <= shell.painted
  BY <1>0, Bounds DEF Shell
<1>1. CASE Keyboard
  <2>1. shell' = [shell EXCEPT !.covered = ~@] /\ UNCHANGED <<readerVars, desk, pulse, frame>>
    BY <1>1 DEF Keyboard
  <2>2. shell' \in Shell /\ shell'.painted = shell.painted
    BY <1>0, <2>1 DEF Shell
  <2> QED
    BY <1>0, <1>a, <2>1, <2>2, DeskKeeps DEF WorldTyped, readerVars, desk, Lit
<1>2. CASE PulseRefused
  <2>1. /\ pulse' = "none" /\ shell' = [shell EXCEPT !.ready = FALSE] /\ UNCHANGED <<readerVars, desk, frame>>
    BY <1>2 DEF PulseRefused
  <2>2. shell' \in Shell /\ shell'.painted = shell.painted
    BY <1>0, <2>1 DEF Shell
  <2> QED
    BY <1>0, <1>a, <2>1, <2>2, DeskKeeps DEF WorldTyped, readerVars, desk, Lit
<1>3. CASE PresentedRefused
  <2>1. /\ frame' = 0 /\ shell' = [shell EXCEPT !.token = 0] /\ UNCHANGED <<readerVars, desk, pulse>>
    BY <1>3 DEF PresentedRefused
  <2>2. shell' \in Shell /\ shell'.painted = shell.painted
    BY <1>0, <2>1, Bounds DEF Shell
  <2> QED
    BY <1>0, <1>a, <1>b, <2>1, <2>2, Bounds, DeskKeeps DEF WorldTyped, readerVars, desk, Lit
<1>4. CASE LeaseLapses
  <2>1. /\ lease' = "none" /\ presented' = 0 /\ shell' = [shell EXCEPT !.ready = FALSE]
        /\ UNCHANGED <<readerVars, pulse, frame>>
    BY <1>4 DEF LeaseLapses
  <2>2. shell' \in Shell /\ shell'.painted = shell.painted
    BY <1>0, <2>1 DEF Shell
  <2> QED
    BY <1>0, <1>a, <1>b, <2>1, <2>2, Bounds, DeskKeeps DEF WorldTyped, readerVars, Lit
<1>5. CASE ShellRestarts
  <2>1. /\ lease' = "none" /\ presented' = 0 /\ shell' = NewShell /\ pulse' = "none" /\ frame' = 0
        /\ UNCHANGED readerVars
    BY <1>5 DEF ShellRestarts
  <2>2. 0 <= tokens /\ 0 <= 0
    BY <1>0
  <2> QED
    BY <1>0, <1>a, <2>1, <2>2, Bounds, NewShellTyped, DeskKeeps DEF WorldTyped, readerVars
<1>6. CASE (Crash \/ Blank \/ Suspend) /\ UNCHANGED ui
  <2>1. CASE Blank
    <3>1. panel' = [awake |-> ~panel.awake, hbm |-> FALSE, lit |-> FALSE] /\ refused' = refused \ {"light"}
      BY <2>1 DEF Blank
    <3>2. panel' \in Panel /\ ~panel'.hbm /\ ~panel'.lit
      BY <3>1 DEF Panel
    <3>4. Lamp' /\ ("light" \in refused' <=> panel'.lit)
      BY <3>1, <3>2 DEF Lamp
    <3>3. UNCHANGED <<alive, drv, job, outcome, touch, finger, sensor, image, captured, lightFile,
                      tokens, desk, ui>>
      BY <1>6, <2>1 DEF Blank, desk
    <3> QED
      BY <1>a, <3>1, <3>2, <3>3, <3>4, PanelKeeps
  <2> QED
    BY <1>6, <1>a, <2>1, CrashKeeps, SuspendKeeps
<1> QED
  BY <1>1, <1>2, <1>3, <1>4, <1>5, <1>6 DEF Mishap

LEMMA HardwareKeeps ==
    ASSUME Inv, Hardware, UNCHANGED ui, mishaps' \in 0 .. MaxMishaps
    PROVE  Inv'
<1>1. CASE Watchdog
  <2>1. panel.hbm /\ UNCHANGED <<alive, drv, job, outcome, touch, finger, sensor, image, captured,
                                 lightFile, tokens, desk, ui>>
    BY <1>1 DEF Watchdog, desk
  <2>2. panel \in Panel /\ panel.lit /\ panel.awake
    BY <2>1 DEF Inv, Typed, DriverTyped, Power, Lamp
  <2>3. CASE panel' = FodMode(panel, FALSE) /\ refused' = refused \ {"light"}
    <3>1. panel' \in Panel /\ ~panel'.hbm /\ ~panel'.lit
      BY <2>1, <2>2, <2>3, Mode
    <3>2. Lamp' /\ ("light" \in refused' <=> panel'.lit)
      BY <2>3, <3>1 DEF Lamp
    <3> QED
      BY <2>1, <2>3, <3>1, <3>2, PanelKeeps
  <2>4. CASE panel' = [panel EXCEPT !.hbm = FALSE] /\ refused' = refused \cup {"light"}
    <3>1. panel' \in Panel /\ ~panel'.hbm /\ panel'.lit /\ panel'.awake
      BY <2>2, <2>4 DEF Panel
    <3>2. Lamp' /\ ("light" \in refused' <=> panel'.lit)
      BY <2>4, <3>1 DEF Lamp
    <3> QED
      BY <2>1, <2>4, <3>1, <3>2, PanelKeeps
  <2> QED
    BY <1>1, <2>3, <2>4 DEF Watchdog
<1> QED
  BY <1>1, PressKeeps, ReleaseKeeps DEF Hardware

------------------------------------------------------------------------------
(* The theorems. *)

LEMMA Begins == Init => Inv
<1> SUFFICES ASSUME Init PROVE Inv
  OBVIOUS
<1>0. /\ alive = TRUE /\ drv = Idle /\ job = 0 /\ outcome = NoOutcome /\ sensor = FALSE
      /\ touch = [on |-> FALSE, state |-> "idle", news |-> FALSE, held |-> FALSE]
      /\ finger = [down |-> FALSE, press |-> 0, owner |-> 0]
      /\ panel = [awake |-> TRUE, hbm |-> FALSE, lit |-> FALSE] /\ refused = {}
      /\ image = 0 /\ captured = {} /\ lightFile = 0 /\ tokens = 0 /\ lease = "none" /\ presented = 0
      /\ shell = NewShell /\ pulse = "none" /\ frame = 0 /\ mishaps = 0
  BY DEF Init, ReaderInit
<1>1. /\ touch \in Touch /\ ~touch.on /\ touch.state = "idle" /\ panel \in Panel /\ ~panel.hbm /\ ~panel.lit
  BY <1>0 DEF Touch, Panel
<1>2. finger \in Finger
  <2>1. 0 \in 0 .. MaxPress
    BY Bounds
  <2> QED
    BY <1>0, <2>1, Bounds DEF Finger
<1>3. 0 \in 0 .. MaxMishaps
  BY Bounds
<1>4. Typed
  BY <1>0, <1>1, <1>2, <1>3, IdleTyped, NoOutcomeTyped, NewShellTyped, Bounds
     DEF Typed, DriverTyped, WorldTyped
<1>5. Power /\ Own
  BY <1>0, <1>1, IdleTyped, NoOutcomeTyped DEF Power, Lamp, RefusedOn, OnRefused, Own
<1>6. Jobs
  <2>1. job = 0 /\ 0 <= 1
    BY <1>0
  <2> QED
    BY <1>0, <2>1, IdleTyped DEF Jobs
<1>7. Once
  BY <1>0, <1>1, IdleTyped DEF Once, Fresh, Pressed
<1>8. Lit
  <2>1. 0 <= 0
    OBVIOUS
  <2> QED
    BY <1>0, <2>1, IdleTyped, NewShellTyped DEF Lit
<1> QED
  BY <1>4, <1>5, <1>6, <1>7, <1>8 DEF Inv

\* The invariant survives every step.
LEMMA StepKeeps == Inv /\ [Next]_vars => Inv'
<1>1. Inv /\ Next => Inv'
  <2> SUFFICES ASSUME Inv, Next PROVE Inv'
    OBVIOUS
  <2>1. ASSUME Counted PROVE mishaps' \in 0 .. MaxMishaps
    <3>1. mishaps \in 0 .. MaxMishaps
      BY DEF Inv, Typed, WorldTyped
    <3>2. mishaps' = mishaps \/ (mishaps < MaxMishaps /\ mishaps' = mishaps + 1)
      BY <2>1 DEF Counted
    <3> QED
      BY ONLY <3>1, <3>2, Bounds
  <2> QED
    BY <2>1, ReaderStepKeeps, HardwareKeeps, DesktopKeeps, MishapKeeps DEF Next
<1>2. Inv /\ UNCHANGED vars => Inv'
  <2> SUFFICES ASSUME Inv, UNCHANGED vars PROVE Inv'
    OBVIOUS
  <2>1. UNCHANGED readerVars /\ UNCHANGED <<lease, presented, shell, pulse, frame, mishaps>>
    BY DEF vars, desk, ui
  <2>2. WorldTyped'
    BY <2>1 DEF Inv, Typed, WorldTyped, readerVars
  <2> QED
    BY <2>1, <2>2, DeskKeeps DEF Inv, Lit
<1> QED
  BY <1>1, <1>2

LEMMA Always == Spec => []Inv
BY Begins, StepKeeps, PTL DEF Spec

\* Types, through every order of presses, polls, failures and mishaps.
THEOREM TypeCorrect == Spec => []PromptTypeOK
<1>1. Inv => PromptTypeOK
  BY TypedIsType DEF Inv, Power
<1> QED
  BY <1>1, Always, PTL

\* libfprint is told one result in an action, retries included (el721.c:706).
THEOREM ReportsOnce == Spec => []OneResult
<1>1. Inv => OneResult
  BY DEF Inv, Jobs, OneResult
<1> QED
  BY <1>1, Always, PTL

\* A match names the print of the finger that was on the sensor when the image
\* was taken, whichever slots the prints of the gallery share (el721.c:370).
THEOREM MatchIsTheFingers == Spec => []MatchIsOwn
<1>1. Inv => MatchIsOwn
  BY DEF Inv, Own, MatchIsOwn
<1> QED
  BY <1>1, Always, PTL

\* Whatever is on while a living driver has no action, of light, touch mode and
\* supply, is on because its own write failed, whatever else failed, was cut short
\* or died before (el721.c:269).
THEOREM NothingStaysOn == Spec => []DarkWhenIdle
<1>1. Inv => DarkWhenIdle
  BY OnSets DEF Inv, Power, DarkWhenIdle
<1> QED
  BY <1>1, Always, PTL

\* Only this poll begins a capture.
LEMMA OnlyCaptures ==
    ASSUME Inv, Next, drv'.capturing, ~drv.capturing
    PROVE  PollCaptures
<1>0. drv \in Driver
  BY DEF Inv, Typed, DriverTyped
<1>1. drv' # Idle /\ drv' # drv
  BY IdleTyped
<1>2. ~ActionFail /\ ~CleansUp /\ ~PollLightsBlindly
  BY <1>1 DEF ActionFail, CleansUp, PollLightsBlindly, Cleanup
<1>3. CASE \E action \in {"enroll", "match"} : Begin(action)
  <2>1. PICK action \in {"enroll", "match"}, n \in {0, 1} : drv' = [Idle EXCEPT !.action = action, !.current = n]
    BY <1>3 DEF Begin
  <2> QED
    BY <2>1 DEF Idle
<1>4. CASE Poll \/ PollFails
  <2>1. ASSUME NEW d \in Driver, Observed(d), d.capturing <=> drv.capturing PROVE FALSE
    <3>1. drv'.capturing <=> d.capturing
      BY <2>1, Observes DEF Inv
    <3> QED
      BY <2>1, <3>1
  <2>2. CASE PollInhibits
    <3>1. drv' = [drv EXCEPT !.inhibited = TRUE, !.deadline = FALSE, !.finger = FALSE, !.request = 0]
      BY <1>2, <2>2 DEF PollInhibits
    <3> QED
      BY <1>0, <3>1 DEF Driver
  <2>3. CASE PollEnables
    <3>1. PICK b \in BOOLEAN : drv' = [drv EXCEPT !.inhibited = FALSE, !.finger = b]
      BY <2>3 DEF PollEnables
    <3> QED
      BY <1>0, <3>1 DEF Driver
  <2>4. CASE PollRequests
    <3>1. tokens' \in 0 .. MaxToken
      <4>1. tokens < MaxToken /\ tokens' = tokens + 1 /\ tokens \in 0 .. MaxToken
        BY <2>4 DEF PollRequests, Inv, Typed, DriverTyped
      <4> QED
        BY ONLY <4>1, Bounds
    <3>2. Observed([drv EXCEPT !.request = tokens', !.deadline = TRUE])
      BY <2>4 DEF PollRequests
    <3>3. /\ [drv EXCEPT !.request = tokens', !.deadline = TRUE] \in Driver
          /\ [drv EXCEPT !.request = tokens', !.deadline = TRUE].capturing <=> drv.capturing
      BY <1>0, <3>1 DEF Driver
    <3> QED
      BY <2>1, <3>2, <3>3
  <2>5. CASE PollObserves
    BY <1>0, <2>1, <2>5 DEF PollObserves
  <2>6. ASSUME NEW b \in BOOLEAN, Observed([drv EXCEPT !.request = 0, !.deadline = b]) PROVE FALSE
    <3>1. /\ [drv EXCEPT !.request = 0, !.deadline = b] \in Driver
          /\ [drv EXCEPT !.request = 0, !.deadline = b].capturing <=> drv.capturing
      BY <1>0, Bounds DEF Driver
    <3> QED
      BY <2>1, <2>6, <3>1
  <2> QED
    BY <1>2, <1>4, <2>2, <2>3, <2>4, <2>5, <2>6
       DEF Poll, PollFails, PollFindsTouchOff, PollReleased, PollLights, PollTimesOut
<1>5. CASE CaptureEnds
  BY <1>2, <1>5 DEF CaptureEnds, CaptureFails, EnrollContinues, EnrollCompletes, MatchRetries, MatchNext,
     MatchExhausted, MatchFound, Captures
<1>6. CASE BeginFails \/ Restart \/ Hardware \/ Desktop \/ Mishap
  BY <1>1, <1>6 DEF BeginFails, Restart, Hardware, Press, Release, Watchdog, Desktop, ShellPoll, Painted,
     BrokerPulse, BrokerPresented, Mishap, Keyboard, PulseRefused, PresentedRefused, LeaseLapses,
     ShellRestarts, Crash, Blank, Suspend, readerVars
<1> QED
  BY <1>3, <1>4, <1>5, <1>6 DEF Next, Reader

\* A press is captured at most once for each candidate: the finger that is held,
\* was down before the prompt or outlived a poll is not captured again
\* (el721.c:853).
THEOREM PressReadOnce == Spec => OncePerPress
<1>1. Inv /\ [Next]_vars =>
        [drv'.capturing /\ ~drv.capturing => <<finger.press, drv.current>> \notin captured]_vars
  <2> SUFFICES ASSUME Inv, Next, drv'.capturing, ~drv.capturing
               PROVE  <<finger.press, drv.current>> \notin captured
    OBVIOUS
  <2>1. drv.deadline /\ drv.current \in 0 .. Len(Gallery)
    BY OnlyCaptures DEF PollCaptures, Inv, Typed, DriverTyped, Driver
  <2>2. drv.current >= drv.current
    BY <2>1, Bounds
  <2> QED
    BY <2>1, <2>2 DEF Inv, Once, Behind
<1> QED
  BY <1>1, Always, PTL DEF Spec, OncePerPress

\* A light that is switched off does not come on.
LEMMA Darkens ==
    ASSUME panel \in Panel, ~panel.lit
    PROVE  /\ ~FodMode(panel, FALSE).lit
           /\ \A s, failing : ~SwitchOff(panel, s, failing) \/ ~panel'.lit
<1>1. ~FodMode(panel, FALSE).lit
  BY Mode
<1>2. \A q \in FodModeFails(panel) : ~q.lit
  BY ModeFails
<1> QED
  BY <1>1, <1>2 DEF SwitchOff

\* Only these polls light the panel up.
LEMMA OnlyLights ==
    ASSUME Inv, Next, panel'.lit, ~panel.lit
    PROVE  PollLights \/ PollLightsBlindly
<1>0. panel \in Panel
  BY DEF Inv, Typed, DriverTyped
<1>1. panel' # panel /\ panel' # FodMode(panel, FALSE)
  BY <1>0, Darkens
<1>2. ~CleansUp /\ ~ActionFail /\ \A s, failing : ~SwitchOff(panel, s, failing)
  BY <1>0, Darkens DEF ActionFail, CleansUp, Cleanup
<1>3. ~Watchdog /\ ~Blank /\ ~Suspend
  <2>1. /\ [panel EXCEPT !.hbm = FALSE].lit = panel.lit
        /\ ~[panel EXCEPT !.hbm = FALSE, !.lit = FALSE].lit
        /\ ~[awake |-> ~panel.awake, hbm |-> FALSE, lit |-> FALSE].lit
    BY <1>0 DEF Panel
  <2> QED
    BY <1>1, <2>1 DEF Watchdog, Blank, Suspend
<1>4. CASE Reader
  BY <1>1, <1>2, <1>4 DEF Reader, Begin, BeginFails, Restart, Poll, PollFails, PollInhibits, PollEnables,
     PollFindsTouchOff, PollRequests, PollObserves, PollReleased, PollTimesOut, PollCaptures, CaptureEnds,
     CaptureFails, EnrollContinues, EnrollCompletes, MatchRetries, MatchNext, MatchExhausted, MatchFound
<1>5. CASE Hardware \/ Desktop \/ Mishap
  BY <1>1, <1>3, <1>5 DEF Hardware, Press, Release, Desktop, ShellPoll, Painted, BrokerPulse,
     BrokerPresented, Mishap, Keyboard, PulseRefused, PresentedRefused, LeaseLapses, ShellRestarts, Crash,
     readerVars
<1> QED
  BY <1>4, <1>5 DEF Next

\* The panel's full brightness comes only for the request whose own frame, with
\* shade and target, has been on the panel, whatever the Shell, the broker and
\* the bus did to earlier ones (el721.c:885).
THEOREM LightOnlyBehindShade == Spec => LitWhenPainted
<1>1. Inv /\ [Next]_vars => [panel'.lit /\ ~panel.lit => shell.painted = drv.request]_vars
  <2> SUFFICES ASSUME Inv, Next, panel'.lit, ~panel.lit PROVE shell.painted = drv.request
    OBVIOUS
  <2>1. drv.request # 0 /\ LightReady
    BY OnlyLights DEF PollLights, PollLightsBlindly
  <2>2. /\ drv.request = tokens /\ presented = tokens
        /\ presented <= shell.painted /\ shell.painted <= tokens
    BY <2>1 DEF LightReady, Inv, Lit
  <2>3. tokens \in Nat /\ shell.painted \in Nat
    BY Bounds DEF Inv, Typed, DriverTyped, WorldTyped, Shell
  <2> QED
    BY ONLY <2>2, <2>3
<1> QED
  BY <1>1, Always, PTL DEF Spec, LitWhenPainted
=============================================================================
