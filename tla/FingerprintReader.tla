-------------------------- MODULE FingerprintReader --------------------------
(***************************************************************************)
(* The libfprint driver of the tablet's optical fingerprint reader         *)
(* (packaging/libfprint/el721.c), the touch controller, panel and sensor   *)
(* it drives through sysfs, and its session with the trusted application.  *)
(*                                                                         *)
(* A reading is a transaction spread over a 45 ms poll: the touch          *)
(* controller reports a press, the driver asks the compositor for a        *)
(* compensation frame, raises the panel's global high brightness (HBM)     *)
(* once that frame is up, lets it settle, and makes one blocking secure    *)
(* capture.  A match is tried against one gallery entry per capture.       *)
(*                                                                         *)
(* lease, presented and lightFile are the three files through which the    *)
(* driver talks to the desktop; FingerprintPrompt has the other side.      *)
(* Time is abstract: a deadline may be found passed at any later poll.     *)
(* Bounds: MaxPress presses on the target, MaxToken light requests.        *)
(***************************************************************************)
EXTENDS Naturals, Sequences

CONSTANTS
    Gallery,    \* the secure slot of each print offered to a match
    MaxPress,
    MaxToken

ASSUME ReaderAssumption ==
    /\ Gallery \in Seq(Nat \ {0})
    /\ Len(Gallery) > 0
    /\ MaxPress \in Nat
    /\ MaxToken \in Nat

VARIABLES
    alive,      \* fprintd runs
    drv,        \* struct _FpiDeviceEl721
    job,        \* libfprint's side: results reported in the current action
    outcome,    \* what the last action told its caller
    touch,      \* goodix: fod_enable, fod_state, an unread fod_sequence
    finger,     \* the finger on the target: [down, press, owner]
    panel,      \* [awake, hbm: fod_mode as its driver keeps it, lit: what it shows]
    sensor,     \* the sensor's supply
    image,      \* whose finger the running capture has seen
    captured,   \* <<press, gallery entry>> of every capture so far
    lightFile,  \* LIGHT_REQUEST: the token the driver asks a frame for
    tokens,     \* tokens handed out
    refused,    \* history: what is on because the write to switch it off failed
    lease,      \* UI_LEASE
    presented   \* LIGHT_PRESENTED: the token whose frame is on the panel

desk == <<lease, presented>>
readerVars == <<alive, drv, job, outcome, touch, finger, panel, sensor, image,
                captured, lightFile, tokens, refused>>

Entries == 1 .. Len(Gallery)
Owners == 0 .. Len(Gallery)     \* 0: a finger that is not enrolled

\* What draws current, or swallows the touches on the target.
On == {d \in {"light", "touch", "supply"} :
          \/ d = "light" /\ panel.lit
          \/ d = "touch" /\ touch.on
          \/ d = "supply" /\ sensor}

Idle == [action |-> "none", inhibited |-> TRUE, finger |-> FALSE,
         deadline |-> FALSE, request |-> 0, current |-> 0, capturing |-> FALSE]

ReaderTypeOK ==
    /\ alive \in BOOLEAN
    /\ drv \in [action : {"none", "enroll", "match"}, inhibited : BOOLEAN,
                finger : BOOLEAN, deadline : BOOLEAN, request : 0 .. MaxToken,
                current : 0 .. Len(Gallery), capturing : BOOLEAN]
    /\ job \in Nat
    /\ outcome \in [what : {"none", "error", "retry", "enrolled", "no match", "match"},
                    entry : Owners, owner : Owners]
    /\ touch \in [on : BOOLEAN, state : {"idle", "pressed", "released"},
                  news : BOOLEAN, held : BOOLEAN]
    /\ finger \in [down : BOOLEAN, press : 0 .. MaxPress, owner : Owners]
    /\ panel \in [awake : BOOLEAN, hbm : BOOLEAN, lit : BOOLEAN]
    /\ sensor \in BOOLEAN
    /\ image \in Owners
    /\ captured \subseteq (0 .. MaxPress) \X (0 .. Len(Gallery))
    /\ lightFile \in 0 .. MaxToken
    /\ tokens \in 0 .. MaxToken
    /\ refused \subseteq On
    /\ lease \in {"none", "blocked", "ready"}
    /\ presented \in 0 .. MaxToken

NoOutcome == [what |-> "none", entry |-> 0, owner |-> 0]

ReaderInit ==
    /\ alive = TRUE
    /\ drv = Idle
    /\ job = 0
    /\ outcome = NoOutcome
    /\ touch = [on |-> FALSE, state |-> "idle", news |-> FALSE, held |-> FALSE]
    /\ finger = [down |-> FALSE, press |-> 0, owner |-> 0]
    /\ panel = [awake |-> TRUE, hbm |-> FALSE, lit |-> FALSE]
    /\ sensor = FALSE
    /\ image = 0
    /\ captured = {}
    /\ lightFile = 0
    /\ tokens = 0
    /\ refused = {}

-----------------------------------------------------------------------------
(* The touch controller, the panel and the finger.                         *)

\* A write of fod_enable: disabling clears the state and moves the sequence,
\* but a contact that began on the target stays the reader's until release.
FodEnable(t, on) ==
    IF on = t.on THEN t
    ELSE IF on THEN [t EXCEPT !.on = TRUE]
    ELSE [t EXCEPT !.on = FALSE, !.state = "idle", !.news = TRUE]

\* A write of fod_mode reaches the panel only while the display is on, and only
\* if it asks for what the panel's driver does not have already.
FodMode(p, on) ==
    IF p.awake /\ p.hbm # on THEN [p EXCEPT !.hbm = on, !.lit = on] ELSE p

\* It fails: before the panel's driver sees it, or in the panel's commands, and
\* then the driver takes the mode for left, and a retry does nothing.
FodModeFails(p) == {p, [p EXCEPT !.hbm = FALSE]}

\* Three writes, each of which may fail, those of "failing" do. Nobody looks at
\* the results.
SwitchOff(p, s, failing) ==
    /\ panel' \in IF "light" \in failing THEN FodModeFails(p) ELSE {FodMode(p, FALSE)}
    /\ touch' = IF "touch" \in failing THEN touch ELSE FodEnable(touch, FALSE)
    /\ sensor' = (s /\ "supply" \in failing)
    /\ refused' = (refused \cup failing) \cap On'

Press ==
    /\ ~finger.down
    /\ finger.press < MaxPress
    /\ \E owner \in Owners :
           finger' = [down |-> TRUE, press |-> finger.press + 1, owner |-> owner]
    /\ touch' = IF touch.on
                THEN [touch EXCEPT !.state = "pressed", !.news = TRUE, !.held = TRUE]
                ELSE [touch EXCEPT !.held = FALSE]
    /\ UNCHANGED <<alive, drv, job, outcome, panel, sensor, image, captured,
                   lightFile, tokens, refused, desk>>

Release ==
    /\ finger.down
    /\ finger' = [finger EXCEPT !.down = FALSE, !.owner = 0]
    /\ touch' = IF touch.on /\ touch.held
                THEN [touch EXCEPT !.state = "released", !.news = TRUE, !.held = FALSE]
                ELSE [touch EXCEPT !.held = FALSE]
    /\ UNCHANGED <<alive, drv, job, outcome, panel, sensor, image, captured,
                   lightFile, tokens, refused, desk>>

\* The display is switched off, or on again.
Blank ==
    /\ panel' = [awake |-> ~panel.awake, hbm |-> FALSE, lit |-> FALSE]
    /\ refused' = refused \ {"light"}
    /\ UNCHANGED <<alive, drv, job, outcome, touch, finger, sensor, image, captured,
                   lightFile, tokens, desk>>

\* A whole suspend and resume, during which no process runs: the panel leaves
\* HBM, goodix closes the FOD session, the sensor's supply goes off.
Suspend ==
    /\ panel' = [panel EXCEPT !.hbm = FALSE, !.lit = FALSE]
    /\ refused' = {}
    /\ touch' = IF touch.on THEN [FodEnable(touch, FALSE) EXCEPT !.held = FALSE]
                            ELSE [touch EXCEPT !.held = FALSE]
    /\ sensor' = FALSE
    /\ UNCHANGED <<alive, drv, job, outcome, finger, image, captured, lightFile,
                   tokens, desk>>

-----------------------------------------------------------------------------
(* Starting and ending an action.                                          *)

\* Mutant: what follows the write of the light is done only if that succeeds.
CleanupStopsEarly(p, failing) ==
    /\ drv' = Idle
    /\ IF "light" \in failing
       THEN /\ panel' \in FodModeFails(p) /\ UNCHANGED <<touch, sensor>>
            /\ refused' = (refused \cup failing) \cap On'
       ELSE SwitchOff(p, sensor, failing)
    /\ lightFile' = 0
    /\ image' = 0

\* udfps_end, the supply off, and the driver's state back to idle.
Cleanup(p, failing) ==
    /\ drv' = Idle
    /\ SwitchOff(p, sensor, failing)
    /\ lightFile' = 0
    /\ image' = 0

CleansUp == \E failing \in SUBSET On : Cleanup(panel, failing)

\* A result is reported to libfprint, and one call completes the action.
Report(what, entry) ==
    /\ job' = job + 1
    /\ outcome' = [what |-> what, entry |-> entry, owner |-> image]

Failed ==
    /\ outcome' = [NoOutcome EXCEPT !.what = "error"]
    /\ UNCHANGED <<alive, job, finger, captured, tokens, desk>>

ActionFail == CleansUp /\ Failed

\* Enrolment or matching: sensor power, secure Init, the touch rectangle with
\* the touch mode still off, HBM off, the first Do arms the sensor.
Begin(action) ==
    /\ alive
    /\ drv.action = "none"
    /\ panel.awake
    /\ drv' = [Idle EXCEPT !.action = action,
                           !.current = IF action = "match" THEN 1 ELSE 0]
    /\ job' = 0
    /\ outcome' = NoOutcome
    /\ sensor' = TRUE
    /\ touch' = [FodEnable(touch, FALSE) EXCEPT !.news = FALSE]
    /\ panel' = FodMode(panel, FALSE)
    /\ refused' = (refused \ {"supply"}) \cap On'
    /\ lightFile' = 0
    /\ UNCHANGED <<alive, finger, image, captured, tokens, desk>>

\* Any of those steps fails: what was switched on is switched off again. A step
\* not reached leaves on what an earlier action could not switch off.
BeginFails ==
    /\ alive
    /\ drv.action = "none"
    /\ job' = 0
    /\ outcome' = [NoOutcome EXCEPT !.what = "error"]
    /\ drv' = Idle
    /\ \E failing \in SUBSET (On \cup {"supply"}) : SwitchOff(panel, TRUE, failing)
    /\ UNCHANGED <<alive, finger, image, captured, lightFile, tokens, desk>>

-----------------------------------------------------------------------------
(* One poll, 45 ms apart, never during the blocking capture.               *)

Polls == alive /\ drv.action # "none" /\ ~drv.capturing

\* Cancelled, 90 seconds without a sample, or a read or write failed.
PollFails == Polls /\ ActionFail

\* The desktop does not vouch for the target: touch and light go off.
PollInhibits ==
    /\ Polls
    /\ lease # "ready"
    /\ ~drv.inhibited
    /\ IF panel.awake
       THEN /\ panel' = FodMode(panel, FALSE)
            /\ touch' = FodEnable(touch, FALSE)
            /\ drv' = [drv EXCEPT !.inhibited = TRUE, !.deadline = FALSE,
                                  !.finger = FALSE, !.request = 0]
            /\ lightFile' = 0
            /\ UNCHANGED <<alive, job, outcome, finger, sensor, image, captured,
                           tokens, desk>>
            /\ refused' = refused \cap On'
       ELSE ActionFail

\* The target is back: a finger already down is not a fresh contact.
PollEnables ==
    /\ Polls
    /\ lease = "ready"
    /\ drv.inhibited
    /\ touch' = [FodEnable(touch, TRUE) EXCEPT !.news = FALSE]
    /\ drv' = [drv EXCEPT !.inhibited = FALSE, !.finger = touch.state = "pressed"]
    /\ refused' = refused \ {"touch"}
    /\ UNCHANGED <<alive, job, outcome, finger, panel, sensor, image, captured,
                   lightFile, tokens, desk>>

\* Somebody switched the touch mode off: the display was suspended.
PollFindsTouchOff ==
    /\ Polls
    /\ lease = "ready"
    /\ ~drv.inhibited
    /\ ~touch.on
    /\ ActionFail

Watching == Polls /\ lease = "ready" /\ ~drv.inhibited /\ touch.on
Pressed == touch.state = "pressed"
NewContact == touch.news /\ Pressed /\ ~drv.finger

\* What every poll that gets this far leaves behind.
Observed(d) ==
    /\ touch' = [touch EXCEPT !.news = FALSE]
    /\ drv' = [d EXCEPT !.finger = Pressed]

\* A fresh press asks the compositor for a frame under a new token.
PollRequests ==
    /\ Watching
    /\ drv.request = 0
    /\ ~drv.deadline
    /\ NewContact
    /\ tokens < MaxToken
    /\ tokens' = tokens + 1
    /\ lightFile' = tokens'
    /\ Observed([drv EXCEPT !.request = tokens', !.deadline = TRUE])
    /\ UNCHANGED <<alive, job, outcome, finger, panel, sensor, image, captured, refused, desk>>

\* Nothing to do but remember whether the finger is down.
PollObserves ==
    /\ Watching
    /\ IF drv.request # 0 \/ drv.deadline THEN Pressed ELSE ~NewContact
    /\ Observed(drv)
    /\ UNCHANGED <<alive, job, outcome, finger, panel, sensor, image, captured,
                   lightFile, tokens, refused, desk>>

\* The finger left while a frame was awaited or the light was settling.
PollReleased ==
    /\ Watching
    /\ drv.request # 0 \/ drv.deadline
    /\ ~Pressed
    /\ IF panel.awake
       THEN /\ Observed([drv EXCEPT !.request = 0, !.deadline = FALSE])
            /\ panel' = FodMode(panel, FALSE)
            /\ lightFile' = 0
            /\ UNCHANGED <<alive, job, outcome, finger, sensor, image, captured,
                           tokens, desk>>
            /\ refused' = refused \cap On'
       ELSE ActionFail

\* Mutant: any presented frame will do.
LightReadyAny == presented # 0

\* The frame this request asked for is on the panel.
LightReady == presented = drv.request

PollLights ==
    /\ Watching
    /\ drv.request # 0
    /\ Pressed
    /\ LightReady
    /\ IF panel.awake
       THEN /\ panel' = FodMode(panel, TRUE)
            /\ refused' = refused \ {"light"}
            /\ Observed([drv EXCEPT !.request = 0, !.deadline = TRUE])
            /\ UNCHANGED <<alive, job, outcome, finger, sensor, image, captured,
                           lightFile, tokens, desk>>
       ELSE ActionFail

\* The commands that raise the brightness fail, and those that take it back as
\* well: the panel's driver takes the mode for left.
PollLightsBlindly ==
    /\ Watching
    /\ drv.request # 0
    /\ Pressed
    /\ LightReady
    /\ panel.awake
    /\ \E failing \in SUBSET On :
         Cleanup([panel EXCEPT !.lit = TRUE], failing \cup {"light"})
    /\ Failed

\* Mutant: the driver waits for the frame for as long as it takes.
PollTimesOutNever == FALSE /\ ActionFail

\* One second went by without the frame.
PollTimesOut ==
    /\ Watching
    /\ drv.request # 0
    /\ Pressed
    /\ ~LightReady
    /\ ActionFail

\* The light has settled under a finger: the secure capture begins.
PollCaptures ==
    /\ Watching
    /\ drv.request = 0
    /\ drv.deadline
    /\ Pressed
    /\ Observed([drv EXCEPT !.deadline = FALSE, !.capturing = TRUE])
    /\ image' = finger.owner
    /\ captured' = captured \cup {<<finger.press, drv.current>>}
    /\ UNCHANGED <<alive, job, outcome, finger, panel, sensor, lightFile, tokens, refused, desk>>

-----------------------------------------------------------------------------
(* The end of a capture (handle_enroll_do, handle_identify_do).  What the   *)
(* trusted application says of the image is external.                      *)

Captures(action) == alive /\ drv.capturing /\ drv.action = action

\* A command or a reading failed, or the answer made no sense.
CaptureFails == alive /\ drv.capturing /\ ActionFail

\* Mutant: the next sample is taken under the same light, as for a match.
EnrollContinuesLit ==
    /\ Captures("enroll")
    /\ panel.awake
    /\ drv' = [drv EXCEPT !.capturing = FALSE, !.deadline = TRUE]
    /\ image' = 0
    /\ UNCHANGED <<alive, job, outcome, touch, finger, panel, sensor, captured,
                   lightFile, tokens, refused, desk>>

\* Bad quality or one more sample: Final, then the next Init and Do; the
\* light goes off until a new press.
EnrollContinues ==
    /\ Captures("enroll")
    /\ panel.awake
    /\ drv' = [drv EXCEPT !.capturing = FALSE, !.request = 0]
    /\ panel' = FodMode(panel, FALSE)
    /\ lightFile' = 0
    /\ image' = 0
    /\ UNCHANGED <<alive, job, outcome, touch, finger, sensor, captured, tokens, desk>>
    /\ refused' = refused \cap On'

EnrollCompletes ==
    /\ Captures("enroll")
    /\ CleansUp
    /\ Report("enrolled", 0)
    /\ UNCHANGED <<alive, finger, captured, tokens, desk>>

\* Bad quality ends a match: libfprint allows one result per action.
MatchRetries ==
    /\ Captures("match")
    /\ CleansUp
    /\ Report("retry", 0)
    /\ UNCHANGED <<alive, finger, captured, tokens, desk>>

\* An explicit no-match loads the next entry, under the same light.
MatchNext ==
    /\ Captures("match")
    /\ image # drv.current
    /\ drv.current < Len(Gallery)
    /\ drv' = [drv EXCEPT !.current = @ + 1, !.capturing = FALSE, !.deadline = TRUE]
    /\ image' = 0
    /\ UNCHANGED <<alive, job, outcome, touch, finger, panel, sensor, captured,
                   lightFile, tokens, refused, desk>>

MatchExhausted ==
    /\ Captures("match")
    /\ image # drv.current
    /\ drv.current = Len(Gallery)
    /\ CleansUp
    /\ Report("no match", 0)
    /\ UNCHANGED <<alive, finger, captured, tokens, desk>>

\* Mutant: the whole gallery is searched by slot.
MatchOfSlot(slot) == CHOOSE e \in Entries :
    Gallery[e] = slot /\ \A f \in Entries : Gallery[f] = slot => e <= f

\* finish_identify: only the entry loaded for this capture can have matched.
MatchOf(slot) == IF Gallery[drv.current] = slot THEN drv.current ELSE 0

\* The application matched the image against the loaded template and names
\* that template's slot.
MatchFound ==
    /\ Captures("match")
    /\ image = drv.current
    /\ CleansUp
    /\ Report("match", MatchOf(Gallery[drv.current]))
    /\ UNCHANGED <<alive, finger, captured, tokens, desk>>

-----------------------------------------------------------------------------
(* fprintd dies; systemd runs the cleanup script before it starts again.   *)

Crash ==
    /\ alive
    /\ alive' = FALSE
    /\ drv' = Idle
    /\ outcome' = NoOutcome
    /\ image' = 0
    /\ UNCHANGED <<job, touch, finger, panel, sensor, captured, lightFile, tokens, refused, desk>>

Restart ==
    /\ ~alive
    /\ alive' = TRUE
    /\ \E failing \in SUBSET On : SwitchOff(panel, sensor, failing)
    /\ lightFile' = 0
    /\ UNCHANGED <<drv, job, outcome, finger, image, captured, tokens, desk>>

\* 15 seconds without a refresh, which the driver writes every five during an
\* action. Its commands may fail as well.
Watchdog ==
    /\ drv.action = "none"
    /\ panel.hbm
    /\ \/ panel' = FodMode(panel, FALSE) /\ refused' = refused \ {"light"}
       \/ panel' = [panel EXCEPT !.hbm = FALSE] /\ refused' = refused \cup {"light"}
    /\ UNCHANGED <<alive, drv, job, outcome, touch, finger, sensor, image, captured,
                   lightFile, tokens, desk>>

-----------------------------------------------------------------------------
Poll == \/ PollInhibits \/ PollEnables \/ PollFindsTouchOff \/ PollRequests
        \/ PollObserves \/ PollReleased \/ PollLights \/ PollLightsBlindly \/ PollTimesOut \/ PollCaptures

CaptureEnds == \/ CaptureFails \/ EnrollContinues \/ EnrollCompletes \/ MatchRetries
               \/ MatchNext \/ MatchExhausted \/ MatchFound

Reader == \/ \E action \in {"enroll", "match"} : Begin(action)
          \/ BeginFails \/ Poll \/ PollFails \/ CaptureEnds \/ Restart

Hardware == Press \/ Release \/ Watchdog
=============================================================================
