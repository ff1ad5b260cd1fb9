-------------------------- MODULE FingerprintPrompt --------------------------
(***************************************************************************)
(* The whole fingerprint prompt: the reader's driver, the GNOME Shell      *)
(* extension that draws the target and the compensation shade (extension.js *)
(* of gts9u-fingerprint-overlay), and the broker between them              *)
(* (ubuntu-gts9u-fingerprint-ui), which alone writes the two files the     *)
(* driver trusts.  Shell and broker talk over the system bus, so each      *)
(* call is a message in flight.                                            *)
(***************************************************************************)
EXTENDS FingerprintReader

CONSTANT MaxMishaps      \* the bound on mishaps

ASSUME PromptAssumption == MaxMishaps \in Nat

VARIABLES
    mishaps,    \* how often the surroundings have interfered
    shell,      \* the extension: see PromptTypeOK
    pulse,      \* the Pulse call in flight: "none", "ready" or "blocked"
    frame       \* the Presented call in flight: its token, or 0

ui == <<shell, pulse, frame>>
vars == <<readerVars, desk, ui, mishaps>>

NewShell == [covered |-> FALSE, ready |-> FALSE, shade |-> FALSE,
             token |-> 0, painting |-> 0, painted |-> 0]

PromptTypeOK ==
    /\ ReaderTypeOK
    /\ shell \in [covered : BOOLEAN,    \* the keyboard lies over the target
                  ready : BOOLEAN,      \* the last Pulse was accepted, recently
                  shade : BOOLEAN,      \* shade and target are drawn
                  token : 0 .. MaxToken,
                  painting : 0 .. MaxToken,   \* its frame is being scanned out
                  painted : 0 .. MaxToken]    \* the last token whose frame was up
    /\ pulse \in {"none", "ready", "blocked"}
    /\ frame \in 0 .. MaxToken
    /\ mishaps \in 0 .. MaxMishaps

Init ==
    /\ ReaderInit
    /\ lease = "none"
    /\ presented = 0
    /\ shell = NewShell
    /\ pulse = "none"
    /\ frame = 0
    /\ mishaps = 0

-----------------------------------------------------------------------------
Keyboard ==
    /\ shell' = [shell EXCEPT !.covered = ~@]
    /\ UNCHANGED <<readerVars, desk, pulse, frame>>

\* The 50 ms poll of the extension: availability, illumination, presentation.
CanShow == ~shell.covered /\ shell.ready
Asked == IF CanShow /\ (drv.action # "none" \/ panel.hbm) THEN lightFile ELSE 0
Availability == IF shell.covered THEN "blocked" ELSE "ready"

ShellPoll ==
    /\ shell' = [shell EXCEPT
           !.shade = panel.hbm \/ Asked # 0,
           !.token = Asked,
           !.painting = IF Asked = shell.token THEN @ ELSE Asked]
    /\ pulse' \in IF pulse = "none" THEN {"none", Availability} ELSE {pulse}
    /\ UNCHANGED <<readerVars, desk, frame>>

\* after-paint and 35 ms later: the frame has been scanned out.
Painted ==
    /\ shell.painting # 0
    /\ IF shell.painting = shell.token /\ shell.painting = lightFile /\ CanShow /\ shell.shade
       THEN /\ frame' = shell.painting
            /\ shell' = [shell EXCEPT !.painting = 0, !.painted = shell.painting]
       ELSE /\ frame' = frame
            /\ shell' = [shell EXCEPT !.painting = 0]
    /\ UNCHANGED <<readerVars, desk, pulse>>

\* Broker.Pulse, and its reply.
BrokerPulse ==
    /\ pulse # "none"
    /\ lease' = pulse
    /\ presented' = IF pulse = "blocked" THEN 0 ELSE presented
    /\ shell' = [shell EXCEPT !.ready = pulse = "ready"]
    /\ pulse' = "none"
    /\ UNCHANGED <<readerVars, frame>>

\* Not the active session, or no answer in time.
PulseRefused ==
    /\ pulse # "none"
    /\ pulse' = "none"
    /\ shell' = [shell EXCEPT !.ready = FALSE]
    /\ UNCHANGED <<readerVars, desk, frame>>

\* Broker.Presented: only for the request the driver has on file.
BrokerPresents(token) == lease = "ready" /\ token = lightFile

BrokerPresented ==
    /\ frame # 0
    /\ presented' = IF BrokerPresents(frame) THEN frame ELSE presented
    /\ frame' = 0
    /\ UNCHANGED <<readerVars, lease, shell, pulse>>

\* The call failed: the extension presents the token again.
PresentedRefused ==
    /\ frame # 0
    /\ frame' = 0
    /\ shell' = [shell EXCEPT !.token = 0]
    /\ UNCHANGED <<readerVars, desk, pulse>>

\* Two seconds without a pulse, a change of session, or the Shell is gone.
LeaseLapses ==
    /\ lease # "none"
    /\ lease' = "none"
    /\ presented' = 0
    /\ shell' = [shell EXCEPT !.ready = FALSE]
    /\ UNCHANGED <<readerVars, pulse, frame>>

ShellRestarts ==
    /\ shell # NewShell
    /\ shell' = NewShell
    /\ pulse' = "none"
    /\ frame' = 0
    /\ lease' = "none"
    /\ presented' = 0
    /\ UNCHANGED readerVars

Desktop == ShellPoll \/ Painted \/ BrokerPulse \/ BrokerPresented

Mishap ==
    /\ mishaps < MaxMishaps
    /\ mishaps' = mishaps + 1
    /\ \/ Keyboard \/ PulseRefused \/ PresentedRefused \/ LeaseLapses \/ ShellRestarts
       \/ (Crash \/ Blank \/ Suspend) /\ UNCHANGED ui

\* A switch-off that fails is a mishap, too.
Counted ==
    \/ refused' \subseteq refused /\ UNCHANGED mishaps
    \/ ~(refused' \subseteq refused) /\ mishaps < MaxMishaps /\ mishaps' = mishaps + 1

Next == \/ (Reader \/ Hardware) /\ UNCHANGED ui /\ Counted
        \/ Desktop /\ UNCHANGED mishaps
        \/ Mishap

\* The driver's poll is a timer of fprintd's main loop, the capture is
\* bounded by the trusted application.
Fairness == /\ WF_vars(Poll /\ UNCHANGED <<ui, mishaps>>)
            /\ WF_vars(CaptureEnds /\ UNCHANGED <<ui, mishaps>>)

Spec == Init /\ [][Next]_vars /\ Fairness

-----------------------------------------------------------------------------
\* libfprint permits one result per action, retries included.
OneResult == job <= 1

\* A reported match names the print of the finger that was on the sensor
\* when the image was taken, however the secure slots are shared.
MatchIsOwn == outcome.what = "match" => outcome.entry = outcome.owner

\* A press is captured at most once for each candidate: neither a held
\* finger, nor one that was down before the prompt, nor an interrupted
\* prompt captures the same press again.
OncePerPress ==
    [][drv'.capturing /\ ~drv.capturing
           => <<finger.press, drv.current>> \notin captured]_vars

\* The panel lights up only for a request whose own frame, with the shade and
\* the target, has been on the panel, even if the driver is told that it did not.
LitWhenPainted == [][panel'.lit /\ ~panel.lit => shell.painted = drv.request]_vars

\* With no action, whatever is on, of the light, the touch mode and the sensor's
\* supply, is on because the write that was to switch it off failed: one that
\* fails keeps nothing else on, and neither a failing start nor a crash, a sleep
\* or a cleanup forgets one (el721.c:239, whose writes nobody looks at).
DarkWhenIdle == alive /\ drv.action = "none" => On \subseteq refused

\* A capture is only made with the sensor's supply on.
CapturePowered == [][drv'.capturing /\ ~drv.capturing => sensor]_vars

\* A request for light never hangs, whatever the desktop does with it.
RequestEnds == drv.request # 0 ~> drv.request = 0
=============================================================================
