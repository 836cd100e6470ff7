------------------------------- MODULE SpeakText -------------------------------
(***************************************************************************)
(* The speak-text command (cmd/speak-text/main.go), run while other        *)
(* processes set the voice mode.  Every member of Speakers is one run, on  *)
(* whatever machine.  The calls of the provider, Telegram and the player   *)
(* may fail at any time.                                                   *)
(***************************************************************************)
EXTENDS VoiceModeStore, VoiceResolution

CONSTANT Speakers

VARIABLES
    speak,          \* where each run stands; "done" and "failed" are its exit status
    dest,           \* the destination of the clip
    chosen,         \* the provider and voice
    spent,          \* the runs that have had speech synthesized
    audio,          \* the format of what a run has synthesized last
    delivered       \* where each run has delivered

speakVars == <<speak, dest, chosen, spent, audio, delivered>>
speakTextVars == <<modeVars, speakVars>>

SpeakInit ==
    /\ ModeInit
    /\ speak = [s \in Speakers |-> "start"]
    /\ dest = [s \in Speakers |-> "none"]
    /\ chosen = [s \in Speakers |-> Refused]
    /\ spent = {}
    /\ audio = [s \in Speakers |-> "none"]
    /\ delivered = [s \in Speakers |-> {}]

Becomes(s, from, to) ==
    /\ speak[s] = from
    /\ speak' = [speak EXCEPT ![s] = to]

(* An explicit -to: it cannot be off. *)
UseTo(s) ==
    \E to \in {"computer", "phone", "both"} :
        /\ Becomes(s, "start", "resolve")
        /\ dest' = [dest EXCEPT ![s] = to]
        /\ UNCHANGED <<modeVars, chosen, spent, audio, delivered>>

(* The saved mode, read once; off says nothing. *)
UseSavedMode(s) ==
    /\ Becomes(s, "start", IF Get = "off" THEN "done" ELSE "resolve")
    /\ dest' = [dest EXCEPT ![s] = Get]
    /\ UNCHANGED <<modeVars, chosen, spent, audio, delivered>>

SendsTelegram(m) == m \in {"phone", "both"}
PlaysLocal(m)    == m \in {"computer", "both"}

(* Resolution, and for Telegram a provider that emits MP3 and a sender. *)
Choose(s) ==
    \E c \in Selections, tg \in TelegramConfigs :
        /\ chosen' = [chosen EXCEPT ![s] = c]
        /\ Becomes(s, "resolve",
              IF c = Refused THEN "failed"
              ELSE IF ~SendsTelegram(dest[s]) THEN "local"
              ELSE IF EmitsMP3(c.provider) /\ TelegramSender(tg) THEN "telegram" ELSE "failed")
        /\ UNCHANGED <<modeVars, dest, spent, audio, delivered>>

Emits(s, format)  == audio' = [audio EXCEPT ![s] = format]
Delivers(s, what) == delivered' = [delivered EXCEPT ![s] = @ \cup {what}]

CallProvider(s, from, preferred, to) ==
    /\ speak[s] = from
    /\ \E out \in Audio(chosen[s].provider, chosen[s].voice, preferred) :
          Becomes(s, from, IF out = "error" THEN "failed" ELSE to) /\ Emits(s, out)

(* Synthesize, for Telegram with Opus preferred, and anew for the speakers. *)
Synthesize(s) ==
    /\ CallProvider(s, "telegram", "opus", "send") \/ CallProvider(s, "local", "", "play")
    /\ spent' = spent \cup {s}
    /\ UNCHANGED <<modeVars, dest, chosen, delivered>>

(* Fault variant: the phone is enough. *)
SendEnds(s) ==
    /\ Becomes(s, "send", "done")
    /\ Delivers(s, MessageOf(audio[s]))
    /\ UNCHANGED <<modeVars, dest, chosen, spent, audio>>

(* The clip goes to Telegram, and to the speakers next in mode both.  Where *)
(* the answer is lost or late, Telegram may have taken it all the same.     *)
Send(s) ==
    /\ \E out \in Message(audio[s]), taken \in BOOLEAN :
        /\ Becomes(s, "send",
              IF out = "error" THEN "failed" ELSE IF PlaysLocal(dest[s]) THEN "local" ELSE "done")
        /\ IF out # "error" \/ taken THEN Delivers(s, MessageOf(audio[s]))
           ELSE UNCHANGED delivered
    /\ UNCHANGED <<modeVars, dest, chosen, spent, audio>>

(* Play on some machine: with no program for the format it fails, as it may *)
(* with one, which may have been heard before it ended with an error.       *)
Play(s) ==
    /\ \E can \in {CanPlay(goos, installed, audio[s]) :
                    goos \in Platforms, installed \in SUBSET Programs},
          out \in {"played", "error"}, heard \in BOOLEAN :
        /\ Becomes(s, "play", IF can /\ out = "played" THEN "done" ELSE "failed")
        /\ IF can /\ (out = "played" \/ heard) THEN Delivers(s, "speakers")
           ELSE UNCHANGED delivered
    /\ UNCHANGED <<modeVars, dest, chosen, spent, audio>>

(* The arguments are wrong. *)
SpeakRefused(s) ==
    /\ Becomes(s, "start", "failed")
    /\ UNCHANGED <<modeVars, dest, chosen, spent, audio, delivered>>

SpeakStep(s) ==
    \/ UseTo(s) \/ UseSavedMode(s) \/ Choose(s) \/ Synthesize(s) \/ Send(s) \/ Play(s)
    \/ SpeakRefused(s)

SpeakNext ==
    \/ \E s \in Setters : ModeStep(s) /\ UNCHANGED speakVars
    \/ \E s \in Speakers : SpeakStep(s)

SpeakSpec == SpeakInit /\ [][SpeakNext]_speakTextVars

-----------------------------------------------------------------------------
(* Properties *)

(* What a mode asks of a provider's audio. *)
Asked(m, p) ==
    (IF PlaysLocal(m) THEN {"speakers"} ELSE {})
      \cup (IF SendsTelegram(m) THEN {IF p = "openai" THEN "voice message" ELSE "audio file"} ELSE {})

(* A clip goes only where the mode that was read, or -to, asks for it, as a *)
(* voice message where the provider has the format; it is everywhere when   *)
(* speak-text exits with success, and when the speakers have played it, so  *)
(* that mode both never speaks with the phone left out.  "off: honor the    *)
(* saved mode by producing no audio (no synthesis cost, no delivery)"       *)
(* (main.go:119-120), and nothing is synthesized for a phone that the       *)
(* provider's format cannot reach.                                          *)
SpokenAsAsked ==
    \A s \in Speakers :
        LET asked == Asked(dest[s], chosen[s].provider) IN
        /\ delivered[s] \subseteq asked
        /\ speak[s] = "done" \/ "speakers" \in delivered[s] => delivered[s] = asked
        /\ s \in spent =>
              dest[s] # "off" /\ (SendsTelegram(dest[s]) => EmitsMP3(chosen[s].provider))

(* "an invalid voice fails locally with a clear message instead of being    *)
(* sent to the remote API" (main.go:52-53), whichever of the command line,  *)
(* the profile and CLAUDE_TTS_PROVIDER it comes from, and though a voice of *)
(* one provider may meet another; only CLAUDE_TTS_VOICE over a profile is   *)
(* sent as it is.                                                           *)
VoiceVetted ==
    \A s \in spent :
        ValidVoice(chosen[s].provider, chosen[s].voice) \/ chosen[s].from = "env"
=============================================================================
