------------------------------ MODULE Providers ------------------------------
(***************************************************************************)
(* What the speech providers (internal/tts), the Telegram sender           *)
(* (internal/telegram) and the audio players of the platforms              *)
(* (internal/audio) do with a voice and a format.  One voice stands for    *)
(* each list, "model" for any other name, "" for none.  The text, the      *)
(* speed and the model are left out.                                       *)
(***************************************************************************)
KnownProviders == {"openai", "grok", "piper"}

VoiceList(p) == CASE p = "openai" -> {"alloy"} [] p = "grok" -> {"eve"} [] OTHER -> {}

HasVoiceList(p) == VoiceList(p) # {}
Voices          == UNION {VoiceList(p) : p \in KnownProviders} \cup {"model", ""}

ValidVoice(p, v) == HasVoiceList(p) /\ v # "" => v \in VoiceList(p)
FirstVoice(p)    == CHOOSE v \in VoiceList(p) : TRUE

DefaultFormat(p) == IF p = "piper" THEN "wav" ELSE "mp3"
EmitsMP3(p)      == DefaultFormat(p) = "mp3"

(* What a Synthesize may return: the format of its audio, or the error of   *)
(* the API or the child process.                                            *)
OpenAIAudio(preferred) == {"error", IF preferred = "opus" THEN "opus" ELSE "mp3"}
GrokAudio              == {"error", "mp3"}
PiperAudio(v)          == IF v = "" THEN {"error"} ELSE {"error", "wav"}

Audio(p, v, preferred) ==
    CASE p = "openai" -> OpenAIAudio(preferred) [] p = "grok" -> GrokAudio
      [] p = "piper" -> PiperAudio(v)

(* Telegram's Send: a voice message of Opus, an audio file of anything else. *)
MessageOf(format) == IF format = "opus" THEN "voice message" ELSE "audio file"
Message(format)   == {"error", MessageOf(format)}

Platforms == {"darwin", "linux", "windows", "plan9"}
Programs  == {"mpv", "ffplay", "aplay", "mpg123"}

(* Play's look at the format and buildPlayCommand's at the platform. *)
CanPlay(goos, installed, format) ==
    /\ format \in {"mp3", "wav"}
    /\ \/ goos \in {"darwin", "windows"}
       \/ /\ goos = "linux"
          /\ installed \cap {"mpv", "ffplay", IF format = "wav" THEN "aplay" ELSE "mpg123"} # {}
=============================================================================
