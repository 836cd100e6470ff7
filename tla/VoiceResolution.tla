--------------------------- MODULE VoiceResolution ---------------------------
(***************************************************************************)
(* How a provider and a voice are chosen (internal/ttsconfig, and the      *)
(* overrides of cmd/speak-text), as operators over the configuration file, *)
(* the environment and the command line; "" is what is not given.          *)
(***************************************************************************)
EXTENDS Providers

NeedsKey(p) == p \in {"openai", "grok"}

Choice(p, v, from) == [provider |-> p, voice |-> v, from |-> from]
Refused == Choice("", "", "refused")

DefaultConfig ==
    [readable |-> TRUE, providers |-> {"openai"}, default |-> "default",
     profiles |-> [n \in {"default"} |-> [provider |-> "openai", voice |-> "alloy"]]]

(* LoadOrDefault: a file that cannot be read or names a provider type that *)
(* does not exist is set aside.                                            *)
LoadOrDefault(file) ==
    IF file.readable /\ file.providers \subseteq KnownProviders THEN file ELSE DefaultConfig

Ready(cfg, env, p) == p \in cfg.providers /\ (NeedsKey(p) => p \in env.keys)

Resolve(cfg, env, name) ==
    IF name \notin DOMAIN cfg.profiles THEN Refused
    ELSE LET pr == cfg.profiles[name] IN
         IF Ready(cfg, env, pr.provider) /\ ValidVoice(pr.provider, pr.voice)
         THEN Choice(pr.provider, pr.voice, "checked") ELSE Refused

(* Without a voice, the first of the provider's list. *)
ResolveVoice(cfg, env, p, v) ==
    IF ~Ready(cfg, env, p) \/ ~ValidVoice(p, v) \/ (v = "" /\ ~HasVoiceList(p)) THEN Refused
    ELSE Choice(p, IF v = "" THEN FirstVoice(p) ELSE v, "checked")

(* CLAUDE_TTS_PROVIDER, else CLAUDE_TTS_PROFILE or the default profile, *)
(* whose voice CLAUDE_TTS_VOICE replaces unseen.                        *)
Default(cfg, env) ==
    IF env.provider # "" THEN ResolveVoice(cfg, env, env.provider, env.voice)
    ELSE LET r == Resolve(cfg, env, IF env.profile # "" THEN env.profile ELSE cfg.default) IN
         IF r = Refused \/ env.voice = "" THEN r ELSE Choice(r.provider, env.voice, "env")

(* Fault variant: the override is taken as it is. *)
ApplyOverridesUnchecked(r, v) ==
    IF r = Refused \/ v = "" THEN r ELSE Choice(r.provider, v, "checked")

(* The -voice of the command line. *)
ApplyOverrides(r, v) ==
    IF r = Refused \/ v = "" THEN r
    ELSE IF ValidVoice(r.provider, v) THEN Choice(r.provider, v, "checked")
    ELSE Refused

Selection(cfg, env, args) ==
    IF args.provider # "" THEN ResolveVoice(cfg, env, args.provider, args.voice)
    ELSE IF args.profile # "" THEN ApplyOverrides(Resolve(cfg, env, args.profile), args.voice)
    ELSE ApplyOverrides(Default(cfg, env), args.voice)

(* The sender for Telegram needs its section, the token and the chat. *)
TelegramConfigs    == [section : BOOLEAN, token : BOOLEAN, chatID : BOOLEAN]
TelegramSender(tg) == tg.section /\ tg.token /\ tg.chatID

-----------------------------------------------------------------------------
(* The inputs there are, and what they select.  A provider that the file   *)
(* does not have stands for one that does not exist.                       *)

ProfileNames == {"default", "other"}

Configs ==
    LET entries == [provider : KnownProviders, voice : Voices] IN
    {[readable |-> r, providers |-> ps, default |-> "default", profiles |-> prs] :
        r \in BOOLEAN, ps \in SUBSET (KnownProviders \cup {"unknown"}),
        prs \in UNION {[ns -> entries] : ns \in {{}, {"default"}, {"other"}}}}

Envs == [provider : KnownProviders \cup {""}, profile : {"", "other"}, voice : Voices,
         keys : SUBSET {"openai", "grok"}]
Args == [provider : KnownProviders \cup {""}, profile : ProfileNames \cup {""}, voice : Voices]

Selections ==
    UNION {{Selection(cfg, env, args) : env \in Envs, args \in Args} :
              cfg \in {LoadOrDefault(f) : f \in Configs}}
=============================================================================
