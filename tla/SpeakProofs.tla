----------------------------- MODULE SpeakProofs -----------------------------
(***************************************************************************)
(* The saved voice mode and the speak-text command, for any number of      *)
(* processes that set the mode and any number of runs: the mode in force   *)
(* is the one last set, a clip is delivered where it is asked for, and a   *)
(* voice is vetted before speech is paid for.                              *)
(***************************************************************************)
EXTENDS SpeakText, TLAPS

USE DEF setVars, modeVars, speakVars, speakTextVars

-----------------------------------------------------------------------------
(* The files of the voice mode *)

Files    == Setters \cup {Original}
Contents == {"empty", "garbled"} \cup Modes

(* What the two paths may name: never the same file, and a setter's only    *)
(* once it has created it.                                                  *)
FilesInv ==
    /\ content \in [Files -> Contents]
    /\ set \in [Setters -> {"idle", "write", "rename", "done", "failed"}]
    /\ want \in [Setters -> Modes]
    /\ fd \in [Setters -> Files]
    /\ {statePath, tmpPath} \subseteq Files \cup {"missing"}
    /\ tmpPath \in Files => statePath # tmpPath
    /\ tmpPath # Original
    /\ \A s \in Setters : s \in {statePath, tmpPath} => set[s] # "idle"

(* A Set that has been alone so far owns the temporary file. *)
AloneInv ==
    \A s \in Setters : set[s] \in {"write", "rename"} =>
        /\ \A r \in Setters : set[r] \in {"write", "rename"} => r = s
        /\ fd[s] = tmpPath
        /\ set[s] = "write" => content[tmpPath] = "empty"
        /\ set[s] = "rename" => content[tmpPath] = want[s]

ModeInv == FilesInv /\ (~setsOverlap => AloneInv /\ Get = lastSet)

LEMMA ModeStart == ModeInit => ModeInv
<1> SUFFICES ASSUME ModeInit PROVE ModeInv
  OBVIOUS
<1>1. FilesInv
  BY SettersAssumption DEF ModeInit, FilesInv, Files, Contents, Modes, Original
<1>2. AloneInv
  BY DEF ModeInit, AloneInv
<1>3. Get = lastSet
  BY DEF ModeInit, Get, Original, Modes
<1> QED
  BY <1>1, <1>2, <1>3 DEF ModeInv

LEMMA OpenTempKeeps ==
  ASSUME ModeInv, NEW s \in Setters, OpenTemp(s)
  PROVE  ModeInv'
<1> DEFINE file == IF tmpPath = "missing" THEN s ELSE tmpPath
<1>1. FilesInv /\ set[s] = "idle" /\ file \in Files /\ file # statePath /\ file # "missing"
  BY SettersAssumption DEF OpenTemp, ModeInv, FilesInv, Files, Original
<1>2. /\ tmpPath' = file /\ statePath' = statePath /\ lastSet' = lastSet
      /\ content' = [content EXCEPT ![file] = "empty"]
      /\ set' = [set EXCEPT ![s] = "write"]
      /\ fd' = [fd EXCEPT ![s] = file]
      /\ want' \in [Setters -> Modes]
      /\ \A r \in Setters : r # s => want'[r] = want[r]
  BY <1>1 DEF OpenTemp, FilesInv
<1>3. setsOverlap' = (setsOverlap \/ \E r \in Setters : set[r] \in {"write", "rename"})
  BY DEF OpenTemp
<1>4. file # Original
  BY <1>1, SettersAssumption DEF FilesInv
<1> HIDE DEF file
<1>5. FilesInv'
  <2>1. /\ content' \in [Files -> Contents]
        /\ set' \in [Setters -> {"idle", "write", "rename", "done", "failed"}]
        /\ fd' \in [Setters -> Files]
    BY <1>1, <1>2 DEF FilesInv, Contents
  <2>2. \A r \in Setters : r \in {statePath', tmpPath'} => set'[r] # "idle"
    <3>1. file \in {s, tmpPath}
      BY DEF file
    <3> QED
      BY <1>1, <1>2, <3>1 DEF FilesInv
  <2> QED
    BY <1>1, <1>2, <1>4, <2>1, <2>2 DEF FilesInv
<1>6. ASSUME ~setsOverlap' PROVE AloneInv' /\ Get' = lastSet'
  <2>1. \A r \in Setters : set'[r] \in {"write", "rename"} => r = s
    BY <1>1, <1>2, <1>3, <1>6 DEF FilesInv
  <2>2. AloneInv'
    BY <1>1, <1>2, <2>1 DEF AloneInv, FilesInv
  <2>3. statePath # "missing" => content'[statePath] = content[statePath]
    BY <1>1, <1>2 DEF FilesInv
  <2>4. Get' = Get
    BY <1>2, <2>3 DEF Get
  <2> QED
    BY <1>2, <1>3, <1>6, <2>2, <2>4 DEF ModeInv
<1> QED
  BY <1>5, <1>6 DEF ModeInv

LEMMA WriteTempKeeps ==
  ASSUME ModeInv, NEW s \in Setters, WriteTemp(s)
  PROVE  ModeInv'
<1>1. PICK after \in {want[s], "garbled"} :
         /\ content' = [content EXCEPT ![fd[s]] = after]
         /\ content[fd[s]] # "garbled" =>
               (after = "garbled" <=> HoldsLonger(content[fd[s]], want[s]))
  BY DEF WriteTemp
<1>2. /\ FilesInv /\ set[s] = "write" /\ after \in Contents
      /\ set' = [set EXCEPT ![s] = "rename"]
      /\ UNCHANGED <<statePath, tmpPath, want, fd, setsOverlap, lastSet>>
  BY DEF WriteTemp, ModeInv, FilesInv, Contents
<1>3. FilesInv'
  BY <1>1, <1>2 DEF FilesInv
<1>4. ASSUME ~setsOverlap PROVE AloneInv' /\ Get' = lastSet'
  <2>1. /\ AloneInv /\ Get = lastSet
        /\ \A r \in Setters : set[r] \in {"write", "rename"} => r = s
        /\ fd[s] = tmpPath /\ content[tmpPath] = "empty"
    BY <1>2, <1>4 DEF ModeInv, AloneInv
  <2>2. after = want[s]
    BY <1>1, <2>1 DEF HoldsLonger, Modes
  <2>3. content'[tmpPath] = want[s]
    BY <1>1, <1>2, <2>1, <2>2 DEF FilesInv
  <2>4. AloneInv'
    BY <1>2, <2>1, <2>3 DEF AloneInv, FilesInv
  <2>5. statePath # "missing" => content'[statePath] = content[statePath]
    BY <1>1, <1>2, <2>1 DEF FilesInv
  <2>6. Get' = Get
    BY <1>2, <2>5 DEF Get
  <2> QED
    BY <1>2, <2>1, <2>4, <2>6
<1> QED
  BY <1>2, <1>3, <1>4 DEF ModeInv

LEMMA RenameKeeps ==
  ASSUME ModeInv, NEW s \in Setters, Rename(s)
  PROVE  ModeInv'
<1>1. /\ FilesInv /\ set[s] = "rename" /\ tmpPath' = "missing"
      /\ UNCHANGED <<content, want, fd, setsOverlap>>
  BY DEF Rename, ModeInv
<1>2. PICK end \in {"done", "failed"} : set' = [set EXCEPT ![s] = end]
  BY DEF Rename
<1>3. /\ tmpPath = "missing" => statePath' = statePath /\ lastSet' = lastSet
      /\ tmpPath # "missing" => statePath' = tmpPath /\ lastSet' = want[s]
  BY DEF Rename
<1>4. FilesInv'
  BY <1>1, <1>2, <1>3, SettersAssumption DEF FilesInv, Files, Original
<1>5. ASSUME ~setsOverlap PROVE AloneInv' /\ Get' = lastSet'
  <2>1. /\ AloneInv /\ Get = lastSet
        /\ \A r \in Setters : set[r] \in {"write", "rename"} => r = s
        /\ fd[s] = tmpPath /\ content[tmpPath] = want[s]
    BY <1>1, <1>5 DEF ModeInv, AloneInv
  <2>2. tmpPath # "missing"
    BY <1>1, <2>1, SettersAssumption DEF FilesInv, Files, Original
  <2>3. AloneInv'
    BY <1>1, <1>2, <2>1 DEF AloneInv, FilesInv
  <2>4. want[s] \in Modes
    BY <1>1 DEF FilesInv
  <2>5. Get' = want[s]
    BY <1>1, <1>3, <2>1, <2>2, <2>4 DEF Get
  <2> QED
    BY <1>3, <2>2, <2>3, <2>5
<1> QED
  BY <1>1, <1>4, <1>5 DEF ModeInv

LEMMA SetFailsKeeps ==
  ASSUME ModeInv, NEW s \in Setters, SetFails(s)
  PROVE  ModeInv'
<1>1. /\ FilesInv /\ set[s] \in {"write", "rename"} /\ tmpPath' \in {tmpPath, "missing"}
      /\ set' = [set EXCEPT ![s] = "failed"]
      /\ UNCHANGED <<content, statePath, want, fd, setsOverlap, lastSet>>
  BY DEF SetFails, ModeInv
<1>2. FilesInv'
  BY <1>1, SettersAssumption DEF FilesInv, Files, Original
<1>3. ASSUME ~setsOverlap PROVE AloneInv' /\ Get' = lastSet'
  <2>1. /\ AloneInv /\ Get = lastSet
        /\ \A r \in Setters : set[r] \in {"write", "rename"} => r = s
    BY <1>1, <1>3 DEF ModeInv, AloneInv
  <2>2. AloneInv'
    BY <1>1, <2>1 DEF AloneInv, FilesInv
  <2> QED
    BY <1>1, <2>1, <2>2 DEF Get
<1> QED
  BY <1>1, <1>2, <1>3 DEF ModeInv

LEMMA ModeKeeps ==
  ASSUME ModeInv, UNCHANGED modeVars
  PROVE  ModeInv'
BY DEF ModeInv, FilesInv, AloneInv, Get

LEMMA ModeNext == ModeInv /\ [SpeakNext]_speakTextVars => ModeInv'
<1> SUFFICES ASSUME ModeInv, [SpeakNext]_speakTextVars PROVE ModeInv'
  OBVIOUS
<1>1. ASSUME NEW s \in Setters, ModeStep(s) PROVE ModeInv'
  BY <1>1, OpenTempKeeps, WriteTempKeeps, RenameKeeps, SetFailsKeeps DEF ModeStep
<1>2. ASSUME NEW s \in Speakers, SpeakStep(s) PROVE UNCHANGED modeVars
  <2>1. Send(s) => UNCHANGED modeVars
    BY DEF Send
  <2>2. Play(s) => UNCHANGED modeVars
    BY DEF Play
  <2> QED
    BY <1>2, <2>1, <2>2 DEF SpeakStep, UseTo, UseSavedMode, Choose, Synthesize, SpeakRefused
<1> QED
  BY <1>1, <1>2, ModeKeeps DEF SpeakNext

(* The mode read is the one of the last Set that succeeded, whatever Set    *)
(* calls failed or died on the way, unless two processes have ever set it   *)
(* at the same time (voicemode.go's rename over the state file).            *)
THEOREM SpeakModeInForce == SpeakSpec => []ModeInForce
<1>1. SpeakInit => ModeInv
  BY ModeStart DEF SpeakInit
<1>2. ModeInv /\ [SpeakNext]_speakTextVars => ModeInv'
  BY ModeNext
<1>3. ModeInv => ModeInForce
  BY DEF ModeInv, ModeInForce
<1> QED
  BY <1>1, <1>2, <1>3, PTL DEF SpeakSpec

-----------------------------------------------------------------------------
(* The choice of a voice *)

(* A choice that was not refused names a provider there is. *)
Known(c)  == c.provider \in KnownProviders
Vetted(c) == Known(c) /\ (ValidVoice(c.provider, c.voice) \/ c.from = "env")

LEMMA ResolveVets ==
  ASSUME NEW cfg, NEW env, NEW name, cfg.providers \subseteq KnownProviders
  PROVE  LET r == Resolve(cfg, env, name) IN r = Refused \/ Vetted(r)
BY DEF Resolve, Ready, Choice, Vetted, Known

LEMMA ResolveVoiceVets ==
  ASSUME NEW cfg, NEW env, NEW p, NEW v, cfg.providers \subseteq KnownProviders
  PROVE  LET r == ResolveVoice(cfg, env, p, v) IN r = Refused \/ Vetted(r)
<1>1. CASE v = "" /\ HasVoiceList(p)
  <2>1. FirstVoice(p) \in VoiceList(p)
    BY <1>1 DEF HasVoiceList, FirstVoice
  <2> QED
    BY <1>1, <2>1 DEF ResolveVoice, Ready, Choice, Vetted, Known, ValidVoice
<1>2. CASE ~(v = "" /\ HasVoiceList(p))
  BY <1>2 DEF ResolveVoice, Ready, Choice, Vetted, Known
<1> QED
  BY <1>1, <1>2

LEMMA OverridesVet ==
  ASSUME NEW r, NEW v, r = Refused \/ Vetted(r)
  PROVE  LET c == ApplyOverrides(r, v) IN c = Refused \/ Vetted(c)
BY DEF ApplyOverrides, Choice, Vetted, Known

LEMMA DefaultVets ==
  ASSUME NEW cfg, NEW env, cfg.providers \subseteq KnownProviders
  PROVE  LET r == Default(cfg, env) IN r = Refused \/ Vetted(r)
<1>1. CASE env.provider # ""
  BY <1>1, ResolveVoiceVets DEF Default
<1>2. CASE env.provider = ""
  <2>1. PICK base : /\ base = Refused \/ Vetted(base)
                    /\ Default(cfg, env) =
                          IF base = Refused \/ env.voice = "" THEN base
                          ELSE Choice(base.provider, env.voice, "env")
    BY <1>2, ResolveVets DEF Default
  <2>2. CASE base = Refused \/ env.voice = ""
    BY <2>1, <2>2
  <2>3. CASE ~(base = Refused \/ env.voice = "")
    <3> DEFINE c == Choice(base.provider, env.voice, "env")
    <3>1. Default(cfg, env) = c /\ Known(base)
      BY <2>1, <2>3 DEF Vetted
    <3>2. c.provider = base.provider /\ c.from = "env"
      BY DEF Choice
    <3> QED
      BY <3>1, <3>2 DEF Vetted, Known
  <2> QED
    BY <2>2, <2>3
<1> QED
  BY <1>1, <1>2

(* Whatever the configuration file, the environment and the command line.  *)
LEMMA SelectionsVet == ASSUME NEW c \in Selections PROVE c = Refused \/ Vetted(c)
<1>1. PICK cfg, env, args :
         /\ c = Selection(cfg, env, args)
         /\ cfg \in {LoadOrDefault(f) : f \in Configs}
  BY DEF Selections
<1>2. cfg.providers \subseteq KnownProviders
  BY <1>1 DEF LoadOrDefault, DefaultConfig, KnownProviders
<1>3. CASE args.provider # ""
  BY <1>1, <1>2, <1>3, ResolveVoiceVets DEF Selection
<1>4. CASE args.provider = "" /\ args.profile # ""
  BY <1>1, <1>2, <1>4, ResolveVets, OverridesVet DEF Selection
<1>5. CASE args.provider = "" /\ args.profile = ""
  BY <1>1, <1>2, <1>5, DefaultVets, OverridesVet DEF Selection
<1> QED
  BY <1>3, <1>4, <1>5

-----------------------------------------------------------------------------
(* A run of speak-text *)

Destinations == {"computer", "phone", "both"}

(* What a run has delivered when it has seen to the phone. *)
Phoned(m, p) == Asked(m, p) \ {"speakers"}

(* What is known of a run that stands at at. *)
RunAt(at, m, c, d, a) ==
    /\ at \in {"start", "resolve", "telegram", "send", "local", "play", "done", "failed"}
    /\ at \in {"start", "resolve", "telegram", "send"} => d = {}
    /\ at = "start" => m = "none"
    /\ at \in {"resolve", "telegram", "send"} => m \in Destinations
    /\ at \in {"telegram", "send", "local", "play"} =>
          Vetted(c) /\ (SendsTelegram(m) => EmitsMP3(c.provider))
    /\ at \in {"telegram", "send"} => SendsTelegram(m)
    /\ at = "send" => MessageOf(a) \in Asked(m, c.provider)
    /\ at \in {"local", "play"} =>
          m \in Destinations /\ PlaysLocal(m) /\ d = Phoned(m, c.provider)
    /\ d \subseteq Asked(m, c.provider)
    /\ at = "done" \/ "speakers" \in d => d = Asked(m, c.provider)

(* What was known when speech was synthesized. *)
SpentAt(at, m, c) ==
    /\ at \notin {"start", "resolve"}
    /\ Vetted(c)
    /\ m # "off" /\ (SendsTelegram(m) => EmitsMP3(c.provider))

SpeakTypes ==
    /\ DOMAIN speak = Speakers /\ DOMAIN dest = Speakers /\ DOMAIN chosen = Speakers
    /\ DOMAIN audio = Speakers /\ DOMAIN delivered = Speakers
    /\ spent \subseteq Speakers

RunInv ==
    /\ SpeakTypes
    /\ \A s \in Speakers : RunAt(speak[s], dest[s], chosen[s], delivered[s], audio[s])
    /\ \A s \in Speakers : s \in spent => SpentAt(speak[s], dest[s], chosen[s])

LEMMA RunStart == SpeakInit => RunInv
BY DEF SpeakInit, RunInv, SpeakTypes, RunAt

(* A step of one run leaves the others alone. *)
OneRun(s) ==
    \A r \in Speakers \ {s} :
        /\ speak'[r] = speak[r] /\ dest'[r] = dest[r] /\ chosen'[r] = chosen[r]
        /\ audio'[r] = audio[r] /\ delivered'[r] = delivered[r]
        /\ r \in spent' => r \in spent

LEMMA OneRunKeeps ==
  ASSUME RunInv, NEW s \in Speakers, OneRun(s), SpeakTypes',
         RunAt(speak[s], dest[s], chosen[s], delivered[s], audio[s])',
         s \in spent' => SpentAt(speak[s], dest[s], chosen[s])'
  PROVE  RunInv'
BY DEF RunInv, OneRun

LEMMA RunOnly ==
  ASSUME SpeakTypes, NEW s \in Speakers, SpeakStep(s)
  PROVE  OneRun(s) /\ SpeakTypes'
<1> USE DEF SpeakTypes, OneRun, Becomes, Emits, Delivers
<1>1. CASE UseTo(s)
  BY <1>1 DEF UseTo
<1>2. CASE UseSavedMode(s)
  BY <1>2 DEF UseSavedMode
<1>3. CASE Choose(s)
  BY <1>3 DEF Choose
<1>4. CASE Synthesize(s)
  BY <1>4 DEF Synthesize, CallProvider
<1>5. CASE Send(s)
  BY <1>5 DEF Send
<1>6. CASE Play(s)
  BY <1>6 DEF Play
<1>7. CASE SpeakRefused(s)
  BY <1>7 DEF SpeakRefused
<1> QED
  BY <1>1, <1>2, <1>3, <1>4, <1>5, <1>6, <1>7 DEF SpeakStep

(* Something is asked for, of the phone, the speakers or both. *)
LEMMA AskedSome ==
  ASSUME NEW m \in Destinations, NEW p
  PROVE  /\ SendsTelegram(m) \/ PlaysLocal(m)
         /\ "speakers" \notin Phoned(m, p)
         /\ Phoned(m, p) \subseteq Asked(m, p)
         /\ PlaysLocal(m) => Asked(m, p) = Phoned(m, p) \cup {"speakers"}
         /\ ~SendsTelegram(m) => Phoned(m, p) = {}
BY DEF Asked, Phoned, SendsTelegram, PlaysLocal, Destinations

(* The message that is asked for is the only one. *)
LEMMA AskedMessage ==
  ASSUME NEW m \in Destinations, NEW p, NEW a, MessageOf(a) \in Asked(m, p), SendsTelegram(m)
  PROVE  /\ MessageOf(a) # "speakers"
         /\ Phoned(m, p) = {MessageOf(a)}
         /\ ~PlaysLocal(m) => Asked(m, p) = {MessageOf(a)}
<1>1. MessageOf(a) \in {"voice message", "audio file"}
  BY DEF MessageOf
<1> QED
  BY <1>1 DEF Asked, Phoned

(* A provider that emits MP3 gives Telegram what is asked for. *)
LEMMA AudioAsked ==
  ASSUME NEW m \in Destinations, SendsTelegram(m),
         NEW c, Known(c), EmitsMP3(c.provider),
         NEW out \in Audio(c.provider, c.voice, "opus"), out # "error"
  PROVE  MessageOf(out) \in Asked(m, c.provider)
<1>1. c.provider \in {"openai", "grok"}
  BY DEF Known, KnownProviders, EmitsMP3, DefaultFormat
<1>2. out = IF c.provider = "openai" THEN "opus" ELSE "mp3"
  BY <1>1 DEF Audio, OpenAIAudio, GrokAudio
<1> QED
  BY <1>2 DEF MessageOf, Asked

LEMMA RunStep ==
  ASSUME RunInv, NEW s \in Speakers, SpeakStep(s)
  PROVE  RunInv'
<1> DEFINE at == speak[s]  m == dest[s]  c == chosen[s]  d == delivered[s]  a == audio[s]
<1>1. SpeakTypes /\ RunAt(at, m, c, d, a) /\ (s \in spent => SpentAt(at, m, c))
  BY DEF RunInv
<1>2. OneRun(s) /\ SpeakTypes'
  BY <1>1, RunOnly
<1> SUFFICES RunAt(at, m, c, d, a)' /\ (s \in spent' => SpentAt(at, m, c)')
  BY <1>2, OneRunKeeps
<1> USE DEF SpeakTypes, Becomes
<1>3. CASE UseTo(s)
  <2>1. /\ at = "start" /\ at' = "resolve" /\ m' \in Destinations
        /\ d' = d /\ spent' = spent
    BY <1>1, <1>3 DEF UseTo, Destinations
  <2> QED
    BY <1>1, <2>1 DEF RunAt, SpentAt
<1>4. CASE UseSavedMode(s)
  <2>1. /\ at = "start" /\ m' = Get /\ d' = d /\ c' = c /\ spent' = spent
        /\ at' = IF Get = "off" THEN "done" ELSE "resolve"
    BY <1>1, <1>4 DEF UseSavedMode
  <2>2. Get \in Destinations \cup {"off"}
    BY DEF Get, Modes, Destinations
  <2>3. Asked("off", c.provider) = {}
    BY DEF Asked, PlaysLocal, SendsTelegram
  <2> QED
    BY <1>1, <2>1, <2>2, <2>3 DEF RunAt, SpentAt
<1>5. CASE Choose(s)
  <2>1. PICK sel \in Selections, tg \in TelegramConfigs :
           /\ at = "resolve" /\ c' = sel /\ m' = m /\ d' = d /\ spent' = spent
           /\ at' = IF sel = Refused THEN "failed"
                    ELSE IF ~SendsTelegram(m) THEN "local"
                    ELSE IF EmitsMP3(sel.provider) /\ TelegramSender(tg) THEN "telegram"
                    ELSE "failed"
    BY <1>1, <1>5 DEF Choose
  <2>2. sel = Refused \/ Vetted(sel)
    BY SelectionsVet
  <2>3. m \in Destinations /\ d = {} /\ s \notin spent'
    BY <1>1, <2>1 DEF RunAt, SpentAt
  <2> HIDE DEF at, m, c, d, a
  <2>4. CASE at' = "failed"
    BY <2>1, <2>3, <2>4, AskedSome DEF RunAt
  <2>5. CASE at' = "local"
    <3>1. Vetted(sel) /\ ~SendsTelegram(m)
      BY <2>1, <2>2, <2>5
    <3>2. PlaysLocal(m) /\ d = Phoned(m, sel.provider)
      BY <2>3, <3>1, AskedSome
    <3> QED
      BY <2>1, <2>3, <2>5, <3>1, <3>2 DEF RunAt
  <2>6. CASE at' = "telegram"
    BY <2>1, <2>2, <2>3, <2>6 DEF RunAt
  <2> QED
    BY <2>1, <2>4, <2>5, <2>6
<1>6. CASE Synthesize(s)
  <2>1. m' = m /\ c' = c /\ d' = d /\ spent' = spent \cup {s}
    BY <1>6 DEF Synthesize
  <2>4. \/ CallProvider(s, "telegram", "opus", "send") /\ at = "telegram"
        \/ CallProvider(s, "local", "", "play") /\ at = "local"
    BY <1>6 DEF Synthesize, CallProvider
  <2>2. CASE at = "telegram"
    <3>1. PICK out \in Audio(c.provider, c.voice, "opus") :
             a' = out /\ at' = IF out = "error" THEN "failed" ELSE "send"
      BY <1>1, <2>2, <2>4 DEF CallProvider, Emits
    <3>2. /\ m \in Destinations /\ d = {} /\ SendsTelegram(m)
          /\ Vetted(c) /\ EmitsMP3(c.provider)
      BY <1>1, <2>2 DEF RunAt
    <3>3. m # "off"
      BY <3>2 DEF Destinations
    <3> HIDE DEF at, m, c, d, a
    <3>4. out # "error" => MessageOf(out) \in Asked(m, c.provider)
      BY <3>2, AudioAsked DEF Vetted
    <3>5. RunAt(at', m, c, d, a')
      BY <3>1, <3>2, <3>4 DEF RunAt
    <3>6. SpentAt(at', m, c)
      BY <3>1, <3>2, <3>3 DEF SpentAt
    <3> QED
      BY <2>1, <3>5, <3>6
  <2>3. CASE at = "local"
    <3>1. at' \in {"failed", "play"}
      BY <1>1, <2>3, <2>4 DEF CallProvider, Emits
    <3>2. /\ m \in Destinations /\ PlaysLocal(m) /\ d = Phoned(m, c.provider)
          /\ Vetted(c) /\ (SendsTelegram(m) => EmitsMP3(c.provider))
      BY <1>1, <2>3 DEF RunAt
    <3>3. m # "off"
      BY <3>2 DEF Destinations
    <3> HIDE DEF at, m, c, d, a
    <3>4. "speakers" \notin d /\ d \subseteq Asked(m, c.provider)
      BY <3>2, AskedSome
    <3>5. RunAt(at', m, c, d, a')
      BY <3>1, <3>2, <3>4 DEF RunAt
    <3>6. SpentAt(at', m, c)
      BY <3>1, <3>2, <3>3 DEF SpentAt
    <3> QED
      BY <2>1, <3>5, <3>6
  <2> QED
    BY <2>2, <2>3, <2>4
<1>7. CASE Send(s)
  <2>1. PICK out \in Message(a) :
           /\ at = "send" /\ m' = m /\ c' = c /\ a' = a /\ spent' = spent
           /\ out = "error" => at' = "failed" /\ d' \in {d, d \cup {MessageOf(a)}}
           /\ out # "error" => /\ at' = IF PlaysLocal(m) THEN "local" ELSE "done"
                               /\ d' = d \cup {MessageOf(a)}
    BY <1>1, <1>7 DEF Send, Delivers
  <2>2. /\ m \in Destinations /\ d = {} /\ SendsTelegram(m)
        /\ Vetted(c) /\ EmitsMP3(c.provider) /\ MessageOf(a) \in Asked(m, c.provider)
    BY <1>1, <2>1 DEF RunAt
  <2>3. s \in spent => SpentAt(at', m, c)
    BY <1>1, <2>1 DEF SpentAt
  <2> HIDE DEF at, m, c, d, a
  <2>4. /\ MessageOf(a) # "speakers"
        /\ Phoned(m, c.provider) = {MessageOf(a)}
        /\ ~PlaysLocal(m) => Asked(m, c.provider) = {MessageOf(a)}
    BY <2>2, AskedMessage
  <2>5. RunAt(at', m, c, d', a)
    BY <2>1, <2>2, <2>4 DEF RunAt
  <2> QED
    BY <2>1, <2>3, <2>5
<1>8. CASE Play(s)
  <2>1. /\ at = "play" /\ m' = m /\ c' = c /\ a' = a /\ spent' = spent
        /\ \/ at' \in {"done", "failed"} /\ d' = d \cup {"speakers"}
           \/ at' = "failed" /\ d' = d
    BY <1>1, <1>8 DEF Play, Delivers
  <2>2. m \in Destinations /\ PlaysLocal(m) /\ d = Phoned(m, c.provider)
    BY <1>1, <2>1 DEF RunAt
  <2>3. s \in spent => SpentAt(at', m, c)
    BY <1>1, <2>1 DEF SpentAt
  <2> HIDE DEF at, m, c, d, a
  <2>4. RunAt(at', m, c, d', a)
    BY <2>1, <2>2, AskedSome DEF RunAt
  <2> QED
    BY <2>1, <2>3, <2>4
<1>9. CASE SpeakRefused(s)
  <2>1. /\ at = "start" /\ at' = "failed" /\ m' = m /\ d' = d /\ spent' = spent
    BY <1>1, <1>9 DEF SpeakRefused
  <2>2. d = {}
    BY <1>1, <2>1 DEF RunAt
  <2> QED
    BY <1>1, <2>1, <2>2 DEF RunAt, SpentAt
<1> QED
  BY <1>3, <1>4, <1>5, <1>6, <1>7, <1>8, <1>9 DEF SpeakStep

LEMMA RunNext == RunInv /\ [SpeakNext]_speakTextVars => RunInv'
<1> SUFFICES ASSUME RunInv, [SpeakNext]_speakTextVars PROVE RunInv'
  OBVIOUS
<1>1. CASE UNCHANGED speakVars
  BY <1>1 DEF RunInv, SpeakTypes
<1>2. ASSUME NEW s \in Speakers, SpeakStep(s) PROVE RunInv'
  BY <1>2, RunStep
<1> QED
  BY <1>1, <1>2 DEF SpeakNext

LEMMA RunCorrect == SpeakSpec => []RunInv
BY RunStart, RunNext, PTL DEF SpeakSpec

(* A run of speak-text delivers only where the mode or -to asks for it, and *)
(* everywhere there when it succeeds or has spoken, whatever its calls do   *)
(* behind an error; off costs nothing, and nothing is spent on a phone that *)
(* the provider's format cannot reach (runSpeak in main.go).                *)
THEOREM SpeakSpokenAsAsked == SpeakSpec => []SpokenAsAsked
<1>1. RunInv => SpokenAsAsked
  BY DEF RunInv, RunAt, SpentAt, SpokenAsAsked
<1> QED
  BY <1>1, RunCorrect, PTL

(* No speech is synthesized with a voice that its provider does not have,   *)
(* whatever the configuration, the environment and the command line, but    *)
(* for CLAUDE_TTS_VOICE over a profile (ttsconfig's resolution).            *)
THEOREM SpeakVoiceVetted == SpeakSpec => []VoiceVetted
<1>1. RunInv => VoiceVetted
  BY DEF RunInv, SpeakTypes, SpentAt, Vetted, VoiceVetted
<1> QED
  BY <1>1, RunCorrect, PTL
=============================================================================
