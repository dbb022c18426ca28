---------------------------- MODULE Arguments_proofs ----------------------------
(***************************************************************************)
(* For any command line, files, providers and numbers: a profile that is   *)
(* about to be made has options that go together as the usage text says,   *)
(* and arguments on which DoProfile and the profilers can rely.            *)
(*                                                                         *)
(* The checks of SemaArguments come one after the other, each of them sees *)
(* the options and what the earlier ones have found out: the invariant     *)
(* says, for each stage, what the stages before it have left.              *)
(*                                                                         *)
(* And no option gets lost on the way from the line to these checks, which *)
(* is about sequences: unpacking a line is unpacking its parts, and what   *)
(* comes before a "--" stays before it.  The same facts show that a usual  *)
(* line gets through, see UsualInv.                                        *)
(***************************************************************************)
EXTENDS Arguments, SequenceLemmas, TLAPS

(* What options can be given, the command and the process not counted.     *)
OptionFields ==
    {"outputFile", "outputDir", "target", "help", "verbose", "debug", "minidump",
     "samplingRate", "emulate", "compressionMode", "minidumpFlags", "userProviders",
     "version", "noLogo", "cswitch", "stackCache", "noAction", "profileChildren",
     "waitForChildren"}

ArgumentNames ==
    {"targetMode", "targetIsPID", "targetPID", "compressionMode", "output", "added",
     "samplingRate", "providers"}

(* The stages in which a check has been passed, the last one first.        *)
AfterStackCache  == {"Run", "DoProfile"}
AfterProviders   == AfterStackCache \cup {"SemaStackCache"}
AfterChildren    == AfterProviders \cup {"SemaUserProviderInfos"}
AfterMinidump    == AfterChildren \cup {"SemaChildProcessProfiling"}
AfterRate        == AfterMinidump \cup {"SemaMinidump"}
AfterOutput      == AfterRate \cup {"SemaSamplingRate"}
AfterCompression == AfterOutput \cup {"SemaOutputPath"}
AfterTarget      == AfterCompression \cup {"SemaCompressionMode"}
AfterParsing     == AfterTarget \cup {"SemaTarget", "SemaInputETLPath", "NotProfiling"}

-------------------------------------------------------------------------------
(* What each of them leaves, for a line with the command. *)

(* Nothing that Run answers itself.                                        *)
Silent == raw.fields \cap {"help", "version", "noAction"} = {}

ParsedInv ==
    stage \in AfterParsing =>
        /\ raw.fields \subseteq OptionFields \cup {"profile", "startCommandLine"}
        /\ stage = "NotProfiling" => ~Given("profile")
        /\ stage = "DoProfile" => Given("profile") /\ Silent

TargetInv ==
    stage \in AfterTarget =>
        /\ TargetOK
        /\ args.targetMode = IF Given("target") THEN "Attach" ELSE "Start"
        /\ args.targetIsPID => Given("target")
        /\ Given("target") =>
            /\ args.targetPID = PID(raw.value["target"])
            /\ args.targetIsPID <=> PID(raw.value["target"]) # 0

CompressionInv ==
    LET v == raw.value["compressionMode"] IN
    stage \in AfterCompression =>
        (v # "" => args.compressionMode = CompressionModes[v])

OutputInv ==
    stage \in AfterOutput =>
        /\ Given("outputFile") # Given("outputDir")
        /\ args.output = PathExpandEnvVars(raw.value["output"])
        /\ Given("outputFile") => TraceExtension \in {PathGetExtension(args.output), args.added}

RateInv ==
    stage \in AfterRate =>
        /\ Given("samplingRate") => ~Given("emulate")
        /\ args.samplingRate \in {0} \cup SamplingRates
        /\ Given("samplingRate") => args.samplingRate = Number(raw.value["samplingRate"])

MinidumpInv == stage \in AfterMinidump => MinidumpOK

ChildrenInv == stage \in AfterChildren => (Given("waitForChildren") => Given("profileChildren"))

ProvidersInv ==
    LET v == raw.value["userProviders"] IN
    stage \in AfterProviders =>
        /\ \A i, j \in DOMAIN args.providers :
            i # j => args.providers[i].guid # args.providers[j].guid
        /\ Given("userProviders") /\ v \in DOMAIN Descriptors =>
            \A i \in DOMAIN Descriptors[v] :
                ProviderInfo(Descriptors[v][i]) \in Range(args.providers)

StackCacheInv == stage \in AfterStackCache => (Given("stackCache") => ~Given("emulate"))

ProfileInv ==
    /\ TargetInv /\ CompressionInv /\ OutputInv /\ RateInv /\ MinidumpInv
    /\ ChildrenInv /\ ProvidersInv /\ StackCacheInv

IInv ==
    /\ DOMAIN args = ArgumentNames
    /\ ParsedInv
    /\ Given("profile") => ProfileInv

-------------------------------------------------------------------------------

(* The tables of the parser know no other options, and no text that is no  *)
(* option.                                                                 *)
LEMMA TableIsKnown ==
    ASSUME NEW form, NEW name \in DOMAIN Table(form)
    PROVE  Table(form)[name] \in OptionFields
<1> PICK table : table = Table(form)
    OBVIOUS
<1>1. CASE form = "-assign"
    <2>1. table = [o |-> "outputFile", t |-> "target"]
        BY <1>1 DEF Table
    <2> QED BY <2>1 DEF OptionFields
<1>2. CASE form = "-flag"
    <2>1. table = [h |-> "help", v |-> "verbose", d |-> "debug", m |-> "minidump"]
        BY <1>2 DEF Table
    <2> QED BY <2>1 DEF OptionFields
<1>3. CASE form = "--assign"
    <2>1. table = [output |-> "outputFile", outdir |-> "outputDir", target |-> "target",
                   rate |-> "samplingRate", emulate |-> "emulate",
                   compress |-> "compressionMode", mflags |-> "minidumpFlags",
                   enable |-> "userProviders"]
        BY <1>3 DEF Table
    <2> QED BY <2>1 DEF OptionFields
<1>4. CASE form = "--flag"
    <2>1. table = [help |-> "help", version |-> "version", verbose |-> "verbose",
                   nologo |-> "noLogo", debug |-> "debug", cswitch |-> "cswitch",
                   mdump |-> "minidump", scache |-> "stackCache", noaction |-> "noAction",
                   children |-> "profileChildren", waitchildren |-> "waitForChildren"]
        BY <1>4 DEF Table
    <2> QED BY <2>1 DEF OptionFields
<1>5. CASE form \notin {"-assign", "-flag", "--assign", "--flag"}
    <2>1. table = <<>>
        BY <1>5 DEF Table
    <2> QED BY <2>1
<1> QED BY <1>1, <1>2, <1>3, <1>4, <1>5

(* The member that an option sets is one of those.                         *)
LEMMA FieldIsKnown ==
    ASSUME NEW t, Understood(t)
    PROVE  Field(t) \in OptionFields
BY TableIsKnown DEF Understood, Field

(* What is parsed says whether there is a command, and a process to start. *)
LEMMA ParsedFields ==
    ASSUME NEW s, NEW blank, CanParse(s, blank)
    PROVE  /\ Parsed(s).fields \subseteq OptionFields \cup {"profile", "startCommandLine"}
           /\ "profile" \in Parsed(s).fields <=> HasCommand(s)
           /\ Fields(s) \subseteq OptionFields
<1>1. Fields(s) \subseteq OptionFields
    BY FieldIsKnown DEF Fields, CanParse
<1>2. "profile" \notin OptionFields /\ "startCommandLine" \notin OptionFields
    BY DEF OptionFields
<1> QED
    BY <1>1, <1>2 DEF Parsed, CanParse

(* Nothing is parsed yet.                                                  *)
LEMMA InitInv == Init => IInv
<1> SUFFICES ASSUME Init PROVE IInv
    OBVIOUS
<1>1. args = Unset
    BY DEF Init
<1>2. DOMAIN args = ArgumentNames
    BY <1>1 DEF Unset, ArgumentNames
<1>3. ~Given("profile") /\ ParsedInv
    BY DEF Init, ParsedInv, Given, AfterParsing, AfterTarget,
       AfterCompression, AfterOutput, AfterRate, AfterMinidump, AfterChildren, AfterProviders,
       AfterStackCache
<1> QED BY <1>2, <1>3 DEF IInv

-------------------------------------------------------------------------------
(* A stage is entered from the one before it. *)

Entered ==
    /\ stage' \in AfterParsing    => stage \in AfterParsing \/ ParseArguments
    /\ stage' = "NotProfiling"    => stage = "NotProfiling" \/ ParseArguments
    /\ stage' = "DoProfile"       =>
          stage = "DoProfile" \/ (stage = "Run" /\ Given("profile") /\ Silent)
    /\ stage' \in AfterTarget     => stage \in AfterTarget \/ SemaTarget \/ NotProfiling
    /\ stage' \in AfterCompression =>
          stage \in AfterCompression \/ SemaCompressionMode \/ NotProfiling
    /\ stage' \in AfterOutput     => stage \in AfterOutput \/ SemaOutputPath \/ NotProfiling
    /\ stage' \in AfterRate       => stage \in AfterRate \/ SemaSamplingRate \/ NotProfiling
    /\ stage' \in AfterMinidump   => stage \in AfterMinidump \/ SemaMinidump \/ NotProfiling
    /\ stage' \in AfterChildren   =>
          stage \in AfterChildren \/ SemaChildProcessProfiling \/ NotProfiling
    /\ stage' \in AfterProviders  =>
          stage \in AfterProviders \/ SemaUserProviderInfos \/ NotProfiling
    /\ stage' \in AfterStackCache => stage \in AfterStackCache \/ SemaStackCache \/ NotProfiling

(* What a stage has found out stays as it is. *)

Kept ==
    /\ stage \in AfterParsing     => raw' = raw
    /\ stage \in AfterTarget      => /\ args'.targetMode = args.targetMode
                                     /\ args'.targetIsPID = args.targetIsPID
                                     /\ args'.targetPID = args.targetPID
    /\ stage \in AfterCompression => args'.compressionMode = args.compressionMode
    /\ stage \in AfterOutput      => args'.output = args.output /\ args'.added = args.added
    /\ stage \in AfterRate        => args'.samplingRate = args.samplingRate
    /\ stage \in AfterProviders   => args'.providers = args.providers

(* The rate that SemaSamplingRate takes over, and the one that it accepts.  *)
LEMMA RateEffect ==
    ASSUME SemaSamplingRate
    PROVE  \E rate :
            /\ args' = [args EXCEPT !.samplingRate = rate]
            /\ stage = "SemaSamplingRate" /\ stage' \in {"SemaMinidump", "usage"}
            /\ line' = line /\ raw' = raw
            /\ rate = IF Given("samplingRate") THEN Number(raw.value["samplingRate"]) ELSE 0
            /\ stage' # "usage" => (Given("samplingRate") => ~Given("emulate") /\ rate \in SamplingRates)
<1> PICK rate : rate = IF Given("samplingRate") THEN Number(raw.value["samplingRate"]) ELSE 0
    OBVIOUS
<1> QED
    BY DEF SemaSamplingRate, Passes

(* The providers that pass are distinct, and those that were asked for.    *)
LEMMA ProvidersEffect ==
    ASSUME SemaUserProviderInfos, stage' # "usage", DOMAIN args = ArgumentNames
    PROVE  /\ \A i, j \in DOMAIN args'.providers :
                i # j => args'.providers[i].guid # args'.providers[j].guid
           /\ Given("userProviders") /\ raw.value["userProviders"] \in DOMAIN Descriptors =>
                \A i \in DOMAIN Descriptors[raw.value["userProviders"]] :
                    ProviderInfo(Descriptors[raw.value["userProviders"]][i]) \in Range(args'.providers)
<1> PICK ds : ds = IF Given("userProviders") /\ raw.value["userProviders"] \in DOMAIN Descriptors
                     THEN Descriptors[raw.value["userProviders"]] ELSE <<>>
    OBVIOUS
<1>1. /\ CheckForDuplicateProviders(ds)
      /\ args' = [args EXCEPT !.providers = [i \in DOMAIN ds |-> ProviderInfo(ds[i])]]
    BY DEF SemaUserProviderInfos, Passes, ProvidersOK
<1>2. PICK P : P = args'.providers
    OBVIOUS
<1>3. P = [i \in DOMAIN ds |-> ProviderInfo(ds[i])]
    BY <1>1, <1>2 DEF ArgumentNames
<1>4. \A i \in DOMAIN ds : P[i] = ProviderInfo(ds[i]) /\ P[i].guid = GUIDOf(ds[i])
    BY <1>3 DEF ProviderInfo
<1>5. DOMAIN P = DOMAIN ds
    BY <1>3
<1>6. \A i, j \in DOMAIN P : i # j => P[i].guid # P[j].guid
    BY <1>1, <1>4, <1>5 DEF CheckForDuplicateProviders
<1>7. \A i \in DOMAIN ds : ProviderInfo(ds[i]) \in Range(P)
    BY <1>4, <1>5 DEF Range
<1> QED
    BY <1>2, <1>6, <1>7

(* One step per stage: which members of raw and args it writes.            *)
LEMMA StepKeeps ==
    ASSUME [Next]_vars, DOMAIN args = ArgumentNames
    PROVE  Kept /\ Entered /\ line' = line /\ DOMAIN args' = ArgumentNames
<1> USE DEF Kept, Entered, ArgumentNames, AfterParsing, AfterTarget, AfterCompression,
            AfterOutput, AfterRate, AfterMinidump, AfterChildren, AfterProviders, AfterStackCache
<1>1. CASE UnpackRespFiles
    <2>1. /\ stage = "UnpackRespFiles" /\ stage' \in {"UnpackRespFiles", "usage", "ParseArguments"}
          /\ raw' = raw /\ args' = args /\ line' = line
        BY <1>1 DEF UnpackRespFiles
    <2> QED BY <2>1
<1>2. CASE ParseArguments
    BY <1>2 DEF ParseArguments, Passes
<1>3. CASE SemaInputETLPath
    BY <1>3 DEF SemaInputETLPath, Passes
<1>4. CASE SemaTarget
    BY <1>4 DEF SemaTarget, Passes
<1>5. CASE SemaCompressionMode
    BY <1>5 DEF SemaCompressionMode, Passes
<1>6. CASE SemaOutputPath
    BY <1>6 DEF SemaOutputPath, Passes
<1>7. CASE SemaSamplingRate
    <2>1. /\ \E rate : args' = [args EXCEPT !.samplingRate = rate]
          /\ stage = "SemaSamplingRate" /\ stage' \in {"SemaMinidump", "usage"}
          /\ line' = line /\ raw' = raw
        BY <1>7, RateEffect
    <2> QED BY <1>7, <2>1
<1>8. CASE SemaMinidump
    BY <1>8 DEF SemaMinidump, Passes
<1>9. CASE SemaChildProcessProfiling
    BY <1>9 DEF SemaChildProcessProfiling, Passes
<1>10. CASE SemaUserProviderInfos
    BY <1>10 DEF SemaUserProviderInfos, Passes
<1>11. CASE SemaStackCache
    BY <1>11 DEF SemaStackCache, Passes
<1>12. CASE NotProfiling
    BY <1>12 DEF NotProfiling, Passes
<1>13. CASE InitCOMFails
    BY <1>13 DEF InitCOMFails
<1>14. CASE Run
    BY <1>14 DEF Run, Silent, Given
<1>15. CASE DoProfile
    BY <1>15 DEF DoProfile
<1>16. CASE UNCHANGED vars
    BY <1>16 DEF vars
<1> QED
    BY <1>1, <1>2, <1>3, <1>4, <1>5, <1>6, <1>7, <1>8, <1>9, <1>10, <1>11, <1>12, <1>13,
       <1>14, <1>15, <1>16 DEF Next, SemaArguments

-------------------------------------------------------------------------------
(* Every stage adds what it has checked, and takes nothing back. *)

Step == /\ [Next]_vars /\ Kept /\ Entered /\ line' = line
        /\ DOMAIN args = ArgumentNames
        /\ ParsedInv

(* StartCommandLine is a part of what was typed.                           *)
LEMMA LineStays == ASSUME line' = line PROVE StartCommandLine' = StartCommandLine
BY DEF StartCommandLine

(* The parser's facts are those of its one step.                           *)
LEMMA ParsedStep == ASSUME Step PROVE ParsedInv'
<1> SUFFICES ASSUME stage' \in AfterParsing
             PROVE  /\ raw'.fields \subseteq OptionFields \cup {"profile", "startCommandLine"}
                    /\ stage' = "NotProfiling" => "profile" \notin raw'.fields
                    /\ stage' = "DoProfile" => "profile" \in raw'.fields /\ Silent'
    BY DEF Step, ParsedInv, Given
<1>1. CASE stage \in AfterParsing
    <2>1. /\ raw' = raw
          /\ stage' = "NotProfiling" => stage = "NotProfiling"
          /\ stage' = "DoProfile" => Given("profile") /\ Silent
        BY <1>1 DEF ParsedInv, Step, Kept, Entered, ParseArguments, Passes, AfterParsing, AfterTarget,
                    AfterCompression, AfterOutput, AfterRate, AfterMinidump, AfterChildren,
                    AfterProviders, AfterStackCache
    <2> QED BY <1>1, <2>1 DEF Step, ParsedInv, Given, Silent
<1>2. CASE ParseArguments
    <2> PICK s : s = Rest(tokens)
        OBVIOUS
    <2>1. PICK blank \in BOOLEAN :
          /\ stage' = IF CanParse(s, blank)
                      THEN IF ~HasCommand(s) THEN "NotProfiling"
                           ELSE IF "emulate" \in Fields(s) THEN "SemaInputETLPath"
                           ELSE "SemaTarget"
                      ELSE "usage"
          /\ CanParse(s, blank) => raw' = Parsed(s)
        BY <1>2 DEF ParseArguments, Passes
    <2>2. CanParse(s, blank)
        BY <2>1 DEF AfterParsing, AfterTarget, AfterCompression, AfterOutput, AfterRate,
                    AfterMinidump, AfterChildren, AfterProviders, AfterStackCache
    <2> QED BY <2>1, <2>2, ParsedFields
<1> QED BY <1>1, <1>2 DEF Step, Entered

(* With the command, a stage is not reached from NotProfiling.             *)
LEMMA NotFromThere ==
    ASSUME Step, "profile" \in raw'.fields
    PROVE  ~NotProfiling
<1> SUFFICES ASSUME NotProfiling PROVE FALSE
    OBVIOUS
<1>1. stage = "NotProfiling" /\ raw' = raw
    BY DEF NotProfiling, Passes
<1> QED
    BY <1>1 DEF Step, ParsedInv, Given, AfterParsing

(* The options are known before any stage after the parser.                *)
LEMMA ProfileStep ==
    ASSUME Step, ProfileInv, "profile" \in raw'.fields
    PROVE  ProfileInv'
<1> USE NotFromThere DEF Step, Given, AfterParsing, AfterTarget, AfterCompression, AfterOutput,
        AfterRate, AfterMinidump, AfterChildren, AfterProviders, AfterStackCache
<1> SUFFICES ASSUME stage' \in AfterTarget PROVE ProfileInv'
    BY DEF ProfileInv, TargetInv, CompressionInv, OutputInv, RateInv, MinidumpInv, ChildrenInv,
           ProvidersInv, StackCacheInv
<1>0. raw' = raw
    BY DEF Entered, Kept, SemaTarget, Passes
<1>1. TargetInv'
    <2>1. CASE stage \in AfterTarget
        BY <1>0, <2>1, LineStays DEF ProfileInv, TargetInv, TargetOK, Kept
    <2>2. CASE SemaTarget
        <3>1. TargetOK /\ TargetOK'
            BY <1>0, <2>2, LineStays DEF SemaTarget, Passes, TargetOK
        <3>2. /\ args'.targetMode = IF Given("target") THEN "Attach" ELSE "Start"
              /\ args'.targetIsPID <=> Given("target") /\ PID(raw.value["target"]) # 0
              /\ args'.targetPID = IF Given("target") THEN PID(raw.value["target"]) ELSE 0
            BY <2>2 DEF SemaTarget, ArgumentNames
        <3> QED BY <1>0, <3>1, <3>2 DEF TargetInv
    <2> QED BY <2>1, <2>2 DEF Entered
<1>8. CompressionInv'
    <2> SUFFICES ASSUME stage' \in AfterCompression PROVE CompressionInv'
        BY DEF CompressionInv
    <2>1. CASE stage \in AfterCompression
        BY <1>0, <2>1 DEF ProfileInv, CompressionInv, Kept
    <2>2. CASE SemaCompressionMode
        <3> PICK v : v = raw.value["compressionMode"]
            OBVIOUS
        <3>1. v = "" \/ v \in DOMAIN CompressionModes
            BY <2>2 DEF SemaCompressionMode, Passes
        <3>2. v # "" => args'.compressionMode = CompressionModes[v]
            BY <2>2, <3>1 DEF SemaCompressionMode, ArgumentNames
        <3> QED BY <1>0, <3>2 DEF CompressionInv
    <2> QED BY <2>1, <2>2 DEF Entered
<1>2. OutputInv'
    <2> SUFFICES ASSUME stage' \in AfterOutput PROVE OutputInv'
        BY DEF OutputInv
    <2>1. CASE stage \in AfterOutput
        BY <1>0, <2>1 DEF ProfileInv, OutputInv, TraceExtension, Kept
    <2>2. CASE SemaOutputPath
        <3> PICK p : p = PathExpandEnvVars(raw.value["output"])
            OBVIOUS
        <3>1. OutputOK(p)
            BY <2>2 DEF SemaOutputPath, Passes
        <3>2. args' = [args EXCEPT !.output = p,
                                   !.added = IF Given("outputFile") /\ PathGetExtension(p) = ""
                                               THEN TraceExtension ELSE ""]
            BY <2>2, <3>1 DEF SemaOutputPath
        <3>3. /\ args'.output = p /\ args'.compressionMode = args.compressionMode
              /\ args'.added = IF Given("outputFile") /\ PathGetExtension(p) = ""
                                  THEN TraceExtension ELSE ""
            BY <3>2 DEF ArgumentNames
        <3>4. TraceExtension' = TraceExtension
            BY <3>3 DEF TraceExtension
        <3> QED BY <1>0, <3>1, <3>3, <3>4 DEF OutputOK, OutputInv
    <2> QED BY <2>1, <2>2 DEF Entered
<1>3. RateInv'
    <2> SUFFICES ASSUME stage' \in AfterRate PROVE RateInv'
        BY DEF RateInv
    <2>1. CASE stage \in AfterRate
        BY <1>0, <2>1 DEF ProfileInv, RateInv, Kept
    <2>2. CASE SemaSamplingRate
        BY <1>0, <2>2, RateEffect DEF RateInv, ArgumentNames
    <2> QED BY <2>1, <2>2 DEF Entered
<1>4. MinidumpInv'
    <2> SUFFICES ASSUME stage' \in AfterMinidump PROVE MinidumpOK'
        BY DEF MinidumpInv
    <2>1. CASE stage \in AfterMinidump
        BY <1>0, <2>1 DEF ProfileInv, MinidumpInv, MinidumpOK, Kept
    <2>2. CASE SemaMinidump
        BY <1>0, <2>2 DEF SemaMinidump, Passes, MinidumpOK
    <2> QED BY <2>1, <2>2 DEF Entered
<1>5. ChildrenInv'
    <2>1. CASE stage \in AfterChildren
        BY <1>0, <2>1 DEF ProfileInv, ChildrenInv
    <2>2. CASE SemaChildProcessProfiling
        BY <1>0, <2>2 DEF SemaChildProcessProfiling, Passes, ChildrenInv
    <2> QED BY <2>1, <2>2 DEF Entered, ChildrenInv
<1>6. ProvidersInv'
    <2> SUFFICES ASSUME stage' \in AfterProviders PROVE ProvidersInv'
        BY DEF ProvidersInv
    <2>1. CASE stage \in AfterProviders
        BY <1>0, <2>1 DEF ProfileInv, ProvidersInv, Kept
    <2>2. CASE SemaUserProviderInfos
        BY <1>0, <2>2, ProvidersEffect DEF ProvidersInv
    <2> QED BY <2>1, <2>2 DEF Entered
<1>7. StackCacheInv'
    <2>1. CASE stage \in AfterStackCache
        BY <1>0, <2>1 DEF ProfileInv, StackCacheInv
    <2>2. CASE SemaStackCache
        BY <1>0, <2>2 DEF SemaStackCache, Passes, StackCacheInv
    <2> QED BY <2>1, <2>2 DEF Entered, StackCacheInv
<1> QED BY <1>1, <1>2, <1>3, <1>4, <1>5, <1>6, <1>7, <1>8 DEF ProfileInv

(* A line that gets the command now is only parsed.                        *)
LEMMA CommandStep ==
    ASSUME Step, ~Given("profile"), "profile" \in raw'.fields
    PROVE  ProfileInv'
<1>1. stage \notin AfterParsing
    BY DEF Step, Kept, Given
<1>2. stage' \notin AfterTarget
    BY <1>1, NotFromThere
    DEF Step, Entered, SemaTarget, Passes, AfterParsing, AfterTarget, AfterCompression,
        AfterOutput, AfterRate, AfterMinidump, AfterChildren, AfterProviders, AfterStackCache
<1> QED
    BY <1>2 DEF ProfileInv, TargetInv, CompressionInv, OutputInv, RateInv, MinidumpInv, ChildrenInv,
        ProvidersInv, StackCacheInv, AfterTarget, AfterCompression,
        AfterOutput, AfterRate, AfterMinidump, AfterChildren, AfterProviders, AfterStackCache

(* The three lemmas above, put together.                                   *)
LEMMA StepInv == IInv /\ [Next]_vars => IInv'
<1> SUFFICES ASSUME IInv, [Next]_vars PROVE IInv'
    OBVIOUS
<1>1. Step /\ DOMAIN args' = ArgumentNames
    BY StepKeeps DEF IInv, Step
<1>2. ParsedInv'
    BY <1>1, ParsedStep
<1>3. ASSUME "profile" \in raw'.fields PROVE ProfileInv'
    BY <1>1, <1>3, ProfileStep, CommandStep DEF IInv, Given
<1> QED
    BY <1>1, <1>2, <1>3 DEF IInv, Given

(* IInv is an invariant.                                                   *)
LEMMA Inductive == Spec => []IInv
BY InitInv, StepInv, PTL DEF Spec

(* DoProfile and the constructors of the profilers find what they assert   *)
(* or take for granted, whatever the command line and the files say.       *)
THEOREM ProfilesArePossible == Spec => []ProfileIsPossible
<1>1. IInv => ProfileIsPossible
    <2> SUFFICES ASSUME IInv, stage = "DoProfile" PROVE ProfileIsPossible
        BY DEF ProfileIsPossible
    <2> USE DEF Given, AfterParsing, AfterTarget, AfterCompression, AfterOutput, AfterRate,
            AfterMinidump, AfterChildren, AfterProviders, AfterStackCache
    <2>1. ParsedInv /\ ProfileInv
        BY DEF IInv, ParsedInv
    <2>2. /\ TargetOK
          /\ args.targetMode = IF Given("target") THEN "Attach" ELSE "Start"
          /\ args.targetIsPID <=> Given("target") /\ PID(raw.value["target"]) # 0
          /\ args.targetIsPID => args.targetPID = PID(raw.value["target"])
        BY <2>1 DEF ProfileInv, TargetInv
    <2>3. \A v : PID(v) # 0 => PID(v) \in 1 .. DWORDs - 1
        <3> SUFFICES ASSUME NEW v, PID(v) # 0 PROVE PID(v) \in 1 .. DWORDs - 1
            OBVIOUS
        <3>1. Number(v) \in Int /\ DWORDs \in Nat \ {0}
            BY ArgumentsAssumption DEF Number
        <3> QED BY <3>1 DEF PID
    <2>4. /\ Given("emulate") => args.targetIsPID /\ args.targetMode = "Attach"
          /\ args.targetIsPID => args.targetPID \in 1 .. DWORDs - 1
        BY <2>2, <2>3 DEF TargetOK
    <2>5. Given("emulate") => ~Given("stackCache")
        BY <2>1 DEF ProfileInv, StackCacheInv
    <2>6. Given("minidump") => args.targetMode = "Attach" /\ ~Given("emulate")
        BY <2>1, <2>2 DEF ProfileInv, MinidumpInv, MinidumpOK
    <2>7. args.targetMode = "Start" => StartCommandLine # <<>>
        BY <2>2 DEF TargetOK
    <2>8. Given("outputFile") => TraceExtension \in {PathGetExtension(args.output), args.added}
        BY <2>1 DEF ProfileInv, OutputInv
    <2>9. args.samplingRate \in {0} \cup SamplingRates
        BY <2>1 DEF ProfileInv, RateInv
    <2>10. ProvidersInv
        BY <2>1 DEF ProfileInv
    <2> QED
        BY <2>4, <2>5, <2>6, <2>7, <2>8, <2>9, <2>10 DEF ProfileIsPossible, ProvidersInv
<1> QED BY <1>1, Inductive, PTL

(* SemaArguments lets no combination of options pass that the usage text   *)
(* does not show, but for the exceptions of ProfilesFollowUsage.           *)
THEOREM ProfilesAreUsual == Spec => []ProfilesFollowUsage
<1>1. IInv => ProfilesFollowUsage
    <2> SUFFICES ASSUME IInv, stage = "Run", Given("profile") PROVE ProfilesFollowUsage
        BY DEF ProfilesFollowUsage
    <2> USE DEF Given, AfterParsing, AfterTarget, AfterCompression, AfterOutput, AfterRate,
            AfterMinidump, AfterChildren, AfterProviders, AfterStackCache
    <2>1. ParsedInv /\ ProfileInv
        BY DEF IInv
    <2>2. /\ raw.fields \subseteq OptionFields \cup {"profile", "startCommandLine"}
          /\ TargetOK
          /\ Given("outputFile") # Given("outputDir")
          /\ Given("samplingRate") => ~Given("emulate")
          /\ MinidumpOK
          /\ Given("waitForChildren") => Given("profileChildren")
          /\ Given("stackCache") => ~Given("emulate")
          /\ args.targetMode = IF Given("target") THEN "Attach" ELSE "Start"
        BY <2>1 DEF ParsedInv, ProfileInv, TargetInv, OutputInv, RateInv, MinidumpInv,
                    ChildrenInv, StackCacheInv
    <2>3. CASE Given("emulate")
        BY <2>2, <2>3 DEF ProfilesFollowUsage, UsageLine, TargetOK, MinidumpOK, OptionFields,
                          EveryLine, LiveLines
    <2>4. CASE ~Given("emulate") /\ Given("target")
        BY <2>2, <2>4 DEF ProfilesFollowUsage, UsageLine, TargetOK, MinidumpOK, OptionFields,
                          EveryLine, LiveLines
    <2>5. CASE ~Given("emulate") /\ ~Given("target")
        BY <2>2, <2>5 DEF ProfilesFollowUsage, UsageLine, TargetOK, MinidumpOK, OptionFields,
                          EveryLine, LiveLines
    <2> QED BY <2>3, <2>4, <2>5
<1> QED BY <1>1, Inductive, PTL

-------------------------------------------------------------------------------
(* What comes before a "--", and what a line is unpacked to. *)

(* What comes before the first text of a form.                             *)
LEMMA BeforeAll ==
    ASSUME NEW S, NEW s \in Seq(S), NEW f, ~Has(s, f)
    PROVE  Before(s, f) = s
<1>1. {i \in 1 .. Len(s) : Form(s[i]) = f} = {}
    BY DEF Has
<1> QED BY <1>1 DEF Before, SelectInSeq

(* Otherwise it ends before the first of them.                             *)
LEMMA BeforeFirst ==
    ASSUME NEW S, NEW s \in Seq(S), NEW f, NEW n \in 1 .. Len(s),
           Form(s[n]) = f, \A i \in 1 .. n - 1 : Form(s[i]) # f
    PROVE  Before(s, f) = SubSeq(s, 1, n - 1)
<1> DEFINE I == {i \in 1 .. Len(s) : Form(s[i]) = f}
<1>1. n \in I /\ I \in SUBSET Int /\ \A i \in I : n <= i
    OBVIOUS
<1>2. I # {} /\ n # 0
    BY <1>1
<1> HIDE DEF I
<1>3. Min(I) = n
    BY <1>1, MinIs
<1>4. SelectInSeq(s, LAMBDA t : Form(t) = f) = n
    BY <1>2, <1>3 DEF SelectInSeq, I
<1> QED BY <1>2, <1>4 DEF Before

(* In both cases it is a beginning without the form, and a text of that    *)
(* form follows if anything does.                                          *)
LEMMA BeforeSplits ==
    ASSUME NEW S, NEW s \in Seq(S), NEW f
    PROVE  /\ Before(s, f) \in Seq(S) /\ ~Has(Before(s, f), f)
           /\ \E q \in Seq(S) : s = Before(s, f) \o q /\ (q # <<>> => Form(q[1]) = f)
<1>1. CASE ~Has(s, f)
    <2>1. Before(s, f) = s
        BY <1>1, BeforeAll
    <2>2. s = s \o <<>> /\ <<>> \in Seq(S)
        OBVIOUS
    <2> QED BY <1>1, <2>1, <2>2
<1>2. CASE Has(s, f)
    <2> DEFINE I == {i \in 1 .. Len(s) : Form(s[i]) = f}
    <2>1. I # {} /\ I \in SUBSET Nat
        BY <1>2 DEF Has
    <2>2. PICK n \in I : \A i \in I : n <= i
        BY <2>1, LeastElement
    <2>3. n \in 1 .. Len(s) /\ Form(s[n]) = f
        OBVIOUS
    <2>4. \A i \in 1 .. n - 1 : Form(s[i]) # f
        BY <2>2
    <2>5. Before(s, f) = SubSeq(s, 1, n - 1)
        BY <2>3, <2>4, BeforeFirst
    <2> HIDE DEF I
    <2> DEFINE b == SubSeq(s, 1, n - 1)
               q == SubSeq(s, n, Len(s))
    <2>6. b \in Seq(S) /\ Len(b) = n - 1 /\ \A i \in 1 .. n - 1 : b[i] = s[i]
        BY <2>3
    <2>7. q \in Seq(S) /\ Len(q) = Len(s) - n + 1 /\ q[1] = s[n]
        BY <2>3
    <2>8. s = b \o q
        <3>1. b \o q = SubSeq(s, 1, Len(s))
            <4>1. (n - 1) + 1 = n /\ n - 1 \in 1 - 1 .. Len(s) /\ Len(s) \in n - 1 .. Len(s)
                BY <2>3
            <4>2. 1 \in 1 .. Len(s) + 1
                BY <2>3
            <4>3. SubSeq(s, 1, n - 1) \o SubSeq(s, (n - 1) + 1, Len(s)) = SubSeq(s, 1, Len(s))
                BY <4>1, <4>2, ConcatAdjacentSubSeq
            <4>4. SubSeq(s, (n - 1) + 1, Len(s)) = q
                BY <4>1
            <4> QED BY <4>3, <4>4
        <3> QED BY <3>1, SubSeqFull
    <2> HIDE DEF b, q
    <2>9. ~Has(b, f)
        <3>1. DOMAIN b = 1 .. n - 1
            BY <2>3, <2>6
        <3> QED BY <2>4, <2>6, <3>1 DEF Has
    <2> QED BY <2>3, <2>5, <2>7, <2>8, <2>9, <2>6 DEF b
<1> QED BY <1>1, <1>2

(* A beginning like that is what comes before.                             *)
LEMMA BeforeConcat ==
    ASSUME NEW S, NEW w \in Seq(S), NEW q \in Seq(S), NEW f,
           ~Has(w, f), q # <<>> => Form(q[1]) = f
    PROVE  Before(w \o q, f) = w
<1>1. CASE q = <<>>
    <2>1. w \o q = w
        BY <1>1
    <2> QED BY <2>1, BeforeAll
<1>2. CASE q # <<>>
    <2> DEFINE s == w \o q
               n == Len(w) + 1
    <2>1. s \in Seq(S) /\ n \in 1 .. Len(s) /\ s[n] = q[1]
        BY <1>2
    <2>2. \A i \in 1 .. n - 1 : s[i] = w[i]
        OBVIOUS
    <2>3. n - 1 = Len(w) /\ DOMAIN w = 1 .. Len(w)
        OBVIOUS
    <2>4. SubSeq(s, 1, n - 1) = w
        BY <2>3
    <2> HIDE DEF s, n
    <2>5. \A i \in 1 .. n - 1 : Form(s[i]) # f
        BY <2>2, <2>3 DEF Has
    <2>6. Form(s[n]) = f
        BY <1>2, <2>1
    <2>7. Before(s, f) = SubSeq(s, 1, n - 1)
        BY <2>1, <2>5, <2>6, BeforeFirst
    <2> QED BY <2>4, <2>7 DEF s
<1> QED BY <1>1, <1>2

Texts == DOMAIN Reads

(* What a text of a line stands for: itself, or the texts of its file.     *)
Replaced(t) == IF Form(t) = "@" THEN RespFiles[Reads[t].val].tokens ELSE <<t>>
Each(l)     == [i \in DOMAIN l |-> Replaced(l[i])]

(* Files have texts in them, as lines have.                                *)
LEMMA ReplacedType == ASSUME NEW t \in Texts PROVE Replaced(t) \in Seq(Texts)
<1>1. CASE Form(t) = "@"
    BY <1>1, ArgumentsAssumption DEF Replaced, Form, Texts
<1>2. CASE Form(t) # "@"
    BY <1>2 DEF Replaced
<1> QED BY <1>1, <1>2

(* Unpacking is done text by text, and gives a sequence of texts.          *)
LEMMA UnpackedEach ==
    ASSUME NEW l \in Seq(Texts)
    PROVE  /\ Each(l) \in Seq(Seq(Texts)) /\ Len(Each(l)) = Len(l)
           /\ \A i \in 1 .. Len(l) : Each(l)[i] = Replaced(l[i])
           /\ UnpackedFrom(l) = FlattenSeq(Each(l)) /\ UnpackedFrom(l) \in Seq(Texts)
<1>1. Len(l) \in Nat /\ DOMAIN l = 1 .. Len(l)
    OBVIOUS
<1>2. \A i \in 1 .. Len(l) : Replaced(l[i]) \in Seq(Texts)
    BY ReplacedType
<1>3. Each(l) \in Seq(Seq(Texts)) /\ Len(Each(l)) = Len(l)
    BY <1>1, <1>2, IsASeq DEF Each
<1>4. UnpackedFrom(l) = FlattenSeq(Each(l))
    BY DEF UnpackedFrom, Each, Replaced
<1>5. \A i \in 1 .. Len(l) : Each(l)[i] = Replaced(l[i])
    BY <1>1 DEF Each
<1>6. FlattenSeq(Each(l)) \in Seq(Texts)
    BY <1>3, FlattenType
<1> QED BY <1>3, <1>4, <1>5, <1>6

(* So the parts of a line can be unpacked one by one.                      *)
LEMMA UnpackedConcat ==
    ASSUME NEW l \in Seq(Texts), NEW q \in Seq(Texts)
    PROVE  UnpackedFrom(l \o q) = UnpackedFrom(l) \o UnpackedFrom(q)
<1>1. l \o q \in Seq(Texts) /\ Len(l \o q) = Len(l) + Len(q)
    OBVIOUS
<1>2. PICK a, b, c : a = Each(l) /\ b = Each(q) /\ c = Each(l \o q)
    OBVIOUS
<1>3. /\ a \in Seq(Seq(Texts)) /\ Len(a) = Len(l)
      /\ b \in Seq(Seq(Texts)) /\ Len(b) = Len(q)
      /\ c \in Seq(Seq(Texts)) /\ Len(c) = Len(l) + Len(q)
    BY <1>1, <1>2, UnpackedEach
<1>4. c = a \o b
    <2>1. /\ a \o b \in Seq(Seq(Texts)) /\ Len(a \o b) = Len(l) + Len(q)
          /\ \A i \in 1 .. Len(l) + Len(q) :
                (a \o b)[i] = IF i <= Len(l) THEN a[i] ELSE b[i - Len(l)]
        <3>1. a \in Seq(Seq(Texts)) /\ b \in Seq(Seq(Texts))
            BY <1>3
        <3>2. /\ a \o b \in Seq(Seq(Texts)) /\ Len(a \o b) = Len(a) + Len(b)
              /\ \A i \in 1 .. Len(a) + Len(b) :
                    (a \o b)[i] = IF i <= Len(a) THEN a[i] ELSE b[i - Len(a)]
            BY ONLY <3>1, ConcatProperties
        <3> QED BY <1>3, <3>2
    <2>2. \A i \in 1 .. Len(l) + Len(q) :
                (l \o q)[i] = IF i <= Len(l) THEN l[i] ELSE q[i - Len(l)]
        BY ConcatProperties
    <2>3. ASSUME NEW i \in 1 .. Len(l) + Len(q) PROVE c[i] = (a \o b)[i]
        <3>1. c[i] = Replaced((l \o q)[i])
            BY <1>1, <1>2, UnpackedEach
        <3>2. CASE i <= Len(l)
            <4>1. i \in 1 .. Len(l)
                BY <3>2
            <4>2. a[i] = Replaced(l[i])
                BY <1>2, <4>1, UnpackedEach
            <4> QED BY <2>1, <2>2, <3>1, <3>2, <4>2
        <3>3. CASE ~(i <= Len(l))
            <4>1. i - Len(l) \in 1 .. Len(q)
                BY <3>3
            <4>2. b[i - Len(l)] = Replaced(q[i - Len(l)])
                BY <1>2, <4>1, UnpackedEach
            <4> QED BY <2>1, <2>2, <3>1, <3>3, <4>2
        <3> QED BY <3>2, <3>3
    <2> QED BY <1>3, <2>1, <2>3, SeqEqual
<1>5. UnpackedFrom(l \o q) = FlattenSeq(a \o b)
    BY <1>1, <1>2, <1>4, UnpackedEach
<1>6. UnpackedFrom(l) = FlattenSeq(a) /\ UnpackedFrom(q) = FlattenSeq(b)
    BY <1>2, UnpackedEach
<1>7. FlattenSeq(a \o b) = FlattenSeq(a) \o FlattenSeq(b)
    BY <1>3, FlattenConcat
<1> QED BY <1>5, <1>6, <1>7

(* A line without a directive stays as it is.                              *)
LEMMA UnpackedSame ==
    ASSUME NEW l \in Seq(Texts), \A i \in DOMAIN l : Form(l[i]) # "@"
    PROVE  UnpackedFrom(l) = l
<1>1. UnpackedFrom(l) = FlattenSeq([i \in DOMAIN l |-> <<l[i]>>])
    BY DEF UnpackedFrom
<1> QED BY <1>1, FlattenSingletons

(* And the part from a first text that is no directive begins with it.     *)
LEMMA UnpackedHead ==
    ASSUME NEW q \in Seq(Texts), q # <<>>, Form(q[1]) # "@"
    PROVE  UnpackedFrom(q) # <<>> /\ UnpackedFrom(q)[1] = q[1]
<1> DEFINE h == <<q[1]>>
           r == SubSeq(q, 2, Len(q))
<1>1. h \in Seq(Texts) /\ r \in Seq(Texts) /\ q = h \o r
    OBVIOUS
<1>2. UnpackedFrom(h) = h
    <2>1. \A i \in DOMAIN h : Form(h[i]) # "@"
        OBVIOUS
    <2> HIDE DEF h
    <2> QED BY <1>1, <2>1, UnpackedSame
<1>3. Len(h) = 1 /\ h[1] = q[1]
    OBVIOUS
<1> HIDE DEF h, r
<1>4. UnpackedFrom(q) = h \o UnpackedFrom(r) /\ UnpackedFrom(r) \in Seq(Texts)
    <2>1. UnpackedFrom(h \o r) = UnpackedFrom(h) \o UnpackedFrom(r)
        BY <1>1, UnpackedConcat
    <2>2. UnpackedFrom(r) \in Seq(Texts)
        BY <1>1, UnpackedEach
    <2> QED BY <1>1, <1>2, <2>1, <2>2
<1>5. PICK u \in Seq(Texts) : u = UnpackedFrom(r)
    BY <1>4
<1>6. Len(h \o u) = 1 + Len(u) /\ (h \o u)[1] = h[1] /\ Len(u) \in Nat
    <2>1. /\ Len(h \o u) = Len(h) + Len(u)
          /\ \A i \in 1 .. Len(h) + Len(u) : (h \o u)[i] = IF i <= Len(h) THEN h[i] ELSE u[i - Len(h)]
        BY ONLY <1>1, ConcatProperties, u \in Seq(Texts)
    <2> QED BY <1>3, <2>1
<1>7. h \o u # <<>>
    BY <1>6
<1> QED BY <1>3, <1>4, <1>5, <1>6, <1>7

(* Rest removes one text, if there is one.                                 *)
LEMMA RestType ==
    ASSUME NEW S, NEW s \in Seq(S)
    PROVE  /\ Rest(s) \in Seq(S) /\ Len(Rest(s)) = IF s = <<>> THEN 0 ELSE Len(s) - 1
           /\ \A i \in 1 .. Len(s) - 1 : Rest(s)[i] = s[i + 1]
<1>1. \A i \in 2 .. Len(s) : s[i] \in S
    OBVIOUS
<1>2. 2 \in Int /\ Len(s) \in Nat /\ (s = <<>> <=> Len(s) = 0)
    OBVIOUS
<1>3. /\ SubSeq(s, 2, Len(s)) \in Seq(S)
      /\ Len(SubSeq(s, 2, Len(s))) = IF 2 <= Len(s) THEN Len(s) - 2 + 1 ELSE 0
      /\ \A i \in 1 .. Len(s) - 2 + 1 : SubSeq(s, 2, Len(s))[i] = s[2 + i - 1]
    BY <1>1, <1>2, SubSeqProperties
<1> QED BY <1>2, <1>3 DEF Rest

(* It removes it from the first of two parts.                              *)
LEMMA RestConcat ==
    ASSUME NEW S, NEW w \in Seq(S), NEW q \in Seq(S), w # <<>>
    PROVE  Rest(w \o q) = Rest(w) \o q
<1>1. PICK c, r : c = w \o q /\ r = Rest(w)
    OBVIOUS
<1>2. /\ c \in Seq(S) /\ Len(c) = Len(w) + Len(q)
      /\ \A i \in 1 .. Len(w) + Len(q) : c[i] = IF i <= Len(w) THEN w[i] ELSE q[i - Len(w)]
    BY <1>1, ConcatProperties
<1>3. Len(w) \in Nat \ {0} /\ Len(q) \in Nat /\ c # <<>>
    BY <1>2
<1>4. /\ r \in Seq(S) /\ Len(r) = Len(w) - 1
      /\ \A i \in 1 .. Len(w) - 1 : r[i] = w[i + 1]
    BY <1>1, RestType
<1>5. /\ Rest(c) \in Seq(S) /\ Len(Rest(c)) = Len(w) + Len(q) - 1
      /\ \A i \in 1 .. Len(w) + Len(q) - 1 : Rest(c)[i] = c[i + 1]
    BY <1>2, <1>3, RestType
<1>6. /\ r \o q \in Seq(S) /\ Len(r \o q) = Len(r) + Len(q)
      /\ \A i \in 1 .. Len(r) + Len(q) : (r \o q)[i] = IF i <= Len(r) THEN r[i] ELSE q[i - Len(r)]
    <2>1. r \in Seq(S) /\ q \in Seq(S)
        BY <1>4
    <2> QED BY ONLY <2>1, ConcatProperties
<1>7. ASSUME NEW i \in 1 .. Len(w) + Len(q) - 1 PROVE Rest(c)[i] = (r \o q)[i]
    <2>1. Rest(c)[i] = c[i + 1] /\ i + 1 \in 1 .. Len(w) + Len(q)
        BY <1>3, <1>5
    <2>2. CASE i + 1 <= Len(w)
        <3>1. i \in 1 .. Len(w) - 1 /\ i <= Len(r)
            BY <1>3, <1>4, <2>2
        <3>2. c[i + 1] = w[i + 1]
            BY <1>2, <2>1, <2>2
        <3>3. (r \o q)[i] = r[i]
            BY <1>3, <1>4, <1>6, <3>1
        <3> QED BY <1>4, <2>1, <3>1, <3>2, <3>3
    <2>3. CASE ~(i + 1 <= Len(w))
        <3>1. (i + 1) - Len(w) = i - Len(r) /\ ~(i <= Len(r))
            BY <1>3, <1>4, <2>3
        <3>2. c[i + 1] = q[(i + 1) - Len(w)]
            BY <1>2, <2>1, <2>3
        <3>3. (r \o q)[i] = q[i - Len(r)]
            BY <1>3, <1>4, <1>6, <3>1
        <3> QED BY <2>1, <3>1, <3>2, <3>3
    <2> QED BY <2>2, <2>3
<1>8. Rest(c) = r \o q
    <2>1. Len(Rest(c)) = Len(r \o q)
        BY <1>3, <1>4, <1>5, <1>6
    <2> QED BY <1>5, <1>6, <1>7, <2>1, SeqEqual
<1> QED BY <1>1, <1>8

(* Options are texts of the line.                                          *)
LEMMA OptionsType ==
    ASSUME NEW S, NEW s \in Seq(S)
    PROVE  Options(s) \in Seq(S) /\ \A t \in Range(Options(s)) : t \in S
<1>1. Rest(s) \in Seq(S)
    BY RestType
<1>2. Options(s) \in Seq(S)
    BY <1>1, BeforeSplits DEF Options
<1>3. PICK o \in Seq(S) : o = Options(s)
    BY <1>2
<1>4. \A t \in Range(o) : t \in S
    BY DEF Range
<1> QED BY <1>2, <1>3, <1>4

(* What follows a "--" is no option.                                       *)
LEMMA OptionsOfPrefix ==
    ASSUME NEW S, NEW w \in Seq(S), NEW q \in Seq(S), w # <<>>, ~Has(Rest(w), "--"),
           q # <<>> => Form(q[1]) = "--"
    PROVE  Options(Rest(w \o q)) = Options(Rest(w))
<1>1. PICK r \in Seq(S) : r = Rest(w) /\ Rest(w \o q) = r \o q
    BY RestType, RestConcat
<1>2. CASE r = <<>>
    <2>1. r \o q = q /\ ~HasCommand(q) /\ ~HasCommand(r)
        BY <1>2 DEF HasCommand
    <2>2. Before(r \o q, "--") = r /\ Before(r, "--") = r
        BY <1>1, BeforeConcat, BeforeAll
    <2> QED BY <1>1, <2>1, <2>2 DEF Options
<1>3. CASE r # <<>>
    <2>1. (r \o q)[1] = r[1] /\ r \o q # <<>>
        BY <1>3
    <2>2. HasCommand(r \o q) <=> HasCommand(r)
        BY <1>3, <2>1 DEF HasCommand
    <2>3. CASE HasCommand(r)
        <3>1. Rest(r \o q) = Rest(r) \o q /\ Rest(r) \in Seq(S)
            BY <1>3, RestConcat, RestType
        <3>2. ~Has(Rest(r), "--")
            <4>1. DOMAIN r = 1 .. Len(r) /\ Len(r) \in Nat \ {0}
                BY <1>3
            <4>2. Len(Rest(r)) = Len(r) - 1 /\ \A i \in 1 .. Len(r) - 1 : Rest(r)[i] = r[i + 1]
                BY <1>3, RestType
            <4>3. DOMAIN Rest(r) = 1 .. Len(r) - 1
                BY <3>1, <4>2
            <4>4. \A i \in 1 .. Len(r) - 1 : i + 1 \in DOMAIN r
                BY <4>1
            <4> QED BY <1>1, <4>2, <4>3, <4>4 DEF Has
        <3>3. Before(Rest(r) \o q, "--") = Rest(r) /\ Before(Rest(r), "--") = Rest(r)
            BY <3>1, <3>2, BeforeConcat, BeforeAll
        <3> QED BY <1>1, <2>2, <2>3, <3>1, <3>3 DEF Options
    <2>4. CASE ~HasCommand(r)
        <3>1. Before(r \o q, "--") = r /\ Before(r, "--") = r
            BY <1>1, BeforeConcat, BeforeAll
        <3> QED BY <1>1, <2>2, <2>4, <3>1 DEF Options
    <2> QED BY <2>3, <2>4
<1> QED BY <1>2, <1>3

(* A slot's value is that of an option that has been typed.                *)
LEMMA ValueOf ==
    ASSUME NEW S, NEW s \in Seq(S), NEW slot
    PROVE  \/ Value(s, slot) = "" /\ \A t \in Range(Options(s)) : Slot(Field(t)) # slot
           \/ \E t \in Range(Options(s)) : Slot(Field(t)) = slot /\ Value(s, slot) = Reads[t].val
<1>1. PICK o \in Seq(S) : o = Options(s)
    BY OptionsType
<1> DEFINE I == {i \in 1 .. Len(o) : Slot(Field(o[i])) = slot}
           at == SelectLastInSeq(o, LAMBDA t : Slot(Field(t)) = slot)
<1>2. at = IF I # {} THEN Max(I) ELSE 0
    BY DEF SelectLastInSeq
<1>3. Value(s, slot) = IF at = 0 THEN "" ELSE Reads[o[at]].val
    BY <1>1 DEF Value
<1>4. DOMAIN o = 1 .. Len(o) /\ Len(o) \in Nat
    OBVIOUS
<1>5. CASE I = {}
    <2>1. \A t \in Range(o) : Slot(Field(t)) # slot
        BY <1>4, <1>5 DEF Range
    <2> QED BY <1>1, <1>2, <1>3, <1>5, <2>1
<1>6. CASE I # {}
    <2>1. I \in SUBSET (1 .. Len(o)) /\ I \in SUBSET Int
        OBVIOUS
    <2>2. PICK m \in I : \A i \in I : m >= i
        BY <1>4, <1>6, <2>1, GreatestElement
    <2>3. m \in 1 .. Len(o) /\ Slot(Field(o[m])) = slot
        OBVIOUS
    <2> HIDE DEF I, at
    <2>4. at = m /\ m # 0
        BY <1>2, <1>6, <2>1, <2>2, <2>3, MaxIs
    <2>5. o[m] \in Range(o)
        BY <1>4, <2>3 DEF Range
    <2> QED BY <1>1, <1>3, <2>3, <2>4, <2>5
<1> QED BY <1>5, <1>6

-------------------------------------------------------------------------------
(* The loop of UnpackRespFiles. *)

(* Part of the line has been replaced, the loop is somewhere behind the    *)
(* last directive of it, and the rest has not been looked at: done and     *)
(* todo.                                                                   *)
Between(l, ts, n, done, todo) ==
    /\ l = done \o todo /\ CanUnpack(done)
    /\ ts = UnpackedFrom(done) \o todo /\ ~Has(UnpackedFrom(done), "@")
    /\ n \in 1 .. Len(UnpackedFrom(done)) + 1

Unpacking(l, ts, n) == \E done, todo \in Seq(Texts) : Between(l, ts, n, done, todo)

(* A form is found in a part or in the other one.                          *)
LEMMA HasConcat ==
    ASSUME NEW S, NEW a \in Seq(S), NEW b \in Seq(S), NEW f
    PROVE  Has(a \o b, f) <=> Has(a, f) \/ Has(b, f)
<1>1. PICK c : c = a \o b
    OBVIOUS
<1>2. /\ c \in Seq(S) /\ Len(c) = Len(a) + Len(b)
      /\ \A k \in 1 .. Len(a) + Len(b) : c[k] = IF k <= Len(a) THEN a[k] ELSE b[k - Len(a)]
    BY <1>1, ConcatProperties
<1>3. /\ Len(a) \in Nat /\ DOMAIN a = 1 .. Len(a) /\ Len(b) \in Nat /\ DOMAIN b = 1 .. Len(b)
      /\ DOMAIN c = 1 .. Len(a) + Len(b)
    BY <1>2
<1>4. ASSUME NEW k \in DOMAIN c, Form(c[k]) = f PROVE Has(a, f) \/ Has(b, f)
    <2>1. CASE k <= Len(a)
        <3>1. k \in DOMAIN a /\ c[k] = a[k]
            BY <1>2, <1>3, <2>1
        <3> QED BY <1>4, <3>1 DEF Has
    <2>2. CASE ~(k <= Len(a))
        <3>1. k - Len(a) \in DOMAIN b /\ c[k] = b[k - Len(a)]
            BY <1>2, <1>3, <2>2
        <3> QED BY <1>4, <3>1 DEF Has
    <2> QED BY <2>1, <2>2
<1>5. ASSUME NEW k \in DOMAIN a, Form(a[k]) = f PROVE Has(c, f)
    <2>1. k \in DOMAIN c /\ c[k] = a[k]
        BY <1>2, <1>3
    <2> QED BY <1>5, <2>1 DEF Has
<1>6. ASSUME NEW k \in DOMAIN b, Form(b[k]) = f PROVE Has(c, f)
    <2>1. k + Len(a) \in 1 .. Len(a) + Len(b) /\ ~(k + Len(a) <= Len(a)) /\ (k + Len(a)) - Len(a) = k
        BY <1>3
    <2>2. k + Len(a) \in DOMAIN c /\ c[k + Len(a)] = b[k]
        BY <1>2, <1>3, <2>1
    <2> QED BY <1>6, <2>2 DEF Has
<1> QED BY <1>1, <1>4, <1>5, <1>6 DEF Has

(* Where there is no directive, all files can be unpacked.                 *)
LEMMA NoDirective ==
    ASSUME NEW l, ~Has(l, "@")
    PROVE  CanUnpack(l) /\ \A i \in DOMAIN l : Form(l[i]) # "@"
BY DEF Has, CanUnpack

(* The files of two parts are those of the whole.                          *)
LEMMA CanUnpackConcat ==
    ASSUME NEW S, NEW a \in Seq(S), NEW b \in Seq(S)
    PROVE  CanUnpack(a \o b) <=> CanUnpack(a) /\ CanUnpack(b)
<1>1. PICK c : c = a \o b
    OBVIOUS
<1>2. /\ c \in Seq(S) /\ Len(c) = Len(a) + Len(b)
      /\ \A k \in 1 .. Len(a) + Len(b) : c[k] = IF k <= Len(a) THEN a[k] ELSE b[k - Len(a)]
    BY <1>1, ConcatProperties
<1>3. /\ Len(a) \in Nat /\ DOMAIN a = 1 .. Len(a) /\ Len(b) \in Nat /\ DOMAIN b = 1 .. Len(b)
      /\ DOMAIN c = 1 .. Len(a) + Len(b)
    BY <1>2
<1>4. ASSUME CanUnpack(c), NEW k \in DOMAIN a, Form(a[k]) = "@"
      PROVE  Unpackable(Reads[a[k]].val)
    <2>1. k \in DOMAIN c /\ c[k] = a[k]
        BY <1>2, <1>3
    <2> QED BY <1>4, <2>1 DEF CanUnpack
<1>5. ASSUME CanUnpack(c), NEW k \in DOMAIN b, Form(b[k]) = "@"
      PROVE  Unpackable(Reads[b[k]].val)
    <2>1. k + Len(a) \in 1 .. Len(a) + Len(b) /\ ~(k + Len(a) <= Len(a)) /\ (k + Len(a)) - Len(a) = k
        BY <1>3
    <2>2. k + Len(a) \in DOMAIN c /\ c[k + Len(a)] = b[k]
        BY <1>2, <1>3, <2>1
    <2> QED BY <1>5, <2>2 DEF CanUnpack
<1>6. ASSUME CanUnpack(a), CanUnpack(b), NEW k \in DOMAIN c, Form(c[k]) = "@"
      PROVE  Unpackable(Reads[c[k]].val)
    <2>1. CASE k <= Len(a)
        <3>1. k \in DOMAIN a /\ c[k] = a[k]
            BY <1>2, <1>3, <2>1
        <3> QED BY <1>6, <3>1 DEF CanUnpack
    <2>2. CASE ~(k <= Len(a))
        <3>1. k - Len(a) \in DOMAIN b /\ c[k] = b[k - Len(a)]
            BY <1>2, <1>3, <2>2
        <3> QED BY <1>6, <3>1 DEF CanUnpack
    <2> QED BY <2>1, <2>2
<1> QED BY <1>1, <1>4, <1>5, <1>6 DEF CanUnpack

(* A directive alone is unpacked to the texts of its file.                 *)
LEMMA UnpackedOne ==
    ASSUME NEW t \in Texts
    PROVE  UnpackedFrom(<<t>>) = Replaced(t)
<1>1. Each(<<t>>) = Append(<<>>, Replaced(t))
    BY DEF Each
<1>2. UnpackedFrom(<<t>>) = FlattenSeq(Each(<<t>>))
    <2>1. <<t>> \in Seq(Texts)
        OBVIOUS
    <2> QED BY <2>1, UnpackedEach
<1>3. Replaced(t) \in Seq(Texts) /\ <<>> \in Seq(Seq(Texts))
    BY ReplacedType
<1>4. FlattenSeq(Append(<<>>, Replaced(t))) = <<>> \o Replaced(t)
    BY <1>3, FlattenAppend, FlattenEmpty
<1> QED BY <1>1, <1>2, <1>3, <1>4

(* Where the loop finds its next directive.                                *)
NextFrom(s, n) == SelectInSubSeq(s, n, Len(s), LAMBDA t : Form(t) = "@")

(* It is the first one from there, or there is none.                       *)
LEMMA NextIs ==
    ASSUME NEW S, NEW s \in Seq(S), NEW n \in Nat \ {0}
    PROVE  /\ NextFrom(s, n) = 0 => \A k \in n .. Len(s) : Form(s[k]) # "@"
           /\ NextFrom(s, n) # 0 =>
                /\ NextFrom(s, n) \in n .. Len(s) /\ Form(s[NextFrom(s, n)]) = "@"
                /\ \A k \in n .. NextFrom(s, n) - 1 : Form(s[k]) # "@"
<1> DEFINE I == {i \in n .. Len(s) : Form(s[i]) = "@"}
<1>1. NextFrom(s, n) = IF I # {} THEN Min(I) ELSE 0
    BY DEF NextFrom, SelectInSubSeq
<1>2. CASE I = {}
    BY <1>1, <1>2
<1>3. CASE I # {}
    <2>1. I \in SUBSET Nat /\ I \in SUBSET Int
        OBVIOUS
    <2>2. PICK m \in I : \A i \in I : m <= i
        BY <1>3, <2>1, LeastElement
    <2>3. m \in n .. Len(s) /\ m # 0 /\ Form(s[m]) = "@" /\ \A k \in n .. m - 1 : Form(s[k]) # "@"
        BY <2>2
    <2> HIDE DEF I
    <2>4. NextFrom(s, n) = m
        BY <1>1, <1>3, <2>1, <2>2, MinIs
    <2> QED BY <2>3, <2>4
<1> QED BY <1>2, <1>3

(* A file that can be unpacked has a text, and no directive.               *)
LEMMA FileTexts ==
    ASSUME NEW t \in Texts, Form(t) = "@"
    PROVE  LET r == RespFiles[Reads[t].val].tokens IN
           /\ r = Replaced(t) /\ r \in Seq(Texts) /\ Len(r) \in Nat \ {0}
           /\ CanUnpack(<<t>>) <=> Unpackable(Reads[t].val)
           /\ Unpackable(Reads[t].val) => ~Has(r, "@")
<1>1. PICK r : r = RespFiles[Reads[t].val].tokens
    OBVIOUS
<1>2. r \in Seq(Texts) \ {<<>>}
    BY <1>1, ArgumentsAssumption DEF Texts, Form
<1>3. Len(r) \in Nat \ {0}
    BY <1>2
<1>4. CanUnpack(<<t>>) <=> Unpackable(Reads[t].val)
    BY DEF CanUnpack
<1> QED BY <1>1, <1>2, <1>3, <1>4 DEF Replaced, Unpackable

(* What is done stays done: the directive at i is replaced, and the loop   *)
(* goes on at i + 1.  That is behind the directive because its file has a  *)
(* text, and at most just behind the last one.                             *)
LEMMA LoopStep ==
    ASSUME NEW l \in Seq(Texts), NEW ts, NEW n, Unpacking(l, ts, n)
    PROVE  LET i == NextFrom(ts, n)
               p == Reads[ts[i]].val
               r == RespFiles[p].tokens IN
           /\ ts \in Seq(Texts) /\ n \in Nat \ {0} /\ i \in Nat
           /\ i = 0 => CanUnpack(l) /\ ts = UnpackedFrom(l)
           /\ i # 0 /\ ~Unpackable(p) => ~CanUnpack(l)
           /\ i # 0 /\ Unpackable(p) => Unpacking(l, Spliced(ts, i, r), i + 1)
<1>1. PICK done \in Seq(Texts), todo \in Seq(Texts) : Between(l, ts, n, done, todo)
    BY DEF Unpacking
<1>2. PICK u \in Seq(Texts) : u = UnpackedFrom(done)
    BY UnpackedEach
<1>3. /\ l = done \o todo /\ CanUnpack(done) /\ ts = u \o todo /\ ~Has(u, "@")
      /\ n \in 1 .. Len(u) + 1
    BY <1>1, <1>2 DEF Between
<1>4. /\ ts \in Seq(Texts) /\ Len(ts) = Len(u) + Len(todo)
      /\ \A k \in 1 .. Len(u) + Len(todo) : ts[k] = IF k <= Len(u) THEN u[k] ELSE todo[k - Len(u)]
    <2>1. /\ u \o todo \in Seq(Texts) /\ Len(u \o todo) = Len(u) + Len(todo)
          /\ \A k \in 1 .. Len(u) + Len(todo) :
                (u \o todo)[k] = IF k <= Len(u) THEN u[k] ELSE todo[k - Len(u)]
        BY ONLY ConcatProperties, u \in Seq(Texts), todo \in Seq(Texts)
    <2> QED BY <1>3, <2>1
<1>5. /\ Len(u) \in Nat /\ Len(todo) \in Nat /\ n \in Nat \ {0}
      /\ DOMAIN u = 1 .. Len(u) /\ DOMAIN todo = 1 .. Len(todo)
    BY <1>3
<1>6. PICK i : i = NextFrom(ts, n)
    OBVIOUS
<1>7. /\ i = 0 => \A k \in n .. Len(ts) : Form(ts[k]) # "@"
      /\ i # 0 => /\ i \in n .. Len(ts) /\ Form(ts[i]) = "@"
                  /\ \A k \in n .. i - 1 : Form(ts[k]) # "@"
    BY <1>4, <1>5, <1>6, NextIs
<1>8. i \in Nat
    BY <1>5, <1>7
<1>9. ASSUME i = 0 PROVE CanUnpack(l) /\ ts = UnpackedFrom(l)
    <2>1. ~Has(todo, "@")
        <3> SUFFICES ASSUME NEW k \in 1 .. Len(todo) PROVE Form(todo[k]) # "@"
            BY <1>5 DEF Has
        <3>1. Len(u) + k \in n .. Len(ts) /\ Len(u) + k \in 1 .. Len(u) + Len(todo)
              /\ ~(Len(u) + k <= Len(u)) /\ (Len(u) + k) - Len(u) = k
            BY <1>3, <1>4, <1>5
        <3>2. ts[Len(u) + k] = todo[k]
            BY <1>4, <3>1
        <3> QED BY <1>7, <1>9, <3>1, <3>2
    <2>2. CanUnpack(todo) /\ UnpackedFrom(todo) = todo
        BY <2>1, NoDirective, UnpackedSame
    <2>3. CanUnpack(l) /\ UnpackedFrom(l) = u \o todo
        <3>1. CanUnpack(done \o todo)
            BY <1>3, <2>2, CanUnpackConcat
        <3>2. UnpackedFrom(done \o todo) = UnpackedFrom(done) \o UnpackedFrom(todo)
            BY UnpackedConcat
        <3> QED BY <1>2, <1>3, <2>2, <3>1, <3>2
    <2> QED BY <1>3, <2>3
<1>10. ASSUME i # 0
       PROVE  \E pre \in Seq(Texts), post \in Seq(Texts) :
                /\ ~Has(pre, "@") /\ i = Len(u \o pre) + 1
                /\ Around(ts, u \o pre, ts[i], post)
                /\ Around(l, done \o pre, ts[i], post)
    <2>1. ~(i <= Len(u))
        <3> SUFFICES ASSUME i <= Len(u) PROVE FALSE
            OBVIOUS
        <3>1. i \in 1 .. Len(u) /\ i \in 1 .. Len(u) + Len(todo)
            BY <1>5, <1>7, <1>8, <1>10
        <3>2. ts[i] = u[i] /\ Form(ts[i]) = "@"
            BY <1>4, <1>7, <1>10, <3>1
        <3> QED BY <1>3, <1>5, <3>1, <3>2 DEF Has
    <2>2. PICK j \in 1 .. Len(todo) : j = i - Len(u) /\ i = Len(u) + j
        <3>1. i \in n .. Len(u) + Len(todo)
            BY <1>4, <1>7, <1>10
        <3>2. i - Len(u) \in 1 .. Len(todo) /\ i = Len(u) + (i - Len(u))
            BY <1>5, <1>8, <2>1, <3>1
        <3> QED BY <3>2
    <2>3. PICK pre \in Seq(Texts), post \in Seq(Texts) :
            /\ Around(todo, pre, todo[j], post) /\ Len(pre) = j - 1
            /\ \A k \in 1 .. j - 1 : pre[k] = todo[k]
        BY SplitAround
    <2>4. ts[i] = todo[j] /\ todo[j] \in Texts
        BY <1>4, <1>5, <2>1, <2>2
    <2>5. ~Has(pre, "@")
        <3>1. DOMAIN pre = 1 .. j - 1
            BY <2>3
        <3> SUFFICES ASSUME NEW k \in 1 .. j - 1 PROVE Form(pre[k]) # "@"
            BY <3>1 DEF Has
        <3>2. /\ Len(u) + k \in n .. i - 1 /\ Len(u) + k \in 1 .. Len(u) + Len(todo)
              /\ ~(Len(u) + k <= Len(u)) /\ (Len(u) + k) - Len(u) = k
            BY <1>3, <1>5, <2>2
        <3>3. ts[Len(u) + k] = todo[k]
            BY <1>4, <3>2
        <3> QED BY <1>7, <1>10, <2>3, <3>2, <3>3
    <2>6. Len(u \o pre) = Len(u) + Len(pre) /\ u \o pre \in Seq(Texts)
        BY ONLY ConcatProperties, u \in Seq(Texts), pre \in Seq(Texts)
    <2>7. i = Len(u \o pre) + 1
        BY <1>5, <2>2, <2>3, <2>6
    <2>8. Around(ts, u \o pre, ts[i], post)
        BY <1>3, <2>3, <2>4, BeforeAround
    <2>9. Around(l, done \o pre, ts[i], post)
        BY <1>3, <2>3, <2>4, BeforeAround
    <2> QED BY <2>5, <2>7, <2>8, <2>9
<1>11. ASSUME i # 0
       PROVE  /\ ~Unpackable(Reads[ts[i]].val) => ~CanUnpack(l)
              /\ Unpackable(Reads[ts[i]].val) =>
                    Unpacking(l, Spliced(ts, i, RespFiles[Reads[ts[i]].val].tokens), i + 1)
    <2>1. PICK d \in Texts : d = ts[i] /\ Form(d) = "@"
        BY <1>4, <1>5, <1>7, <1>11
    <2>2. PICK pre \in Seq(Texts), post \in Seq(Texts) :
            /\ ~Has(pre, "@") /\ i = Len(u \o pre) + 1
            /\ Around(ts, u \o pre, d, post) /\ Around(l, done \o pre, d, post)
        BY <1>10, <1>11, <2>1
    <2>3. PICK a : a = u \o pre
        OBVIOUS
    <2>4. PICK r \in Seq(Texts) :
            /\ r = RespFiles[Reads[d].val].tokens /\ r = Replaced(d) /\ Len(r) \in Nat \ {0}
            /\ CanUnpack(<<d>>) <=> Unpackable(Reads[d].val)
            /\ Unpackable(Reads[d].val) => ~Has(r, "@")
        BY <2>1, FileTexts
    <2>5. PICK more : more = (done \o pre) \o <<d>>
        OBVIOUS
    <2>6. /\ <<d>> \in Seq(Texts) /\ done \o pre \in Seq(Texts) /\ more \in Seq(Texts)
          /\ a \in Seq(Texts)
        BY <2>3, <2>5
    <2>7. l = more \o post
        BY <2>2, <2>5 DEF Around
    <2>8. CanUnpack(more) <=> Unpackable(Reads[d].val)
        <3>1. CanUnpack(pre)
            BY <2>2, NoDirective
        <3>2. CanUnpack(done \o pre)
            BY <1>3, <3>1, CanUnpackConcat
        <3>3. CanUnpack(more) <=> CanUnpack(done \o pre) /\ CanUnpack(<<d>>)
            BY <2>5, <2>6, CanUnpackConcat
        <3> QED BY <2>4, <3>2, <3>3
    <2>9. ~Unpackable(Reads[d].val) => ~CanUnpack(l)
        BY <2>6, <2>7, <2>8, CanUnpackConcat
    <2>10. ASSUME Unpackable(Reads[d].val) PROVE Unpacking(l, Spliced(ts, i, r), i + 1)
        <3>1. UnpackedFrom(more) = a \o r
            <4>1. UnpackedFrom(pre) = pre
                BY <2>2, NoDirective, UnpackedSame
            <4>2. UnpackedFrom(done \o pre) = a
                    <5>1. UnpackedFrom(done \o pre) = UnpackedFrom(done) \o UnpackedFrom(pre)
                    BY UnpackedConcat
                <5> QED BY <1>2, <2>3, <4>1, <5>1
            <4>3. UnpackedFrom(<<d>>) = r
                BY <2>4, UnpackedOne
            <4> QED BY <2>5, <2>6, <4>2, <4>3, UnpackedConcat
        <3>2. ~Has(a \o r, "@")
            <4>1. ~Has(a, "@")
                BY <1>3, <2>2, <2>3, HasConcat
            <4> QED BY <2>4, <2>6, <2>10, <4>1, HasConcat
        <3>3. Spliced(ts, i, r) = (a \o r) \o post
            <4>1. Around(ts, a, d, post) /\ i = Len(a) + 1
                BY <2>2, <2>3
            <4>2. SubSeq(ts, 1, Len(a)) = a /\ SubSeq(ts, Len(a) + 2, Len(ts)) = post
                BY <2>6, <4>1, PartsAround
            <4>3. i - 1 = Len(a) /\ i + 1 = Len(a) + 2
                BY <2>6, <4>1
            <4> QED BY <4>2, <4>3 DEF Spliced
        <3>4. i + 1 \in 1 .. Len(a \o r) + 1
            <4>1. Len(a \o r) = Len(a) + Len(r) /\ Len(a) \in Nat
                BY <2>6
            <4> QED BY <2>2, <2>3, <2>4, <4>1
        <3>5. Between(l, Spliced(ts, i, r), i + 1, more, post)
            BY <2>7, <2>8, <2>10, <3>1, <3>2, <3>3, <3>4 DEF Between
        <3> QED BY <2>6, <3>5 DEF Unpacking
    <2> QED BY <2>1, <2>4, <2>9, <2>10
<1> QED BY <1>4, <1>5, <1>6, <1>8, <1>9, <1>11

-------------------------------------------------------------------------------
(* From the line to the options. *)

(* What the parser gets, and which of the two ways a line takes.           *)
LineInv ==
    /\ line \in Lines
    /\ stage = "UnpackRespFiles" => Unpacking(line, tokens, position)
    /\ stage \in AfterParsing \cup {"ParseArguments"} => tokens = UnpackedFrom(line)
    /\ stage \in AfterParsing =>
        /\ \E blank \in BOOLEAN : CanParse(Rest(tokens), blank)
        /\ raw = Parsed(Rest(tokens))
    /\ stage = "SemaInputETLPath" => Given("emulate")
    /\ stage \in AfterParsing \ {"NotProfiling", "Run"} => Given("profile")
    /\ stage = "Run" => Given("profile") \/ raw.fields \cap OnlyForProfiling = {}

(* The stages after the parser pass its result on, on one of two ways.     *)
LEMMA OtherSteps ==
    ASSUME [Next]_vars, ~UnpackRespFiles, ~ParseArguments
    PROVE  /\ tokens' = tokens /\ raw' = raw
           /\ stage' # "UnpackRespFiles" \/ UNCHANGED vars
           /\ stage' = "ParseArguments" => stage = "ParseArguments"
           /\ stage' = "SemaInputETLPath" => stage = "SemaInputETLPath"
           /\ stage' = "NotProfiling" => stage = "NotProfiling"
           /\ stage' \in AfterParsing => stage \in AfterParsing
           /\ stage' \in AfterParsing \ {"NotProfiling", "Run"} =>
                stage \in AfterParsing \ {"NotProfiling", "Run"} \/ Given("profile")
           /\ stage' = "Run" => \/ stage \in AfterParsing \ {"NotProfiling"}
                                \/ raw.fields \cap OnlyForProfiling = {}
<1> USE DEF Given, AfterParsing, AfterTarget, AfterCompression,
            AfterOutput, AfterRate, AfterMinidump, AfterChildren, AfterProviders, AfterStackCache
<1>1. CASE SemaInputETLPath
    BY <1>1 DEF SemaInputETLPath, Passes
<1>2. CASE SemaTarget
    BY <1>2 DEF SemaTarget, Passes
<1>3. CASE SemaCompressionMode
    BY <1>3 DEF SemaCompressionMode, Passes
<1>4. CASE SemaOutputPath
    BY <1>4 DEF SemaOutputPath, Passes
<1>5. CASE SemaSamplingRate
    <2>1. /\ stage = "SemaSamplingRate" /\ stage' \in {"SemaMinidump", "usage"}
          /\ tokens' = tokens /\ raw' = raw
        BY <1>5, RateEffect DEF SemaSamplingRate
    <2> QED BY <2>1
<1>6. CASE SemaMinidump
    BY <1>6 DEF SemaMinidump, Passes
<1>7. CASE SemaChildProcessProfiling
    BY <1>7 DEF SemaChildProcessProfiling, Passes
<1>8. CASE SemaUserProviderInfos
    BY <1>8 DEF SemaUserProviderInfos, Passes
<1>9. CASE SemaStackCache
    BY <1>9 DEF SemaStackCache, Passes
<1>10. CASE NotProfiling
    BY <1>10 DEF NotProfiling, Passes
<1>11. CASE InitCOMFails
    BY <1>11 DEF InitCOMFails
<1>12. CASE Run
    BY <1>12 DEF Run
<1>13. CASE DoProfile
    BY <1>13 DEF DoProfile
<1>14. CASE UNCHANGED vars
    BY <1>14 DEF vars
<1> QED
    BY <1>1, <1>2, <1>3, <1>4, <1>5, <1>6, <1>7, <1>8, <1>9, <1>10, <1>11, <1>12, <1>13,
       <1>14 DEF Next, SemaArguments

(* The parser looks at the tokens, and at what was typed.                  *)
LEMMA TokensStay ==
    ASSUME tokens' = tokens, line' = line
    PROVE  /\ UnpackedFrom(line)' = UnpackedFrom(line)
           /\ \A blank : CanParse(Rest(tokens), blank)' <=> CanParse(Rest(tokens), blank)
           /\ Parsed(Rest(tokens))' = Parsed(Rest(tokens))
<1>1. StartCommandLine' = StartCommandLine
    BY LineStays
<1> QED BY <1>1 DEF CanParse, UnpackedFrom, Parsed

(* How the loop goes on, and the three ways in which it ends.              *)
LEMMA UnpackStep ==
    ASSUME LineInv, UnpackRespFiles
    PROVE  /\ \/ stage' = "UnpackRespFiles" /\ Unpacking(line, tokens', position')
              \/ stage' = "ParseArguments" /\ CanUnpack(line) /\ tokens' = UnpackedFrom(line)
              \/ stage' = "usage" /\ ~CanUnpack(line) /\ tokens' = tokens
           /\ position' \in Nat
<1>1. stage = "UnpackRespFiles" /\ Unpacking(line, tokens, position) /\ line \in Seq(Texts)
    BY ArgumentsAssumption DEF LineInv, UnpackRespFiles, Texts
<1>2. PICK i : i = NextFrom(tokens, position)
    OBVIOUS
<1>3. PICK p : p = Reads[tokens[i]].val
    OBVIOUS
<1>4. \/ /\ i # 0 /\ Unpackable(p)
         /\ tokens' = Spliced(tokens, i, RespFiles[p].tokens)
         /\ position' = i + 1 /\ stage' = stage
      \/ /\ i # 0 /\ ~Unpackable(p) /\ stage' = "usage" /\ UNCHANGED <<tokens, position>>
      \/ /\ i = 0 /\ stage' = "ParseArguments" /\ UNCHANGED <<tokens, position>>
    BY <1>2, <1>3 DEF UnpackRespFiles, NextFrom, GoesOnAt
<1>5. /\ position \in Nat \ {0} /\ i \in Nat
      /\ i = 0 => CanUnpack(line) /\ tokens = UnpackedFrom(line)
      /\ i # 0 /\ ~Unpackable(p) => ~CanUnpack(line)
      /\ i # 0 /\ Unpackable(p) => Unpacking(line, Spliced(tokens, i, RespFiles[p].tokens), i + 1)
    BY <1>1, <1>2, <1>3, LoopStep
<1>6. i + 1 \in Nat
    BY <1>5
<1> QED BY <1>1, <1>4, <1>5, <1>6

(* Only the parser writes raw, and it reads what was unpacked.             *)
LEMMA LineStep ==
    ASSUME LineInv, [Next]_vars, line' = line
    PROVE  LineInv'
<1>1. CASE UnpackRespFiles
    <2>1. \/ stage' = "UnpackRespFiles" /\ Unpacking(line, tokens', position')
          \/ stage' = "ParseArguments" /\ CanUnpack(line) /\ tokens' = UnpackedFrom(line)
          \/ stage' = "usage" /\ ~CanUnpack(line) /\ tokens' = tokens
        BY <1>1, UnpackStep
    <2>2. Unpacking(line, tokens, position)' <=> Unpacking(line, tokens', position')
        BY DEF Unpacking, Between, UnpackedFrom
    <2>3. UnpackedFrom(line)' = UnpackedFrom(line)
        BY DEF UnpackedFrom
    <2> QED BY <2>1, <2>2, <2>3
        DEF LineInv, AfterParsing, AfterTarget, AfterCompression,
            AfterOutput, AfterRate, AfterMinidump, AfterChildren, AfterProviders, AfterStackCache
<1>2. CASE ParseArguments
    <2> PICK s : s = Rest(tokens)
        OBVIOUS
    <2>1. PICK blank \in BOOLEAN :
          /\ stage = "ParseArguments" /\ tokens' = tokens
          /\ stage' = IF CanParse(s, blank)
                      THEN IF ~HasCommand(s) THEN "NotProfiling"
                           ELSE IF "emulate" \in Fields(s) THEN "SemaInputETLPath"
                           ELSE "SemaTarget"
                      ELSE "usage"
          /\ CanParse(s, blank) => raw' = Parsed(s)
        BY <1>2 DEF ParseArguments, Passes
    <2>2. CASE CanParse(s, blank)
        <3>1. /\ "profile" \in raw'.fields <=> HasCommand(s)
              /\ Fields(s) \subseteq raw'.fields
            BY <2>1, <2>2, ParsedFields DEF Parsed
        <3>2. CanParse(Rest(tokens), blank)' /\ raw' = Parsed(Rest(tokens))' /\ tokens' = UnpackedFrom(line)'
            BY <2>1, <2>2, TokensStay DEF LineInv
        <3> QED
            BY <2>1, <2>2, <3>1, <3>2 DEF LineInv, Given
    <2>3. CASE ~CanParse(s, blank)
        BY <2>1, <2>3 DEF LineInv, AfterParsing, AfterTarget, AfterCompression, AfterOutput,
            AfterRate, AfterMinidump, AfterChildren, AfterProviders, AfterStackCache
    <2> QED BY <2>2, <2>3
<1>3. CASE ~UnpackRespFiles /\ ~ParseArguments
    <2>1. /\ tokens' = tokens /\ raw' = raw
          /\ stage' # "UnpackRespFiles" \/ UNCHANGED vars
          /\ stage' = "ParseArguments" => stage = "ParseArguments"
          /\ stage' = "SemaInputETLPath" => stage = "SemaInputETLPath"
          /\ stage' \in AfterParsing => stage \in AfterParsing
          /\ stage' \in AfterParsing \ {"NotProfiling", "Run"} =>
                stage \in AfterParsing \ {"NotProfiling", "Run"} \/ Given("profile")
          /\ stage' = "Run" => \/ stage \in AfterParsing \ {"NotProfiling"}
                               \/ raw.fields \cap OnlyForProfiling = {}
        BY <1>3, OtherSteps
    <2>2. Given("profile")' = Given("profile") /\ Given("emulate")' = Given("emulate")
        BY <2>1 DEF Given
    <2>3. stage' = "UnpackRespFiles" => Unpacking(line, tokens, position)'
        BY <2>1 DEF LineInv, vars, Unpacking, Between, UnpackedFrom
    <2> QED BY <2>1, <2>2, <2>3, TokensStay DEF LineInv
<1> QED BY <1>1, <1>2, <1>3

(* No other step is taken before the loop has ended.                       *)
LEMMA OnlyUnpacks ==
    ASSUME [Next]_vars, stage = "UnpackRespFiles", stage' # stage
    PROVE  UnpackRespFiles
BY DEF Next, vars, SemaArguments, ParseArguments, SemaInputETLPath, SemaTarget,
       SemaCompressionMode, SemaOutputPath, SemaSamplingRate, SemaMinidump,
       SemaChildProcessProfiling, SemaUserProviderInfos, SemaStackCache, NotProfiling, Passes,
       InitCOMFails, Run, DoProfile

(* LineInv is an invariant.                                                *)
LEMMA LineInvariant == Spec => []LineInv
<1>1. Init => LineInv
    <2> SUFFICES ASSUME Init PROVE LineInv
        OBVIOUS
    <2>1. line \in Lines /\ tokens = line /\ position = 1 /\ stage = "UnpackRespFiles"
        BY DEF Init
    <2>2. Unpacking(line, tokens, position)
        <3>1. line \in Seq(Texts) /\ <<>> \in Seq(Texts) /\ ~Has(<<>>, "@")
            BY <2>1, ArgumentsAssumption DEF Texts, Has
        <3>2. UnpackedFrom(<<>>) = <<>> /\ CanUnpack(<<>>)
            BY <3>1, NoDirective, UnpackedSame
        <3>3. <<>> \o line = line /\ Len(<<>>) = 0 /\ 1 \in 1 .. 0 + 1
            BY <3>1
        <3>4. Between(line, tokens, position, <<>>, line)
            BY <2>1, <3>1, <3>2, <3>3 DEF Between
        <3> QED BY <3>1, <3>4 DEF Unpacking
    <2> QED BY <2>1, <2>2 DEF LineInv, AfterParsing, AfterTarget, AfterCompression, AfterOutput,
           AfterRate, AfterMinidump, AfterChildren, AfterProviders, AfterStackCache
<1>2. IInv /\ LineInv /\ [Next]_vars => LineInv'
    BY LineStep, StepKeeps DEF IInv
<1> QED BY <1>1, <1>2, Inductive, PTL DEF Spec

(* The loop, which changes the vector that it walks along, replaces each   *)
(* directive by the texts of its file, looks at none of them again, leaves *)
(* none out, and gives up only when it has to.                             *)
THEOREM FilesAreInlined == Spec => FilesAreUnpacked
<1>1. LineInv /\ [Next]_vars =>
        [stage = "UnpackRespFiles" /\ stage' # stage =>
            IF CanUnpack(line) THEN stage' = "ParseArguments" /\ tokens' = UnpackedFrom(line)
            ELSE stage' = "usage"]_vars
    <2> SUFFICES ASSUME LineInv, [Next]_vars, stage = "UnpackRespFiles", stage' # stage
                 PROVE  IF CanUnpack(line) THEN stage' = "ParseArguments" /\ tokens' = UnpackedFrom(line)
                        ELSE stage' = "usage"
        OBVIOUS
    <2>1. UnpackRespFiles
        BY OnlyUnpacks
    <2> QED BY <2>1, UnpackStep
<1> QED BY <1>1, LineInvariant, PTL DEF Spec, FilesAreUnpacked

-------------------------------------------------------------------------------
(* The options that come with a value have one.                            *)
LEMMA ValueIsTyped ==
    ASSUME NEW t, Understood(t), Field(t) = "compressionMode"
    PROVE  Reads[t].val # ""
<1> SUFFICES ASSUME Form(t) \notin {"-assign", "--assign"} PROVE FALSE
    BY DEF Understood
<1>1. CASE Form(t) = "-flag"
    BY <1>1 DEF Understood, Field, Table
<1>2. CASE Form(t) = "--flag"
    BY <1>2 DEF Understood, Field, Table
<1>3. CASE Form(t) \notin {"-flag", "--flag"}
    <2> PICK table : table = Table(Form(t))
        OBVIOUS
    <2>1. table = <<>>
        BY <1>3 DEF Table
    <2>2. Reads[t].name \in DOMAIN table
        BY DEF Understood
    <2> QED BY <2>1, <2>2
<1> QED BY <1>1, <1>2, <1>3

(* A slot holds what the last of its options said, if the options that     *)
(* share one do not come together.                                         *)
LEMMA SlotHoldsLast ==
    ASSUME NEW S, NEW s \in Seq(S), NEW f \in Fields(s), Fields(s) \subseteq OptionFields,
           ~({"outputFile", "outputDir"} \subseteq Fields(s))
    PROVE  /\ Value(s, Slot(f)) = LastValue(s, f)
           /\ \E t \in Range(Options(s)) : Field(t) = f /\ LastValue(s, f) = Reads[t].val
<1>1. PICK o \in Seq(S) : o = Options(s)
    BY OptionsType
<1> DEFINE I == {i \in 1 .. Len(o) : Slot(Field(o[i])) = Slot(f)}
           J == {i \in 1 .. Len(o) : Field(o[i]) = f}
           at == SelectLastInSeq(o, LAMBDA t : Slot(Field(t)) = Slot(f))
           lt == SelectLastInSeq(o, LAMBDA t : Field(t) = f)
<1>2. DOMAIN o = 1 .. Len(o) /\ Len(o) \in Nat
    OBVIOUS
<1>3. \A i \in 1 .. Len(o) : Field(o[i]) \in Fields(s)
    BY <1>1, <1>2 DEF Fields, Range
<1>4. \A g \in Fields(s) : Slot(g) = Slot(f) <=> g = f
    BY DEF Slot, OptionFields
<1>5. I = J
    BY <1>3, <1>4
<1>6. /\ at = IF I # {} THEN Max(I) ELSE 0
      /\ lt = IF J # {} THEN Max(J) ELSE 0
    BY DEF SelectLastInSeq
<1>7. /\ Value(s, Slot(f)) = IF at = 0 THEN "" ELSE Reads[o[at]].val
      /\ LastValue(s, f) = Reads[o[lt]].val
    BY <1>1 DEF Value, LastValue
<1>8. PICK k \in 1 .. Len(o) : Field(o[k]) = f
    BY <1>1, <1>2 DEF Fields, Range
<1>9. J # {} /\ J \in SUBSET (1 .. Len(o)) /\ J \in SUBSET Int
    BY <1>8
<1>10. PICK m \in J : \A i \in J : m >= i
    BY <1>2, <1>9, GreatestElement
<1>11. m \in 1 .. Len(o) /\ Field(o[m]) = f
    OBVIOUS
<1> HIDE DEF I, J, at, lt
<1>12. lt = m /\ at = m /\ m # 0
    BY <1>5, <1>6, <1>9, <1>10, <1>11, MaxIs
<1>13. o[m] \in Range(o)
    BY <1>2, <1>11 DEF Range
<1> QED BY <1>1, <1>7, <1>11, <1>12, <1>13

(* Where the option that comes last, and the slot's value, have their      *)
(* effect on the profile: the checks found nothing to object to.           *)
LEMMA EffectOfLast ==
    ASSUME IInv, stage = "DoProfile", NEW f \in raw.fields \cap OptionFields, NEW v,
           f \notin {"help", "version", "noAction"},
           Slot(f) \in Slots => raw.value[Slot(f)] = v,
           f = "compressionMode" => v # ""
    PROVE  TakesEffect(f, v)
<1> USE DEF Given, AfterParsing, AfterTarget, AfterCompression, AfterOutput, AfterRate,
        AfterMinidump, AfterChildren, AfterProviders, AfterStackCache
<1>1. ParsedInv /\ ProfileInv
    BY DEF IInv, ParsedInv
<1>2. /\ TargetOK
      /\ args.targetMode = IF Given("target") THEN "Attach" ELSE "Start"
      /\ Given("target") => args.targetPID = PID(raw.value["target"])
                            /\ (args.targetIsPID <=> PID(raw.value["target"]) # 0)
    BY <1>1 DEF ProfileInv, TargetInv
<1>3. f = "target" =>
        /\ args.targetMode = "Attach"
        /\ IF PID(v) # 0 THEN args.targetIsPID /\ args.targetPID = PID(v)
           ELSE ~args.targetIsPID /\ raw.value["target"] = v
    BY <1>2 DEF Slot, Slots
<1>4. f \in {"outputFile", "outputDir"} => args.output = PathExpandEnvVars(v)
    BY <1>1 DEF Slot, Slots, ProfileInv, OutputInv
<1>5. f = "compressionMode" => args.compressionMode = CompressionModes[v]
    BY <1>1 DEF Slot, Slots, ProfileInv, CompressionInv
<1>6. f = "userProviders" /\ v \in DOMAIN Descriptors =>
        \A i \in DOMAIN Descriptors[v] :
            ProviderInfo(Descriptors[v][i]) \in Range(args.providers)
    BY <1>1 DEF Slot, Slots, ProfileInv, ProvidersInv
<1>7. f = "emulate" => raw.value["emulate"] = v
    BY DEF Slot, Slots
<1>8. /\ f \in {"samplingRate", "minidump", "stackCache"} => ~Given("emulate")
      /\ f = "minidump" => args.targetMode = "Attach"
    BY <1>1, <1>2 DEF ProfileInv, RateInv, MinidumpInv, MinidumpOK, StackCacheInv
<1>9. f = "samplingRate" => args.samplingRate = Number(v)
    BY <1>1 DEF Slot, Slots, ProfileInv, RateInv
<1>10. f = "minidumpFlags" => Given("minidump") /\ raw.value["minidumpFlags"] = v
    BY <1>1 DEF Slot, Slots, ProfileInv, MinidumpInv, MinidumpOK
<1>11. f = "waitForChildren" => Given("profileChildren")
    BY <1>1 DEF ProfileInv, ChildrenInv
<1> QED
    BY <1>3, <1>4, <1>5, <1>6, <1>7, <1>8, <1>9, <1>10, <1>11 DEF TakesEffect

(* Every option has its effect on the profile that is made, on whichever   *)
(* way through files, parser and checks it comes, for any values; without  *)
(* the command only options pass that need none.                           *)
THEOREM OptionsAreHeeded == Spec => []OptionsTakeEffect
<1>1. IInv /\ LineInv => OptionsTakeEffect
    <2> SUFFICES ASSUME IInv, LineInv, stage \in {"Run", "DoProfile"},
                        ~Has(Rest(UnpackedFrom(Before(line, "--"))), "--")
                 PROVE  OptionsTakeEffect
        BY DEF OptionsTakeEffect
    <2>1. /\ line \in Seq(Texts) /\ tokens = UnpackedFrom(line)
          /\ \E blank \in BOOLEAN : CanParse(Rest(tokens), blank)
          /\ raw = Parsed(Rest(tokens))
          /\ Given("profile") \/ raw.fields \cap OnlyForProfiling = {}
        BY ArgumentsAssumption
        DEF LineInv, AfterParsing, AfterTarget, AfterCompression, AfterOutput, AfterRate,
            AfterMinidump, AfterChildren, AfterProviders, AfterStackCache, Texts
    <2>2. PICK b \in Seq(Texts) : b = Before(line, "--")
        BY <2>1, BeforeSplits
    <2>3. PICK q \in Seq(Texts) : line = b \o q /\ (q # <<>> => Form(q[1]) = "--")
        BY <2>1, <2>2, BeforeSplits
    <2>4. PICK w \in Seq(Texts) : w = UnpackedFrom(b)
        BY UnpackedEach
    <2>5. PICK u \in Seq(Texts) : u = UnpackedFrom(q)
        BY UnpackedEach
    <2>6. tokens = w \o u
        BY <2>1, <2>3, <2>4, <2>5, UnpackedConcat
    <2>7. u # <<>> => Form(u[1]) = "--"
        <3>1. CASE q = <<>>
            <4>1. \A i \in DOMAIN q : Form(q[i]) # "@"
                BY <3>1
            <4>2. u = q
                BY <2>5, <4>1, UnpackedSame
            <4> QED BY <3>1, <4>2
        <3>2. CASE q # <<>>
            BY <2>3, <2>5, <3>2, UnpackedHead
        <3> QED BY <3>1, <3>2
    <2>8. CASE w = <<>>
        <3>1. Rest(w) = <<>> /\ ~HasCommand(Rest(w)) /\ ~Has(Rest(w), "--")
            BY <2>8 DEF Rest, HasCommand, Has
        <3>2. Options(Rest(w)) = <<>>
            <4>1. Rest(w) \in Seq(Texts)
                BY RestType
            <4>2. Before(Rest(w), "--") = Rest(w)
                BY <3>1, <4>1, BeforeAll
            <4> QED BY <3>1, <4>2 DEF Options
        <3>3. Range(<<>>) = {}
            BY DEF Range
        <3>4. Fields(Rest(w)) = {}
            BY <3>2, <3>3 DEF Fields
        <3> QED BY <2>2, <2>4, <3>4 DEF OptionsTakeEffect
    <2>9. CASE w # <<>>
        <3> PICK s, r : s = Rest(tokens) /\ r = Rest(w)
            OBVIOUS
        <3>1. Options(s) = Options(r) /\ s \in Seq(Texts)
            <4>1. Options(Rest(w \o u)) = Options(Rest(w))
                BY <2>2, <2>4, <2>7, <2>9, OptionsOfPrefix
            <4>2. w \o u \in Seq(Texts)
                OBVIOUS
            <4>3. Rest(w \o u) \in Seq(Texts)
                BY <4>2, RestType
            <4> QED BY <2>6, <4>1, <4>3
        <3>2. Fields(r) = Fields(s) /\ \A f : LastValue(r, f) = LastValue(s, f)
            BY <3>1 DEF Fields, LastValue
        <3>3. /\ Fields(s) \subseteq raw.fields \cap OptionFields
              /\ \A slot \in Slots : raw.value[slot] = Value(s, slot)
              /\ \A t \in Range(Options(s)) : Understood(t)
            BY <2>1, ParsedFields DEF Parsed, CanParse
        <3>4. ~Given("profile") =>
                Fields(r) \subseteq {"help", "version", "noAction", "noLogo", "verbose",
                                    "debug", "compressionMode"}
            BY <2>1, <3>2, <3>3 DEF OptionFields, OnlyForProfiling
        <3>5. ASSUME stage = "DoProfile", NEW f \in Fields(r)
              PROVE  TakesEffect(f, LastValue(r, f))
            <4>1. /\ Silent
                  /\ Given("outputFile") # Given("outputDir")
                BY <3>5 DEF IInv, ParsedInv, ProfileInv, OutputInv, AfterParsing, AfterTarget,
                    AfterCompression, AfterOutput, AfterRate, AfterMinidump, AfterChildren,
                    AfterProviders, AfterStackCache
            <4>2. ~({"outputFile", "outputDir"} \subseteq Fields(s))
                BY <3>3, <4>1 DEF Given
            <4>3. f \in Fields(s) /\ f \in raw.fields \cap OptionFields
                BY <3>2, <3>3
            <4>4. PICK v : v = LastValue(s, f)
                OBVIOUS
            <4>5. /\ Value(s, Slot(f)) = v
                  /\ \E t \in Range(Options(s)) : Field(t) = f /\ v = Reads[t].val
                BY <3>1, <3>3, <4>2, <4>3, <4>4, SlotHoldsLast
            <4>6. f = "compressionMode" => v # ""
                BY <3>3, <4>5, ValueIsTyped
            <4>7. f \notin {"help", "version", "noAction"}
                BY <4>1, <4>3 DEF Silent
            <4>8. Slot(f) \in Slots => raw.value[Slot(f)] = v
                BY <3>3, <4>5
            <4> QED BY <3>2, <3>5, <4>3, <4>4, <4>6, <4>7, <4>8, EffectOfLast
        <3> QED BY <2>2, <2>4, <3>4, <3>5 DEF OptionsTakeEffect
    <2> QED BY <2>8, <2>9
<1> QED BY <1>1, Inductive, LineInvariant, PTL

-------------------------------------------------------------------------------
(* What the usage text shows. *)

(* A usual line has no directive, and the parser takes it.                 *)
LEMMA UsualLine ==
    ASSUME Usual, line \in Lines
    PROVE  /\ UnpackedFrom(line) = line /\ CanUnpack(line)
           /\ (\A blank : CanParse(Rest(line), blank)) /\ HasCommand(Rest(line))
           /\ \A t \in Range(Options(Rest(line))) : Works(t)
<1>1. line \in Seq(Texts) /\ line # <<>>
    BY ArgumentsAssumption DEF Texts
<1>2. PICK s \in Seq(Texts) : s = Rest(line)
    BY <1>1, RestType
<1>3. Len(s) = Len(line) - 1 /\ \A i \in 1 .. Len(line) - 1 : s[i] = line[i + 1]
    BY <1>1, <1>2, RestType
<1>4. /\ Form(line[1]) = "command" /\ Range(s) \subseteq GoodTexts
      /\ HasCommand(s) /\ Reads[s[1]].name = "profile"
      /\ \A t \in Range(Options(s)) : Understood(t)
      /\ "startCommandLine" \in Parsed(s).fields => StartCommandLine # <<>>
    BY <1>2 DEF Usual
<1>5. DOMAIN s = 1 .. Len(s) /\ DOMAIN line = 1 .. Len(line) /\ Len(line) \in Nat \ {0}
    BY <1>1
<1>6. \A i \in 1 .. Len(s) : s[i] \in GoodTexts
    BY <1>4, <1>5 DEF Range
<1>7. ASSUME NEW i \in DOMAIN line PROVE Form(line[i]) # "@"
    <2>1. CASE i = 1
        BY <1>4, <2>1
    <2>2. CASE i # 1
        <3>1. i - 1 \in 1 .. Len(line) - 1 /\ (i - 1) + 1 = i
            BY <1>5, <2>2
        <3>2. s[i - 1] = line[i] /\ s[i - 1] \in GoodTexts
            BY <1>3, <1>6, <3>1
        <3> QED BY <3>2, GoodTextsAssumption
    <2> QED BY <2>1, <2>2
<1>8. UnpackedFrom(line) = line
    BY <1>1, <1>7, UnpackedSame
<1>9. CanUnpack(line)
    BY <1>7 DEF CanUnpack
<1>10. \A blank : CanParse(s, blank)
    <2>1. s # <<>> /\ Form(s[1]) = "command"
        BY <1>4 DEF HasCommand
    <2>2. Has(s, "--") => StartCommandLine # <<>>
        BY <1>4 DEF Parsed
    <2> QED BY <1>4, <2>1, <2>2 DEF CanParse
<1>11. \A t \in Range(Options(s)) : Works(t)
    <2>1. s \in Seq(GoodTexts)
        <3>1. Len(s) \in Nat /\ s = [i \in 1 .. Len(s) |-> s[i]]
            OBVIOUS
        <3> QED BY <1>6, <3>1, IsASeq
    <2>2. \A t \in Range(Options(s)) : t \in GoodTexts
        BY <2>1, OptionsType
    <2> QED BY <1>4, <2>2, GoodTextsAssumption
<1> QED BY <1>2, <1>4, <1>8, <1>9, <1>10, <1>11

(* The value of an option that is given is one that has been typed.        *)
LEMMA GivenValue ==
    ASSUME NEW S, NEW s \in Seq(S), NEW f \in Fields(s)
    PROVE  \E t \in Range(Options(s)) :
                Slot(Field(t)) = Slot(f) /\ Value(s, Slot(f)) = Reads[t].val
<1>1. PICK t \in Range(Options(s)) : Field(t) = f
    BY DEF Fields
<1> QED BY <1>1, ValueOf

(* So what a usual line says works.                                        *)
UsualRaw ==
    LET p == PathExpandEnvVars(raw.value["output"])
        v == raw.value["userProviders"] IN
    /\ UsageLine(raw.fields) /\ ~({"outputFile", "compressionMode"} \subseteq raw.fields)
    /\ Given("startCommandLine") => StartCommandLine # <<>> /\ IsFile(StartCommandLine[1])
    /\ Given("emulate") =>
        /\ IsFile(raw.value["emulate"]) /\ PathGetExtension(raw.value["emulate"]) = ".etl"
        /\ PID(raw.value["target"]) # 0
    /\ raw.value["compressionMode"] \in {""} \cup DOMAIN CompressionModes
    /\ ~Given("compressionMode") => raw.value["compressionMode"] = ""
    /\ Given("samplingRate") => Number(raw.value["samplingRate"]) \in SamplingRates
    /\ Given("userProviders") => (v \in DOMAIN Descriptors => ProvidersOK(Descriptors[v]))
    /\ Given("outputDir") /\ ~Given("outputFile") => PathValid(p) /\ PathExists(p)
    /\ Given("outputFile") /\ ~Given("outputDir") =>
        /\ PathValid(p) /\ PathExists(PathGetDirectory(p)) /\ (PathExists(p) => IsFile(p))
        /\ PathGetExtension(p) \in {"", ".etl"}

(* Each value is that of an option that is given, and that one works.      *)
LEMMA UsualValues ==
    ASSUME Usual, line \in Lines, raw = Parsed(Rest(line))
    PROVE  UsualRaw
<1>1. line \in Seq(Texts)
    BY ArgumentsAssumption DEF Texts
<1>2. PICK s \in Seq(Texts) : s = Rest(line)
    BY <1>1, RestType
<1>3. /\ UsageLine(raw.fields) /\ ~({"outputFile", "compressionMode"} \subseteq raw.fields)
      /\ Given("startCommandLine") => StartCommandLine # <<>> /\ IsFile(StartCommandLine[1])
      /\ Given("emulate") => PID(Value(s, "target")) # 0
    BY <1>2 DEF Usual, Given
<1>4. \A t \in Range(Options(s)) : Works(t)
    BY <1>2, UsualLine
<1>5. \A slot \in Slots : raw.value[slot] = Value(s, slot)
    BY <1>2 DEF Parsed
<1>6. \A f : Given(f) => f \in Fields(s) \cup {"profile", "startCommandLine"}
    BY <1>2 DEF Parsed, Given
<1>7. ASSUME NEW f \in {"emulate", "samplingRate", "userProviders"}, Given(f)
      PROVE  \E t \in Range(Options(s)) : Field(t) = f /\ raw.value[f] = Reads[t].val
    <2>1. PICK t \in Range(Options(s)) : Slot(Field(t)) = Slot(f) /\ Value(s, Slot(f)) = Reads[t].val
        BY <1>6, <1>7, GivenValue
    <2>2. Slot(f) = f /\ f \in Slots /\ Field(t) = f
        BY <2>1 DEF Slot, Slots
    <2> QED BY <1>5, <2>1, <2>2
<1>8. /\ raw.value["compressionMode"] \in {""} \cup DOMAIN CompressionModes
      /\ ~Given("compressionMode") => raw.value["compressionMode"] = ""
    <2>1. \A t \in Range(Options(s)) :
            Slot(Field(t)) = "compressionMode" => Field(t) = "compressionMode" /\ Given(Field(t))
        BY <1>2 DEF Slot, Given, Parsed, Fields
    <2>2. "compressionMode" \in Slots
        BY DEF Slots
    <2>3. CASE Value(s, "compressionMode") = ""
        BY <1>5, <2>2, <2>3
    <2>4. CASE Value(s, "compressionMode") # ""
        <3>1. PICK t \in Range(Options(s)) :
                Slot(Field(t)) = "compressionMode" /\ Value(s, "compressionMode") = Reads[t].val
            BY <2>4, ValueOf
        <3>2. Field(t) = "compressionMode" /\ Given("compressionMode")
            BY <2>1, <3>1
        <3>3. Reads[t].val \in DOMAIN CompressionModes
            BY <1>4, <3>2 DEF Works
        <3> QED BY <1>5, <2>2, <3>1, <3>2, <3>3
    <2> QED BY <2>3, <2>4
<1>9. /\ Given("outputDir") /\ ~Given("outputFile") =>
            \E t \in Range(Options(s)) : Field(t) = "outputDir" /\ raw.value["output"] = Reads[t].val
      /\ Given("outputFile") /\ ~Given("outputDir") =>
            \E t \in Range(Options(s)) : Field(t) = "outputFile" /\ raw.value["output"] = Reads[t].val
    <2>1. ASSUME NEW f \in {"outputDir", "outputFile"}, Given(f)
          PROVE  \E t \in Range(Options(s)) :
                    /\ Field(t) \in {"outputDir", "outputFile"} /\ Given(Field(t))
                    /\ raw.value["output"] = Reads[t].val
        <3>1. PICK t \in Range(Options(s)) : Slot(Field(t)) = Slot(f) /\ Value(s, Slot(f)) = Reads[t].val
            BY <1>6, <2>1, GivenValue
        <3>2. Slot(f) = "output" /\ "output" \in Slots
            BY DEF Slot, Slots
        <3>3. Field(t) \in {"outputDir", "outputFile"}
            <4>1. ASSUME Field(t) = "output" PROVE FALSE
                BY <1>2, <4>1, UsualLine, FieldIsKnown DEF OptionFields, Usual
            <4> QED BY <3>1, <3>2, <4>1 DEF Slot
        <3>4. Given(Field(t))
            BY <1>2 DEF Given, Parsed, Fields
        <3> QED BY <1>5, <3>1, <3>2, <3>3, <3>4
    <2> QED BY <2>1
<1>10. Given("emulate") => /\ IsFile(raw.value["emulate"])
                           /\ PathGetExtension(raw.value["emulate"]) = ".etl"
                           /\ PID(raw.value["target"]) # 0
    <2>1. "target" \in Slots
        BY DEF Slots
    <2> QED BY <1>3, <1>4, <1>5, <1>7, <2>1 DEF Works
<1>11. Given("samplingRate") => Number(raw.value["samplingRate"]) \in SamplingRates
    BY <1>4, <1>7 DEF Works
<1>12. Given("userProviders") =>
            (raw.value["userProviders"] \in DOMAIN Descriptors =>
                ProvidersOK(Descriptors[raw.value["userProviders"]]))
    BY <1>4, <1>7 DEF Works
<1> DEFINE p == PathExpandEnvVars(raw.value["output"])
<1>13. /\ Given("outputDir") /\ ~Given("outputFile") => PathValid(p) /\ PathExists(p)
       /\ Given("outputFile") /\ ~Given("outputDir") =>
            /\ PathValid(p) /\ PathExists(PathGetDirectory(p)) /\ (PathExists(p) => IsFile(p))
            /\ PathGetExtension(p) \in {"", ".etl"}
    BY <1>4, <1>9 DEF Works
<1> QED BY <1>3, <1>8, <1>10, <1>11, <1>12, <1>13 DEF UsualRaw

(* A usual line with -o has a trace that is not compressed with 7z.        *)
UsualInv ==
    Usual =>
        /\ stage # "usage"
        /\ stage \in AfterCompression => (Given("outputFile") => args.compressionMode = "ETW")

(* No check of SemaArguments refuses a usual line: step by step, what the  *)
(* check asks for is a part of UsualRaw, or has been found out before.     *)
LEMMA UsualStep ==
    ASSUME IInv, LineInv, UsualInv, [Next]_vars, Usual
    PROVE  UsualInv'
<1> USE DEF Given, AfterParsing, AfterTarget, AfterCompression, AfterOutput, AfterRate,
            AfterMinidump, AfterChildren, AfterProviders, AfterStackCache
<1>1. /\ Kept /\ Entered /\ line' = line /\ line \in Lines /\ DOMAIN args = ArgumentNames
      /\ stage # "usage"
      /\ stage \in AfterCompression => (Given("outputFile") => args.compressionMode = "ETW")
    BY StepKeeps DEF IInv, LineInv, UsualInv
<1>2. /\ UnpackedFrom(line) = line /\ CanUnpack(line)
      /\ (\A blank : CanParse(Rest(line), blank)) /\ HasCommand(Rest(line))
    BY <1>1, UsualLine
<1>3. stage \in AfterParsing => raw = Parsed(Rest(line)) /\ Given("profile") /\ UsualRaw
    BY <1>1, <1>2, UsualValues, ParsedFields DEF LineInv
<1>4. stage \in AfterTarget =>
        /\ TargetOK /\ args.targetMode = IF Given("target") THEN "Attach" ELSE "Start"
    BY <1>3 DEF IInv, ProfileInv, TargetInv
<1>5. CASE UnpackRespFiles
    <2>1. stage' \in {"UnpackRespFiles", "ParseArguments"}
        BY <1>2, <1>5, UnpackStep
    <2> QED BY <2>1 DEF UsualInv
<1>6. CASE ParseArguments
    <2>1. tokens = line
        BY <1>2, <1>6 DEF LineInv, ParseArguments, Passes
    <2> QED BY <1>2, <1>6, <2>1 DEF ParseArguments, Passes, UsualInv
<1>7. CASE SemaInputETLPath
    BY <1>3, <1>7 DEF SemaInputETLPath, Passes, UsualInv, UsualRaw, LineInv
<1>8. CASE SemaTarget
    <2>1. stage = "SemaTarget"
        BY <1>8 DEF SemaTarget, Passes
    <2>2. TargetOK
        BY <1>3, <2>1 DEF UsualRaw, TargetOK, UsageLine, LiveLines, EveryLine, IsFile, IsDirectory
    <2> QED BY <1>8, <2>2 DEF SemaTarget, Passes, UsualInv
<1>9. CASE SemaCompressionMode
    <2>1. stage = "SemaCompressionMode" /\ raw' = raw
        BY <1>9 DEF SemaCompressionMode, Passes
    <2>2. Given("outputFile") => raw.value["compressionMode"] = ""
        BY <1>3, <2>1 DEF UsualRaw
    <2>3. stage' # "usage"
        BY <1>3, <1>9, <2>1 DEF SemaCompressionMode, Passes, UsualRaw
    <2>4. Given("outputFile") => args'.compressionMode = "ETW"
        BY <1>1, <1>9, <2>2 DEF SemaCompressionMode, ArgumentNames
    <2> QED BY <2>1, <2>3, <2>4 DEF UsualInv
<1>10. CASE SemaOutputPath
    <2>1. stage = "SemaOutputPath" /\ raw' = raw /\ args'.compressionMode = args.compressionMode
        BY <1>1, <1>10 DEF SemaOutputPath, Passes, Kept
    <2> PICK p : p = PathExpandEnvVars(raw.value["output"])
        OBVIOUS
    <2>2. OutputOK(p)
        <3>1. UsualRaw /\ (Given("outputFile") => args.compressionMode = "ETW")
            BY <1>1, <1>3, <2>1
        <3>2. Given("outputFile") # Given("outputDir")
            BY <3>1 DEF UsualRaw, UsageLine
        <3>3. CASE Given("outputFile")
            <4>1. /\ PathValid(p) /\ PathExists(PathGetDirectory(p)) /\ (PathExists(p) => IsFile(p))
                  /\ PathGetExtension(p) \in {"", ".etl"}
                BY <3>1, <3>2, <3>3 DEF UsualRaw
            <4>2. TraceExtension = ".etl"
                BY <3>1, <3>3 DEF TraceExtension
            <4> QED BY <3>2, <3>3, <4>1, <4>2 DEF OutputOK
        <3>4. CASE ~Given("outputFile")
            <4>1. Given("outputDir") /\ ~Given("outputFile")
                BY <3>2, <3>4
            <4>2. PathValid(p) /\ PathExists(p)
                BY <3>1, <4>1 DEF UsualRaw
            <4> QED BY <4>1, <4>2 DEF OutputOK
        <3> QED BY <3>3, <3>4
    <2> QED BY <1>1, <1>10, <2>1, <2>2 DEF SemaOutputPath, Passes, UsualInv
<1>11. CASE SemaSamplingRate
    <2>1. stage = "SemaSamplingRate" /\ raw' = raw /\ args'.compressionMode = args.compressionMode
        BY <1>1, <1>11, RateEffect DEF Kept
    <2>2. Given("samplingRate") =>
            ~Given("emulate") /\ Number(raw.value["samplingRate"]) \in SamplingRates
        BY <1>3, <2>1 DEF UsualRaw, UsageLine, LiveLines, EveryLine
    <2>3. stage' # "usage"
        BY <1>11, <2>2 DEF SemaSamplingRate, Passes
    <2> QED BY <1>1, <2>1, <2>3 DEF UsualInv
<1>12. CASE SemaMinidump
    <2>1. stage = "SemaMinidump"
        BY <1>12 DEF SemaMinidump, Passes
    <2>2. MinidumpOK
        BY <1>3, <1>4, <2>1 DEF UsualRaw, UsageLine, LiveLines, EveryLine, MinidumpOK
    <2> QED BY <1>1, <1>12, <2>2 DEF SemaMinidump, Passes, UsualInv
<1>13. CASE SemaChildProcessProfiling
    BY <1>1, <1>3, <1>13 DEF SemaChildProcessProfiling, Passes, UsualInv, UsualRaw, UsageLine
<1>14. CASE SemaUserProviderInfos
    <2>1. stage = "SemaUserProviderInfos" /\ raw' = raw /\ args'.compressionMode = args.compressionMode
        BY <1>1, <1>14 DEF SemaUserProviderInfos, Passes, Kept
    <2>2. ProvidersOK(<<>>)
        BY DEF ProvidersOK, CheckForDuplicateProviders
    <2>3. stage' # "usage"
        BY <1>3, <1>14, <2>1, <2>2 DEF SemaUserProviderInfos, Passes, UsualRaw
    <2> QED BY <1>1, <2>1, <2>3 DEF UsualInv
<1>15. CASE SemaStackCache
    BY <1>1, <1>3, <1>15 DEF SemaStackCache, Passes, UsualInv, UsualRaw, UsageLine,
        LiveLines, EveryLine
<1>16. CASE NotProfiling
    BY <1>3, <1>16 DEF NotProfiling, Passes, IInv, ParsedInv
<1>17. CASE InitCOMFails
    BY <1>17 DEF InitCOMFails, UsualInv
<1>18. CASE Run
    BY <1>1, <1>18 DEF Run, UsualInv
<1>19. CASE DoProfile
    BY <1>19 DEF DoProfile, UsualInv
<1>20. CASE UNCHANGED vars
    BY <1>1, <1>20 DEF vars, UsualInv
<1> QED
    BY <1>5, <1>6, <1>7, <1>8, <1>9, <1>10, <1>11, <1>12, <1>13, <1>14, <1>15, <1>16,
       <1>17, <1>18, <1>19, <1>20 DEF Next, SemaArguments

(* A line that the usage text shows, with values that work, reaches the    *)
(* end of Init, whatever its options are and in whatever order.            *)
THEOREM UsageIsPossible == Spec => []UsageIsAccepted
<1>1. Init => UsualInv
    BY DEF Init, UsualInv, AfterCompression, AfterOutput, AfterRate, AfterMinidump, AfterChildren,
           AfterProviders, AfterStackCache
<1>2. ASSUME IInv, LineInv, UsualInv, [Next]_vars PROVE UsualInv'
    <2>1. Usual' <=> Usual
        BY <1>2, StepKeeps, LineStays DEF IInv, Usual
    <2>2. CASE Usual
        BY <1>2, <2>2, UsualStep
    <2>3. CASE ~Usual
        BY <2>1, <2>3 DEF UsualInv
    <2> QED BY <2>2, <2>3
<1>3. UsualInv => UsageIsAccepted
    BY DEF UsualInv, UsageIsAccepted
<1> QED BY <1>1, <1>2, <1>3, Inductive, LineInvariant, PTL DEF Spec

-------------------------------------------------------------------------------
(* Types. *)

(* A descriptor's numbers fit, however long they are written.              *)
LEMMA ProviderType ==
    ASSUME NEW d, d.level \in Nat, d.keyword \in Nat
    PROVE  /\ ProviderInfo(d).keywordBitmask \in 0 .. Keywords - 1
           /\ ProviderInfo(d).maxLevel \in 0 .. 255
           /\ ProviderInfo(d).stack \in BOOLEAN
<1>1. Keywords \in Nat \ {0}
    BY ArgumentsAssumption
<1>2. d.keyword % Keywords \in 0 .. Keywords - 1
    BY <1>1
<1>3. KeywordBitmask(d) \in 0 .. Keywords - 1
    BY <1>1, <1>2 DEF KeywordBitmask
<1>4. 0 \in 0 .. Keywords - 1
    BY <1>1
<1>5. ProviderInfo(d).keywordBitmask \in 0 .. Keywords - 1
    BY <1>3, <1>4 DEF ProviderInfo
<1>6. ProviderInfo(d).stack \in BOOLEAN
    BY DEF ProviderInfo
<1>7. ProviderInfo(d).maxLevel = IF d.elements = 3 /\ d.hasLevel THEN d.level % 256 ELSE 0
    BY DEF ProviderInfo
<1>8. d.level % 256 \in 0 .. 255 /\ 0 \in 0 .. 255
    OBVIOUS
<1> QED BY <1>5, <1>6, <1>7, <1>8

(* What SemaUserProviderInfos takes over.                                  *)
LEMMA ProvidersType ==
    ASSUME SemaUserProviderInfos, TypeOK, DOMAIN args = ArgumentNames
    PROVE  /\ \A i \in DOMAIN args'.providers :
                /\ args'.providers[i].keywordBitmask \in 0 .. Keywords - 1
                /\ args'.providers[i].maxLevel \in 0 .. 255
                /\ args'.providers[i].stack \in BOOLEAN
           /\ \A f \in ArgumentNames \ {"providers"} : args'[f] = args[f]
<1> PICK ds : ds = IF Given("userProviders") /\ raw.value["userProviders"] \in DOMAIN Descriptors
                     THEN Descriptors[raw.value["userProviders"]] ELSE <<>>
    OBVIOUS
<1>1. args' = IF ProvidersOK(ds)
                THEN [args EXCEPT !.providers = [i \in DOMAIN ds |-> ProviderInfo(ds[i])]]
                ELSE args
    BY DEF SemaUserProviderInfos
<1>2. CASE ProvidersOK(ds)
    <2>1. args' = [args EXCEPT !.providers = [i \in DOMAIN ds |-> ProviderInfo(ds[i])]]
        BY <1>1, <1>2
    <2>2. PICK P : P = args'.providers
        OBVIOUS
    <2>3. P = [i \in DOMAIN ds |-> ProviderInfo(ds[i])]
        BY <2>1, <2>2 DEF ArgumentNames
    <2>4. ASSUME NEW i \in DOMAIN P
          PROVE  /\ P[i].keywordBitmask \in 0 .. Keywords - 1 /\ P[i].maxLevel \in 0 .. 255
                 /\ P[i].stack \in BOOLEAN
        <3>1. i \in DOMAIN ds /\ P[i] = ProviderInfo(ds[i])
            BY <2>3, <2>4
        <3>2. ds[i].level \in Nat /\ ds[i].keyword \in Nat
            BY <3>1, ArgumentsAssumption
        <3> QED BY <3>1, <3>2, ProviderType
    <2>5. \A f \in ArgumentNames \ {"providers"} : args'[f] = args[f]
        BY <2>1 DEF ArgumentNames
    <2> QED BY <2>2, <2>4, <2>5
<1>3. CASE ~ProvidersOK(ds)
    BY <1>1, <1>3 DEF TypeOK
<1> QED BY <1>2, <1>3

(* The checks change one member of args each.                              *)
LEMMA TypeStep ==
    ASSUME TypeOK, LineInv, DOMAIN args = ArgumentNames, [Next]_vars
    PROVE  TypeOK'
<1>0. /\ line' = line /\ \A v : PID(v) \in 0 .. DWORDs - 1
      /\ 0 \in 0 .. DWORDs - 1
    <2>1. DWORDs \in Nat \ {0} /\ \A v : Number(v) \in Int
        BY ArgumentsAssumption DEF Number
    <2>2. \A v : PID(v) \in 0 .. DWORDs - 1
        BY <2>1 DEF PID
    <2> QED BY <2>1, <2>2, StepKeeps
<1> DEFINE T == /\ args'.targetMode \in {"None", "Attach", "Start"} /\ args'.targetIsPID \in BOOLEAN
                /\ args'.targetPID \in 0 .. DWORDs - 1
                /\ args'.compressionMode \in {"Invalid", "Off", "ETW", "SevenZip"}
                /\ args'.samplingRate \in Int
                /\ \A i \in DOMAIN args'.providers :
                    /\ args'.providers[i].keywordBitmask \in 0 .. Keywords - 1
                    /\ args'.providers[i].maxLevel \in 0 .. 255
                    /\ args'.providers[i].stack \in BOOLEAN
<1>1. args' = args => T
    BY DEF TypeOK
<1>2. ASSUME NEW here, NEW ok, NEW next \in Stages, Passes(here, ok, next)
      PROVE  /\ stage' \in Stages
             /\ exit' \in {"none", "0", "InitializationError", "ProfilingInitializationError"}
             /\ position' = position
    BY <1>2 DEF Passes, TypeOK, Stages
<1>3. ASSUME raw' = raw, tokens' = tokens, position' = position, T, stage' \in Stages,
             exit' \in {"none", "0", "InitializationError", "ProfilingInitializationError"}
      PROVE  TypeOK'
    BY <1>0, <1>3 DEF TypeOK
<1> HIDE DEF T
<1>4. CASE UnpackRespFiles
    <2>1. line \in Seq(Texts)
        BY ArgumentsAssumption DEF TypeOK, Texts
    <2>2. tokens \in Seq(Texts) /\ UnpackedFrom(line) \in Seq(Texts)
        BY <2>1, UnpackedEach DEF TypeOK, Texts
    <2>3. position' \in Nat /\ tokens' \in Seq(DOMAIN Reads)
        <3>1. ASSUME Unpacking(line, tokens', position') PROVE tokens' \in Seq(Texts)
            BY <2>1, <3>1, LoopStep
        <3> QED BY <1>4, <2>2, <3>1, UnpackStep DEF Texts
    <2>4. /\ raw' = raw /\ T /\ stage' \in Stages
          /\ exit' \in {"none", "0", "InitializationError", "ProfilingInitializationError"}
        BY <1>1, <1>4 DEF UnpackRespFiles, Stages, TypeOK
    <2> QED BY <1>0, <2>3, <2>4 DEF TypeOK, T
<1>5. CASE ParseArguments
    <2> PICK s : s = Rest(tokens)
        OBVIOUS
    <2>1. DOMAIN raw'.value = Slots
        BY <1>5 DEF ParseArguments, TypeOK, Parsed
    <2>2. tokens' = tokens /\ position' = position /\ T
        BY <1>1, <1>5 DEF ParseArguments, Passes
    <2>3. /\ stage' \in Stages
          /\ exit' \in {"none", "0", "InitializationError", "ProfilingInitializationError"}
        BY <1>5 DEF ParseArguments, Passes, TypeOK, Stages
    <2> QED BY <1>0, <2>1, <2>2, <2>3 DEF TypeOK, T
<1>6. CASE SemaInputETLPath
    BY <1>1, <1>2, <1>3, <1>6 DEF SemaInputETLPath, Stages
<1>7. CASE SemaTarget
    <2>1. T
        BY <1>0, <1>7 DEF SemaTarget, TypeOK, ArgumentNames, T
    <2> QED BY <1>2, <1>3, <1>7, <2>1 DEF SemaTarget, Stages
<1>8. CASE SemaCompressionMode
    <2>1. \A v \in DOMAIN CompressionModes : CompressionModes[v] \in {"Off", "ETW", "SevenZip"}
        BY DEF CompressionModes
    <2>2. T
        BY <1>8, <2>1 DEF SemaCompressionMode, TypeOK, ArgumentNames, T
    <2> QED BY <1>2, <1>3, <1>8, <2>2 DEF SemaCompressionMode, Stages
<1>9. CASE SemaOutputPath
    <2>1. T
        BY <1>1, <1>9 DEF SemaOutputPath, TypeOK, ArgumentNames, T
    <2> QED BY <1>2, <1>3, <1>9, <2>1 DEF SemaOutputPath, Stages
<1>10. CASE SemaSamplingRate
    <2>1. PICK rate \in Int : args' = [args EXCEPT !.samplingRate = rate]
        <3>1. \A v : Number(v) \in Int
            BY ArgumentsAssumption DEF Number
        <3>2. PICK rate : /\ args' = [args EXCEPT !.samplingRate = rate]
                          /\ rate = 0 \/ \E v : rate = Number(v)
            BY <1>10 DEF SemaSamplingRate
        <3>3. rate \in Int
            BY <3>1, <3>2
        <3> QED BY <3>2, <3>3
    <2>2. T
        BY <2>1 DEF TypeOK, ArgumentNames, T
    <2>3. /\ raw' = raw /\ tokens' = tokens /\ position' = position /\ stage' \in Stages
          /\ exit' \in {"none", "0", "InitializationError", "ProfilingInitializationError"}
        BY <1>2, <1>10 DEF SemaSamplingRate, Stages
    <2> QED BY <1>3, <2>2, <2>3
<1>11. CASE SemaMinidump
    BY <1>1, <1>2, <1>3, <1>11 DEF SemaMinidump, Stages
<1>12. CASE SemaChildProcessProfiling
    BY <1>1, <1>2, <1>3, <1>12 DEF SemaChildProcessProfiling, Stages
<1>13. CASE SemaUserProviderInfos
    <2>1. T
        BY <1>13, ProvidersType DEF TypeOK, ArgumentNames, T
    <2> QED BY <1>2, <1>3, <1>13, <2>1 DEF SemaUserProviderInfos, Stages
<1>14. CASE SemaStackCache
    BY <1>1, <1>2, <1>3, <1>14 DEF SemaStackCache, Stages
<1>15. CASE NotProfiling
    BY <1>1, <1>2, <1>3, <1>15 DEF NotProfiling, Stages
<1>16. CASE InitCOMFails
    BY <1>1, <1>3, <1>16 DEF InitCOMFails, Stages
<1>17. CASE Run
    BY <1>1, <1>3, <1>17 DEF Run, Stages, TypeOK
<1>18. CASE DoProfile
    BY <1>1, <1>3, <1>18 DEF DoProfile, Stages
<1>19. CASE UNCHANGED vars
    BY <1>1, <1>3, <1>19 DEF vars, TypeOK
<1> QED
    BY <1>4, <1>5, <1>6, <1>7, <1>8, <1>9, <1>10, <1>11, <1>12, <1>13, <1>14, <1>15,
       <1>16, <1>17, <1>18, <1>19 DEF Next, SemaArguments

(* Every number that the program reads fits the member it is stored in.    *)
THEOREM TypeCorrect == Spec => []TypeOK
<1>1. Init => TypeOK
    <2> SUFFICES ASSUME Init PROVE TypeOK
        OBVIOUS
    <2>1. args = Unset /\ raw.value = [slot \in Slots |-> ""]
        BY DEF Init
    <2>2. DWORDs \in Nat \ {0}
        BY ArgumentsAssumption
    <2>3. /\ args.targetMode = "None" /\ args.targetIsPID = FALSE /\ args.targetPID = 0
          /\ args.compressionMode = "Invalid" /\ args.samplingRate = 0
          /\ args.providers = <<>>
        BY <2>1 DEF Unset
    <2>4. DOMAIN args.providers = {} /\ 0 \in 0 .. DWORDs - 1
        BY <2>2, <2>3
    <2>5. /\ line \in Lines /\ tokens \in Seq(DOMAIN Reads) /\ position \in Nat
          /\ DOMAIN raw.value = Slots
        <3>1. line \in Lines /\ tokens = line /\ position = 1
            BY DEF Init
        <3>2. DOMAIN raw.value = Slots
            BY <2>1
        <3>3. tokens \in Seq(DOMAIN Reads) /\ position \in Nat
            BY <3>1, ArgumentsAssumption
        <3> QED BY <3>1, <3>2, <3>3
    <2>6. stage \in Stages /\ exit = "none"
        BY DEF Init, Stages
    <2>7. args.samplingRate \in Int
        BY <2>3
    <2>8. \A i \in DOMAIN args.providers : FALSE
        BY <2>4
    <2>9. args.targetIsPID \in BOOLEAN /\ args.targetPID \in 0 .. DWORDs - 1
        BY ONLY <2>3, <2>4
    <2> QED BY ONLY <2>3, <2>5, <2>6, <2>7, <2>8, <2>9 DEF TypeOK
<1>2. IInv /\ LineInv /\ TypeOK /\ [Next]_vars => TypeOK'
    BY TypeStep DEF IInv
<1> QED BY <1>1, <1>2, Inductive, LineInvariant, PTL DEF Spec
===============================================================================
