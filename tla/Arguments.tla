------------------------------- MODULE Arguments -------------------------------
(***************************************************************************)
(* From the command line to the command (Application/Arguments.cpp and the *)
(* Run of Application.cpp): response files are unpacked, the tokens are    *)
(* parsed into ApplicationRawArguments, SemaArguments turns these, one     *)
(* check after the other, into ApplicationArguments, and Run acts on them. *)
(*                                                                         *)
(* A text is a string.  What the program finds in it - the shape of an     *)
(* option, a number, a path, provider descriptors - is given by tables     *)
(* (the C runtime's conversions) over the texts of a model.                *)
(***************************************************************************)
EXTENDS Integers, Sequences, SequencesExt

CONSTANTS
    Lines,          \* command lines: sequences of texts, argv[0] included
    Reads,          \* text -> [form, name, val]; forms: see Forms
    Numerals,       \* text -> the number _wtoi and _wtoi64 read at its start
    Paths,          \* text -> [dir, ext, node, expanded], see PathExists
    RespFiles,      \* text -> [opens, size, bom, tokens], the response files
    Descriptors,    \* text -> what is between the '+' of --enable
    Registered,     \* name of a registered provider -> its GUID
    Inferred,       \* dynamic name -> the GUID that is inferred from it
    DWORDs,         \* how many values a DWORD has
    Keywords,       \* how many keyword bitmasks there are
    Windows,        \* versions of the system: [known, major, minor]
    GoodTexts       \* texts that CommandLineTests.py expects to work

Forms == {"command", "-", "--", "@", "-flag", "-assign", "--flag", "--assign"}

ASSUME ArgumentsAssumption ==
    /\ Lines \subseteq Seq(DOMAIN Reads) \ {<<>>}
    /\ \A t \in DOMAIN Reads :
        /\ Reads[t].form \in Forms
        /\ Reads[t].form = "@" => RespFiles[Reads[t].val].tokens \in Seq(DOMAIN Reads) \ {<<>>}
    /\ \A t \in DOMAIN Numerals : Numerals[t] \in Int
    /\ \A t \in DOMAIN Descriptors :
        \A i \in DOMAIN Descriptors[t] :
            Descriptors[t][i].level \in Nat /\ Descriptors[t][i].keyword \in Nat
    /\ DWORDs \in Nat \ {0} /\ Keywords \in Nat \ {0}
    /\ \A w \in Windows : w.known \in BOOLEAN /\ w.major \in Nat /\ w.minor \in Nat

VARIABLES
    line,           \* what was typed; never changes
    tokens,         \* the same, as far as response files are unpacked
    position,       \* where the loop of UnpackRespFiles goes on
    raw,            \* ApplicationRawArguments: [fields, value]
    args,           \* ApplicationArguments, as far as they are analyzed
    stage,          \* the next step
    exit            \* what wmain returns

vars == <<line, tokens, position, raw, args, stage, exit>>

Form(t) == Reads[t].form
Rest(s) == SubSeq(s, 2, Len(s))
Before(s, f) == LET at == SelectInSeq(s, LAMBDA t : Form(t) = f)
                IN  IF at = 0 THEN s ELSE SubSeq(s, 1, at - 1)
After(s, f)  == LET at == SelectInSeq(s, LAMBDA t : Form(t) = f)
                IN  IF at = 0 THEN <<>> ELSE SubSeq(s, at + 1, Len(s))
Has(s, f)    == \E i \in DOMAIN s : Form(s[i]) = f

-------------------------------------------------------------------------------
(* The file system: node is "file", "dir", "other" for a device or a       *)
(* reparse point, "none", or "invalid" for a name that cannot exist.       *)

PathExists(p)       == p # "" /\ Paths[p].node \in {"file", "dir", "other"}
PathValid(p)        == p # "" /\ Paths[p].node # "invalid"
IsFile(p)           == PathExists(p) /\ Paths[p].node = "file"
IsDirectory(p)      == PathExists(p) /\ Paths[p].node = "dir"
PathGetDirectory(p) == Paths[p].dir
PathGetExtension(p) == Paths[p].ext
PathExpandEnvVars(p) == Paths[p].expanded

(* ResponseFileImpl: at most 1 MB, at least 2 bytes; no BOM means UTF-8.   *)
ResponseFile(p) ==
    /\ PathValid(p) /\ PathExists(p) /\ IsFile(p)
    /\ RespFiles[p].opens
    /\ RespFiles[p].size \in 2 .. 1024 * 1024

GuessEncoding(p) == IF RespFiles[p].bom = "none" THEN "UTF8" ELSE RespFiles[p].bom

Unpack(p) ==
    /\ GuessEncoding(p) = "UTF16LE" => RespFiles[p].size % 2 = 0
    /\ GuessEncoding(p) # "UTF16BE"

(* None of the texts may be a directive.                                   *)
Unpackable(p) == ResponseFile(p) /\ Unpack(p) /\ ~Has(RespFiles[p].tokens, "@")

-------------------------------------------------------------------------------
(* The tables of ParseShortArg and ParseLongArg: which member of           *)
(* ApplicationRawArguments an option sets.                                 *)
Table(form) ==
    CASE form = "-assign" -> [o |-> "outputFile", t |-> "target"]
      [] form = "-flag"   -> [h |-> "help", v |-> "verbose", d |-> "debug", m |-> "minidump"]
      [] form = "--assign" ->
            [output |-> "outputFile", outdir |-> "outputDir", target |-> "target",
             rate |-> "samplingRate", emulate |-> "emulate", compress |-> "compressionMode",
             mflags |-> "minidumpFlags", enable |-> "userProviders"]
      [] form = "--flag" ->
            [help |-> "help", version |-> "version", verbose |-> "verbose",
             nologo |-> "noLogo", debug |-> "debug", cswitch |-> "cswitch",
             mdump |-> "minidump", scache |-> "stackCache", noaction |-> "noAction",
             children |-> "profileChildren", waitchildren |-> "waitForChildren"]
      [] OTHER -> <<>>

Understood(t) ==
    /\ Reads[t].name \in DOMAIN Table(Form(t))
    /\ Form(t) \in {"-assign", "--assign"} => Reads[t].val # ""

Field(t) == Table(Form(t))[Reads[t].name]
Slot(f)  == IF f \in {"outputFile", "outputDir"} THEN "output" ELSE f

(* The command, then options up to "--"; of several values of a slot the   *)
(* last one counts.                                                        *)
HasCommand(s) == s # <<>> /\ Form(s[1]) = "command"
Options(s)    == Before(IF HasCommand(s) THEN Rest(s) ELSE s, "--")
Fields(s)     == {Field(t) : t \in Range(Options(s))}

Value(s, slot) ==
    LET at == SelectLastInSeq(Options(s), LAMBDA t : Slot(Field(t)) = slot)
    IN  IF at = 0 THEN "" ELSE Reads[Options(s)[at]].val

(* The regular expression over the command line as it was typed: there has *)
(* to be a "--" in it, and a blank after it.  blank says whether there is  *)
(* one although nothing else follows, which the texts do not show.         *)
StartCommandLine == After(line, "--")

CanParse(s, blank) ==
    /\ s # <<>>
    /\ ~(Len(s) = 1 /\ Form(s[1]) = "--flag" /\ Reads[s[1]].name = "noaction")
    /\ HasCommand(s) => Reads[s[1]].name = "profile"
    /\ \A t \in Range(Options(s)) : Understood(t)
    /\ Has(s, "--") => StartCommandLine # <<>> \/ (blank /\ Has(line, "--"))

Slots == {"output", "target", "samplingRate", "emulate", "compressionMode",
          "minidumpFlags", "userProviders"}

Parsed(s) ==
    [fields |-> Fields(s) \cup (IF HasCommand(s) THEN {"profile"} ELSE {})
                          \cup (IF Has(s, "--") THEN {"startCommandLine"} ELSE {}),
     value  |-> [slot \in Slots |-> Value(s, slot)]]

-------------------------------------------------------------------------------
(* State machine *)

Unset == [targetMode |-> "None", targetIsPID |-> FALSE, targetPID |-> 0,
          compressionMode |-> "Invalid", output |-> "", added |-> "",
          samplingRate |-> 0, providers |-> <<>>]

Given(f) == f \in raw.fields

Init ==
    /\ line \in Lines
    /\ tokens = line /\ position = 1
    /\ raw = [fields |-> {}, value |-> [slot \in Slots |-> ""]]
    /\ args = Unset
    /\ stage = "UnpackRespFiles"
    /\ exit = "none"

(* Every step either passes on or ends with a message and the usage text.  *)
Passes(here, ok, next) ==
    /\ stage = here
    /\ stage' = IF ok THEN next ELSE "usage"
    /\ exit' = IF ok THEN exit ELSE "InitializationError"
    /\ UNCHANGED <<line, position>>

(* A directive is replaced in place, argv[0] and what follows "--" not     *)
(* excepted; the loop goes on within what it has been replaced by.         *)
Spliced(s, i, r) == SubSeq(s, 1, i - 1) \o r \o SubSeq(s, i + 1, Len(s))

(* Mutation: what was inserted is skipped, and the loop's own step made.   *)
GoesOnAfter(i, r) == i + Len(r) + 1
GoesOnAt(i, r)    == i + 1

UnpackRespFiles ==
    LET i == SelectInSubSeq(tokens, position, Len(tokens), LAMBDA t : Form(t) = "@")
        p == Reads[tokens[i]].val IN
    /\ stage = "UnpackRespFiles"
    /\ \/ /\ i # 0 /\ Unpackable(p)
          /\ tokens' = Spliced(tokens, i, RespFiles[p].tokens)
          /\ position' = GoesOnAt(i, RespFiles[p].tokens)
          /\ UNCHANGED <<stage, exit>>
       \/ /\ i # 0 /\ ~Unpackable(p)
          /\ stage' = "usage" /\ exit' = "InitializationError"
          /\ UNCHANGED <<tokens, position>>
       \/ /\ i = 0
          /\ stage' = "ParseArguments"
          /\ UNCHANGED <<tokens, position, exit>>
    /\ UNCHANGED <<line, raw, args>>

(* argv[0] is skipped.                                                     *)
ParseArguments ==
    LET s == Rest(tokens) IN
    /\ \E blank \in BOOLEAN : LET ok == CanParse(s, blank) IN
        /\ Passes("ParseArguments", ok,
                  IF ~HasCommand(s) THEN "NotProfiling"
                  ELSE IF "emulate" \in Fields(s) THEN "SemaInputETLPath" ELSE "SemaTarget")
        /\ raw' = IF ok THEN Parsed(s) ELSE raw
    /\ UNCHANGED <<tokens, args>>

SemaInputETLPath ==
    LET p == raw.value["emulate"] IN
    /\ Passes("SemaInputETLPath", IsFile(p) /\ PathGetExtension(p) = ".etl", "SemaTarget")
    /\ UNCHANGED <<tokens, raw, args>>

Number(v) == IF v \in DOMAIN Numerals THEN Numerals[v] ELSE 0

(* The cast to DWORD; what is negative wraps around.                       *)
PID(v) == Number(v) % DWORDs

TargetOK ==
    /\ Given("startCommandLine") # Given("target")
    /\ Given("startCommandLine") =>
        /\ ~Given("emulate")
        /\ StartCommandLine # <<>>
        /\ LET p == StartCommandLine[1] IN PathExists(p) /\ ~IsDirectory(p)
    /\ Given("target") /\ Given("emulate") => PID(raw.value["target"]) # 0

SemaTarget ==
    /\ Passes("SemaTarget", TargetOK, "SemaCompressionMode")
    /\ args' = [args EXCEPT !.targetMode  = IF Given("target") THEN "Attach" ELSE "Start",
                            !.targetIsPID = Given("target") /\ PID(raw.value["target"]) # 0,
                            !.targetPID   = IF Given("target") THEN PID(raw.value["target"]) ELSE 0]
    /\ UNCHANGED <<tokens, raw>>

CompressionModes ==
    [v \in {"off", "etw", "7z"} |->
        CASE v = "off" -> "Off" [] v = "etw" -> "ETW" [] v = "7z" -> "SevenZip"]

SemaCompressionMode ==
    LET v == raw.value["compressionMode"] IN
    /\ Passes("SemaCompressionMode", v = "" \/ v \in DOMAIN CompressionModes, "SemaOutputPath")
    /\ args' = [args EXCEPT !.compressionMode =
                    IF v = "" THEN "ETW"
                    ELSE IF v \in DOMAIN CompressionModes THEN CompressionModes[v] ELSE @]
    /\ UNCHANGED <<tokens, raw>>

TraceExtension == IF args.compressionMode = "SevenZip" THEN ".7z" ELSE ".etl"

(* Mutations: the two options may come together, although they write the   *)
(* same value; the extension is not compared.                              *)
OutputOKBoth(p) ==
    /\ Given("outputFile") \/ Given("outputDir")
    /\ PathValid(p)
    /\ PathExists(IF Given("outputFile") THEN PathGetDirectory(p) ELSE p)
    /\ Given("outputFile") =>
        /\ PathExists(p) => IsFile(p)
        /\ PathGetExtension(p) \in {"", TraceExtension}

OutputOKAnyExtension(p) ==
    /\ Given("outputFile") # Given("outputDir")
    /\ PathValid(p)
    /\ PathExists(IF Given("outputFile") THEN PathGetDirectory(p) ELSE p)
    /\ Given("outputFile") => (PathExists(p) => IsFile(p))

OutputOK(p) ==
    /\ Given("outputFile") # Given("outputDir")
    /\ PathValid(p)
    /\ PathExists(IF Given("outputFile") THEN PathGetDirectory(p) ELSE p)
    /\ Given("outputFile") =>
        /\ PathExists(p) => IsFile(p)
        /\ PathGetExtension(p) \in {"", TraceExtension}

(* added: the extension that the path gets after these checks.             *)
SemaOutputPath ==
    LET p == PathExpandEnvVars(raw.value["output"])
        bare == Given("outputFile") /\ PathGetExtension(p) = "" IN
    /\ Passes("SemaOutputPath", OutputOK(p), "SemaSamplingRate")
    /\ args' = IF OutputOK(p)
                 THEN [args EXCEPT !.output = p, !.added = IF bare THEN TraceExtension ELSE ""]
                 ELSE args
    /\ UNCHANGED <<tokens, raw>>

SamplingRates == 100 .. 20000

SemaSamplingRate ==
    LET rate == IF Given("samplingRate") THEN Number(raw.value["samplingRate"]) ELSE 0 IN
    /\ Passes("SemaSamplingRate",
              Given("samplingRate") => ~Given("emulate") /\ rate \in SamplingRates,
              "SemaMinidump")
    /\ args' = [args EXCEPT !.samplingRate = rate]
    /\ UNCHANGED <<tokens, raw>>

(* Mutations: the target mode is not looked at; flags are mandatory.       *)
MinidumpOKStart ==
    /\ Given("emulate") => ~Given("minidump") /\ ~Given("minidumpFlags")
    /\ Given("minidumpFlags") => Given("minidump")

MinidumpOKFlags ==
    /\ Given("emulate") => ~Given("minidump") /\ ~Given("minidumpFlags")
    /\ Given("minidump") => args.targetMode # "Start"
    /\ Given("minidumpFlags") <=> Given("minidump")

MinidumpOK ==
    /\ Given("emulate") => ~Given("minidump") /\ ~Given("minidumpFlags")
    /\ Given("minidump") => args.targetMode # "Start"
    /\ Given("minidumpFlags") => Given("minidump")

SemaMinidump ==
    /\ Passes("SemaMinidump", MinidumpOK, "SemaChildProcessProfiling")
    /\ UNCHANGED <<tokens, raw, args>>

(* With --emulate, --waitchildren is allowed on purpose.                   *)
SemaChildProcessProfiling ==
    /\ Passes("SemaChildProcessProfiling",
              Given("waitForChildren") => Given("profileChildren"), "SemaUserProviderInfos")
    /\ UNCHANGED <<tokens, raw, args>>

(* A descriptor: [type, id, elements, inverted, keyword, level, parts,     *)
(* word], with hasKeyword and hasLevel for those that may be left out.        *)
KeywordBitmask(d) ==
    IF d.inverted THEN Keywords - 1 - (d.keyword % Keywords) ELSE d.keyword % Keywords

(* The system's list of providers, and the hash of an uppercase name.      *)
IsGUID(d)                         == d.type = "GUID"
IsProviderRegistered(name)        == name \in DOMAIN Registered
GetGUIDOfRegisteredProvider(name) == Registered[name]
InferGUIDFromProviderName(name)   == Inferred[name]

GUIDOf(d) ==
    CASE IsGUID(d)                 -> d.id
      [] d.type = "DynamicName"    -> InferGUIDFromProviderName(d.id)
      [] d.type = "RegisteredName" -> GetGUIDOfRegisteredProvider(d.id)

SemaProviderInfoPart(d) ==
    /\ d.id # ""
    /\ d.type = "RegisteredName" => IsProviderRegistered(d.id)
    /\ d.elements <= 3
    /\ d.elements >= 2 /\ d.hasKeyword => KeywordBitmask(d) # 0
    /\ d.elements = 3 =>
        /\ d.parts \in {1, 3}
        /\ d.hasLevel => d.level # 0
        /\ d.parts = 3 => d.word = "stack"

(* The maximal level is stored in a byte.                                  *)
ProviderInfo(d) ==
    [guid |-> GUIDOf(d),
     keywordBitmask |-> IF d.elements >= 2 /\ d.hasKeyword THEN KeywordBitmask(d) ELSE 0,
     maxLevel |-> IF d.elements = 3 /\ d.hasLevel THEN d.level % 256 ELSE 0,
     stack |-> d.elements = 3 /\ d.parts = 3]

CheckForDuplicateProviders(ds) == \A i, j \in DOMAIN ds : i # j => GUIDOf(ds[i]) # GUIDOf(ds[j])

ProvidersOK(ds) ==
    (\A i \in DOMAIN ds : SemaProviderInfoPart(ds[i])) /\ CheckForDuplicateProviders(ds)

SemaUserProviderInfos ==
    LET v  == raw.value["userProviders"]
        ds == IF Given("userProviders") /\ v \in DOMAIN Descriptors THEN Descriptors[v] ELSE <<>>
        ok == ProvidersOK(ds) IN
    /\ Passes("SemaUserProviderInfos", ok, "SemaStackCache")
    /\ args' = IF ok THEN [args EXCEPT !.providers = [i \in DOMAIN ds |-> ProviderInfo(ds[i])]]
               ELSE args
    /\ UNCHANGED <<tokens, raw>>

SemaStackCache ==
    /\ Passes("SemaStackCache", Given("stackCache") => ~Given("emulate"), "Run")
    /\ UNCHANGED <<tokens, raw, args>>

(* Options that are an error without the command; --compress is not, and   *)
(* neither is a "--" that only blanks follow.                              *)
OnlyForProfiling ==
    {"target", "outputFile", "outputDir", "samplingRate", "profileChildren",
     "waitForChildren", "emulate", "cswitch", "minidump", "minidumpFlags",
     "userProviders", "stackCache"}

NotProfiling ==
    /\ Passes("NotProfiling",
              /\ raw.fields \cap OnlyForProfiling = {}
              /\ Given("startCommandLine") => StartCommandLine = <<>>, "Run")
    /\ UNCHANGED <<tokens, raw, args>>

(* The rest of Init: COM may not be available.                             *)
InitCOMFails ==
    /\ stage = "Run"
    /\ stage' = "over" /\ exit' = "InitializationError"
    /\ UNCHANGED <<line, tokens, position, raw, args>>

GetWinVersion(w) ==
    CASE w.known /\ w.major < 6           -> "Ancient"
      [] w.known /\ w.major = 6           -> IF w.minor \in 0 .. 4
                                              THEN <<"WinVista", "Win7", "Win8", "Win81", "Win10">>[w.minor + 1]
                                              ELSE "Win81"
      [] w.known /\ w.major = 10          -> "Win10"
      [] w.known /\ w.major > 10          -> "FutureVersion"
      [] ~w.known \/ w.major \in 7 .. 9   -> "Unknown"

(* Versions are compared as numbers, of which Unknown is the greatest.     *)
CheckWinVersion(w) == GetWinVersion(w) \in {"Win10", "FutureVersion", "Unknown"}

Run ==
    LET talks == \E f \in {"noAction", "version", "help"} : Given(f) IN
    /\ stage = "Run"
    /\ \E w \in Windows :
        /\ stage' = IF ~talks /\ CheckWinVersion(w) /\ Given("profile") THEN "DoProfile" ELSE "over"
        /\ exit' = IF stage' = "DoProfile" THEN exit
                   ELSE IF ~talks /\ ~CheckWinVersion(w) THEN "InitializationError" ELSE "0"
    /\ UNCHANGED <<line, tokens, position, raw, args>>

DoProfile ==
    /\ stage = "DoProfile"
    /\ stage' = "over"
    /\ exit' \in {"0", "ProfilingInitializationError"}
    /\ UNCHANGED <<line, tokens, position, raw, args>>

SemaArguments ==
    \/ SemaInputETLPath \/ SemaTarget \/ SemaCompressionMode \/ SemaOutputPath
    \/ SemaSamplingRate \/ SemaMinidump \/ SemaChildProcessProfiling
    \/ SemaUserProviderInfos \/ SemaStackCache \/ NotProfiling

Next ==
    \/ UnpackRespFiles \/ ParseArguments \/ SemaArguments
    \/ InitCOMFails \/ Run \/ DoProfile
    \/ stage \in {"over", "usage"} /\ UNCHANGED vars

Spec == Init /\ [][Next]_vars

-------------------------------------------------------------------------------
(* Properties *)

Stages ==
    {"UnpackRespFiles", "ParseArguments", "SemaInputETLPath", "SemaTarget", "SemaCompressionMode",
     "SemaOutputPath", "SemaSamplingRate", "SemaMinidump", "SemaChildProcessProfiling",
     "SemaUserProviderInfos", "SemaStackCache", "NotProfiling", "Run", "DoProfile", "usage", "over"}

(* Types; what the program converts fits the members that it is kept in.   *)
TypeOK ==
    /\ line \in Lines /\ tokens \in Seq(DOMAIN Reads) /\ position \in Nat
    /\ DOMAIN raw.value = Slots
    /\ args.targetMode \in {"None", "Attach", "Start"} /\ args.targetIsPID \in BOOLEAN
    /\ args.targetPID \in 0 .. DWORDs - 1
    /\ args.compressionMode \in {"Invalid", "Off", "ETW", "SevenZip"}
    /\ args.samplingRate \in Int
    /\ \A i \in DOMAIN args.providers :
        /\ args.providers[i].keywordBitmask \in 0 .. Keywords - 1
        /\ args.providers[i].maxLevel \in 0 .. 255
        /\ args.providers[i].stack \in BOOLEAN
    /\ stage \in Stages
    /\ exit \in {"none", "0", "InitializationError", "ProfilingInitializationError"}

(* A line with each directive replaced by the texts of its file.           *)
UnpackedFrom(l) ==
    FlattenSeq([i \in DOMAIN l |->
        IF Form(l[i]) = "@" THEN RespFiles[Reads[l[i]].val].tokens ELSE <<l[i]>>])

CanUnpack(l) == \A i \in DOMAIN l : Form(l[i]) = "@" => Unpackable(Reads[l[i]].val)

(* The loop, which changes the vector that it walks along, ends with       *)
(* exactly that, and fails only if a file cannot be unpacked.              *)
FilesAreUnpacked ==
    [][stage = "UnpackRespFiles" /\ stage' # stage =>
        IF CanUnpack(line) THEN stage' = "ParseArguments" /\ tokens' = UnpackedFrom(line)
        ELSE stage' = "usage"]_vars

(* The three profile lines of PrintUsage, as conditions on the options.    *)
EveryLine == {"profile", "outputFile", "outputDir", "compressionMode", "userProviders",
              "cswitch", "noLogo", "verbose", "debug", "profileChildren"}
LiveLines == EveryLine \cup {"samplingRate", "stackCache", "waitForChildren"}

UsageLine(f) ==
    /\ "profile" \in f
    /\ ("outputFile" \in f) # ("outputDir" \in f)
    /\ "minidumpFlags" \in f => "minidump" \in f
    /\ "waitForChildren" \in f => "profileChildren" \in f
    /\ \/ "target" \in f /\ f \subseteq LiveLines \cup {"target", "minidump", "minidumpFlags"}
       \/ "startCommandLine" \in f /\ f \subseteq LiveLines \cup {"startCommandLine"}
       \/ {"target", "emulate"} \subseteq f /\ f \subseteq EveryLine \cup {"target", "emulate"}

(* A combination of options that reaches DoProfile is one that the usage   *)
(* text shows, but for --noaction, --help and --version, and for           *)
(* --waitchildren with --emulate (allowed at Arguments.cpp:596).           *)
ProfilesFollowUsage ==
    stage = "Run" /\ Given("profile") =>
        UsageLine(raw.fields \ ({"noAction", "help", "version"} \cup
                                IF Given("emulate") THEN {"waitForChildren"} ELSE {}))

(* A value that is in itself what the usage text asks for.                 *)
Works(t) ==
    LET v == Reads[t].val
        p == PathExpandEnvVars(v) IN
    /\ Field(t) = "emulate"         => IsFile(v) /\ PathGetExtension(v) = ".etl"
    /\ Field(t) = "compressionMode" => v \in DOMAIN CompressionModes
    /\ Field(t) = "samplingRate"    => Number(v) \in SamplingRates
    /\ Field(t) = "userProviders"   => (v \in DOMAIN Descriptors => ProvidersOK(Descriptors[v]))
    /\ Field(t) = "outputDir"       => PathValid(p) /\ PathExists(p)
    /\ Field(t) = "outputFile"      =>
        /\ PathValid(p) /\ PathExists(PathGetDirectory(p)) /\ (PathExists(p) => IsFile(p))
        /\ PathGetExtension(p) \in {"", ".etl"}

ASSUME GoodTextsAssumption ==
    \A t \in GoodTexts : Form(t) # "@" /\ (Understood(t) => Works(t))

(* A command line as the usage text shows it, with values that the         *)
(* repository's tests expect to work.  -o with --compress is left out: the *)
(* extension has to fit.                                                   *)
Usual ==
    LET s == Rest(line)
        f == Parsed(s).fields IN
    /\ Form(line[1]) = "command" /\ Range(s) \subseteq GoodTexts
    /\ HasCommand(s) /\ Reads[s[1]].name = "profile"
    /\ (\A t \in Range(Options(s)) : Understood(t)) /\ UsageLine(f)
    /\ ~({"outputFile", "compressionMode"} \subseteq f)
    /\ "startCommandLine" \in f => StartCommandLine # <<>> /\ IsFile(StartCommandLine[1])
    /\ "emulate" \in f => PID(Value(s, "target")) # 0

(* Such a line is not answered with the usage text.                        *)
UsageIsAccepted == stage = "usage" => ~Usual

(* What DoProfile and the constructors of the profilers assert or take for *)
(* granted about the arguments, whose numbers fit their members.           *)
ProfileIsPossible ==
    stage = "DoProfile" =>
        /\ Given("emulate") => args.targetIsPID /\ ~Given("stackCache") /\ args.targetMode = "Attach"
        /\ args.targetIsPID => args.targetPID \in 1 .. DWORDs - 1
        /\ Given("minidump") => args.targetMode = "Attach" /\ ~Given("emulate")
        /\ args.targetMode = "Start" => StartCommandLine # <<>>
        /\ Given("outputFile") => TraceExtension \in {PathGetExtension(args.output), args.added}
        /\ args.samplingRate \in {0} \cup SamplingRates
        /\ \A i, j \in DOMAIN args.providers :
            i # j => args.providers[i].guid # args.providers[j].guid

(* The value that the user gave an option: a repetition replaces what the  *)
(* same option said before, and nothing else does.                         *)
LastValue(s, f) ==
    Reads[Options(s)[SelectLastInSeq(Options(s), LAMBDA t : Field(t) = f)]].val

(* What the profile that is about to be made has of an option.             *)
TakesEffect(f, v) ==
    /\ Given(f) /\ f \notin {"help", "version", "noAction"}
    /\ f = "target" =>
        /\ args.targetMode = "Attach"
        /\ IF PID(v) # 0 THEN args.targetIsPID /\ args.targetPID = PID(v)
           ELSE ~args.targetIsPID /\ raw.value["target"] = v
    /\ f \in {"outputFile", "outputDir"} => args.output = PathExpandEnvVars(v)
    /\ f = "compressionMode" => args.compressionMode = CompressionModes[v]
    /\ f = "userProviders" /\ v \in DOMAIN Descriptors =>
        \A i \in DOMAIN Descriptors[v] :
            ProviderInfo(Descriptors[v][i]) \in Range(args.providers)
    /\ f = "emulate" => raw.value["emulate"] = v
    /\ f \in {"samplingRate", "minidump", "stackCache"} => ~Given("emulate")
    /\ f = "samplingRate" => args.samplingRate = Number(v)
    /\ f = "minidump" => args.targetMode = "Attach"
    /\ f = "minidumpFlags" => Given("minidump") /\ raw.value["minidumpFlags"] = v
    /\ f = "waitForChildren" => Given("profileChildren")

(* Every option that is typed, in the line or in a response file, has its  *)
(* effect on the profile, or there is no profile; without the command it   *)
(* is one that needs none.  What is dropped without a word: the value of   *)
(* an option that is repeated (the last one counts), --waitchildren with   *)
(* --emulate (Arguments.cpp:596), --compress without the command, a "--"   *)
(* that only blanks follow, and what is behind a "--" that comes out of a  *)
(* response file.                                                          *)
OptionsTakeEffect ==
    stage \in {"Run", "DoProfile"} =>
        LET s == Rest(UnpackedFrom(Before(line, "--"))) IN
        ~Has(s, "--") =>
            /\ stage = "DoProfile" => \A f \in Fields(s) : TakesEffect(f, LastValue(s, f))
            /\ ~Given("profile") =>
                Fields(s) \subseteq {"help", "version", "noAction", "noLogo", "verbose",
                                    "debug", "compressionMode"}
===============================================================================
