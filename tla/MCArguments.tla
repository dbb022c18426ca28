------------------------------ MODULE MCArguments ------------------------------
(* Texts, files and providers for TLC's run of Arguments.                  *)
EXTENDS Arguments

Option(form, name, val) == [form |-> form, name |-> name, val |-> val]
Command(name)   == Option("command", name, "")
Long(name, val) == Option("--assign", name, val)

Texts ==
    ("etwprof" :> Command("etwprof")) @@ ("profile" :> Command("profile"))
    @@ ("hello" :> Command("hello")) @@ ("" :> Command(""))
    @@ ("-" :> Option("-", "", "")) @@ ("--" :> Option("--", "", ""))
    @@ ("@good" :> Option("@", "", "good")) @@ ("@chained" :> Option("@", "", "chained"))
    @@ ("@odd" :> Option("@", "", "odd")) @@ ("@tail" :> Option("@", "", "tail"))
    @@ ("-h" :> Option("-flag", "h", "")) @@ ("-m" :> Option("-flag", "m", ""))
    @@ ("-x" :> Option("-flag", "x", ""))
    @@ ("-o=t\\a.etl" :> Option("-assign", "o", "t\\a.etl"))
    @@ ("-o=t\\a" :> Option("-assign", "o", "t\\a")) @@ ("-o=a.etl" :> Option("-assign", "o", "a.etl"))
    @@ ("-o=t" :> Option("-assign", "o", "t")) @@ ("-o=" :> Option("-assign", "o", ""))
    @@ ("-t=12" :> Option("-assign", "t", "12")) @@ ("-t=n.exe" :> Option("-assign", "t", "n.exe"))
    @@ ("-t=16" :> Option("-assign", "t", "16")) @@ ("-t=17" :> Option("-assign", "t", "17"))
    @@ ("-t=-1" :> Option("-assign", "t", "-1"))
    @@ ("--outdir=%TMP%" :> Long("outdir", "%TMP%")) @@ ("--outdir=no" :> Long("outdir", "no"))
    @@ ("--rate=100" :> Long("rate", "100")) @@ ("--rate=ABC" :> Long("rate", "ABC"))
    @@ ("--emulate=t\\a.etl" :> Long("emulate", "t\\a.etl")) @@ ("--emulate=t" :> Long("emulate", "t"))
    @@ ("--compress=7z" :> Long("compress", "7z")) @@ ("--compress=on" :> Long("compress", "on"))
    @@ ("--mflags=0" :> Long("mflags", "0"))
    @@ ("--enable=two" :> Long("enable", "two")) @@ ("--enable=same" :> Long("enable", "same"))
    @@ ("--enable=zero" :> Long("enable", "zero")) @@ ("--enable=word" :> Long("enable", "word"))
    @@ ("--enable=unknown" :> Long("enable", "unknown")) @@ ("--enable=twice" :> Long("enable", "twice"))
    @@ ("--version" :> Option("--flag", "version", "")) @@ ("--noaction" :> Option("--flag", "noaction", ""))
    @@ ("--nologo" :> Option("--flag", "nologo", "")) @@ ("--scache" :> Option("--flag", "scache", ""))
    @@ ("--children" :> Option("--flag", "children", ""))
    @@ ("--waitchildren" :> Option("--flag", "waitchildren", ""))
    @@ ("cmd.exe" :> Command("cmd.exe"))

TheNumerals == ("12" :> 12) @@ ("16" :> 16) @@ ("17" :> 17) @@ ("100" :> 100) @@ ("-1" :> -1)

File(dir, ext, node) == [dir |-> dir, ext |-> ext, node |-> node, expanded |-> ""]
Expanding(p, f) == [f EXCEPT !.expanded = p]

PathTable ==
    ("t" :> File("c", "", "dir")) @@ ("c" :> File("", "", "dir"))
    @@ ("t\\a.etl" :> File("t", ".etl", "file")) @@ ("t\\a" :> File("t", "", "none"))
    @@ ("a.etl" :> File("", ".etl", "none")) @@ ("no" :> File("", "", "none"))
    @@ ("%TMP%" :> File("", "", "none")) @@ ("cmd.exe" :> File("", ".exe", "file"))
    @@ ("good" :> File("", "", "file")) @@ ("chained" :> File("", "", "file"))
    @@ ("odd" :> File("", "", "file")) @@ ("tail" :> File("", "", "file"))

ThePaths == [p \in DOMAIN PathTable |-> Expanding(IF p = "%TMP%" THEN "t" ELSE p, PathTable[p])]

Response(size, bom, s) == [opens |-> TRUE, size |-> size, bom |-> bom, tokens |-> s]

TheRespFiles ==
    ("good" :> Response(30, "none", <<"profile", "-t=n.exe">>))
    @@ ("chained" :> Response(30, "UTF8", <<"-h", "@good">>))
    @@ ("odd" :> Response(31, "UTF16LE", <<"-h">>))
    @@ ("tail" :> Response(30, "UTF16LE", <<"--", "cmd.exe">>))

Plain(type, id) == [type |-> type, id |-> id, elements |-> 1, inverted |-> FALSE, keyword |-> 0,
                    hasKeyword |-> FALSE, level |-> 0, hasLevel |-> FALSE, parts |-> 1, word |-> ""]
Full(type, id)  == [Plain(type, id) EXCEPT !.elements = 3, !.hasLevel = TRUE, !.level = 4,
                                           !.parts = 3, !.word = "stack"]

TheDescriptors ==
    ("two" :> <<Full("RegisteredName", "RPC"),
                [Full("DynamicName", "Funky") EXCEPT !.hasKeyword = TRUE, !.inverted = TRUE, !.keyword = 3]>>)
    @@ ("same" :> <<Plain("RegisteredName", "RPC"), Full("GUID", "g1")>>)
    @@ ("zero" :> <<[Full("GUID", "g1") EXCEPT !.hasKeyword = TRUE, !.inverted = TRUE, !.keyword = 15]>>)
    @@ ("word" :> <<[Full("GUID", "g2") EXCEPT !.word = "haha"]>>)
    @@ ("unknown" :> <<Plain("RegisteredName", "Nobody")>>)
    @@ ("twice" :> <<Plain("DynamicName", "Funky"), Plain("DynamicName", "FUNKY")>>)

TheRegistered == "RPC" :> "g1"
TheInferred   == ("Funky" :> "g3") @@ ("FUNKY" :> "g3")
TheWindows    == {[known |-> TRUE, major |-> 6, minor |-> 2], [known |-> TRUE, major |-> 10, minor |-> 0],
                  [known |-> FALSE, major |-> 0, minor |-> 0]}

(* The beginnings of the three kinds of profile, and everything that is    *)
(* short; to each beginning up to Extra further texts, and a process.  Two *)
(* beginnings get only one: one that comes from a file, and any that names *)
(* a target, when a process follows, for which it is refused at once.  A   *)
(* text that is refused for what it is comes without a second one.         *)
CONSTANT Extra

Attaching  == {<<"profile", "-t=n.exe">>, <<"profile", "--outdir=%TMP%", "-t=12">>,
               <<"profile", "--emulate=t\\a.etl", "-t=12">>, <<"profile", "-o=t\\a", "-t=12">>}
Open       == {<<"profile", "--outdir=%TMP%">>, <<>>}
Ends       == {<<>>, <<"--", "cmd.exe", "-x">>}
OddEnds    == {<<"--">>, <<"--", "cmd.exe", "@good">>}

Additions      == DOMAIN Texts \ {"etwprof", "profile", "--", "cmd.exe"}
Refused        == {"hello", "", "-", "-x", "-o=", "--outdir=no", "--rate=ABC", "--emulate=t",
                   "--compress=on", "--enable=zero", "--enable=word", "--enable=unknown",
                   "--enable=twice"}
UpTo(n)        == UNION {[1 .. k -> IF k < 2 THEN Additions ELSE Additions \ Refused] : k \in 0 .. n}
Typed(B, n, E) == {<<"etwprof">> \o b \o m \o e : b \in B, m \in UpTo(n), e \in E}

TheLines == Typed(Open, Extra, Ends) \cup Typed(Attaching, Extra, {<<>>})
                \cup Typed(Attaching \cup Open \cup {<<"@good">>}, 1, Ends \cup OddEnds)
                \cup {<<"@odd", "-h">>, <<"@odd", "profile", "-t=12">>, <<"etwprof", "cmd.exe">>,
                      <<"etwprof", "profile", "profile">>}

TheGoodTexts ==
    {"profile", "-t=n.exe", "-t=12", "-o=t\\a.etl", "--outdir=%TMP%", "--", "cmd.exe", "-x",
     "--nologo", "--children", "--waitchildren", "-m", "--mflags=0", "--compress=7z",
     "--rate=100", "--scache", "--emulate=t\\a.etl", "--enable=two"}
===============================================================================
