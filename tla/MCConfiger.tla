----------------------------- MODULE MCConfiger -----------------------------
(* Instances of Configer for TLC: hosts as distributions lay them out, and   *)
(* the configurations of src/config with what a user may add to them.        *)
EXTENDS Configer

MCLetters == <<"-config", ".11", "/", "64", "alternatives", "app", "awk", "bin", "crt", "dash", "data", "etc", "home",
               "ld", "lib", "mawk", "new", "opt", "python3", "server", "sh", "srv", "tool", "usr">>

Usr == <<"/", "usr">>
Bin == <<"/", "bin">>
Lib == <<"/", "lib">>
Lib64 == <<"/", "lib", "64">>
Home == <<"/", "home">>
Etc == <<"/", "etc">>
Alternatives == Etc \o <<"/", "alternatives">>
ServerIn(dir) == dir \o <<"/", "server">>
ShIn(dir) == dir \o <<"/", "sh">>
DashIn(dir) == dir \o <<"/", "dash">>
AwkIn(dir) == dir \o <<"/", "awk">>
PythonIn(dir) == dir \o <<"/", "python3">>
Ld(dir) == dir \o <<"/", "ld">>
Crt(dir) == dir \o <<"/", "crt">>

Link(l, p) == [q \in {l} |-> p]
Join(fs) == [l \in UNION {DOMAIN f : f \in fs} |-> (CHOOSE f \in fs : l \in DOMAIN f)[l]]

(* /bin, /lib and /lib64 lead into /usr, as in src/config/full_config_1.cfg. *)
UsrBin == Usr \o Bin
UsrLib == Usr \o Lib
UsrLib64 == Usr \o Lib64
MergedPrograms == {PythonIn(UsrBin) \o <<"-config">>, DashIn(UsrBin), PythonIn(UsrBin) \o <<".11">>, UsrBin \o <<"/", "mawk">>, ServerIn(Home)}
Merged ==
    [dirs |-> {Usr, UsrBin, UsrLib, UsrLib64, Home, Etc, Alternatives},
     files |-> MergedPrograms \cup {Ld(UsrLib), Crt(UsrLib)},
     links |-> Join({Link(Bin, UsrBin), Link(Lib, UsrLib), Link(Lib64, UsrLib64),
                     Link(Ld(UsrLib64), Ld(UsrLib)), Link(ShIn(UsrBin), DashIn(UsrBin)),
                     Link(PythonIn(UsrBin), PythonIn(UsrBin) \o <<".11">>),
                     Link(AwkIn(UsrBin), UsrBin \o <<"/", "mawk">>),
                     Link(AwkIn(Alternatives), UsrBin \o <<"/", "mawk">>)}),
     ldd |-> [p \in MergedPrograms |-> <<Crt(Lib), Ld(Lib64)>>]]

(* No directory is a link; the loader and the shell are. *)
SplitPrograms == {PythonIn(UsrBin) \o <<"-config">>, DashIn(Bin), PythonIn(UsrBin) \o <<".11">>, ServerIn(Home)}
Split ==
    [dirs |-> {Usr, UsrBin, Bin, Lib, Lib64, Home},
     files |-> SplitPrograms \cup {Ld(Lib), Crt(Lib)},
     links |-> Join({Link(Ld(Lib64), Ld(Lib)), Link(ShIn(Bin), DashIn(Bin)),
                     Link(PythonIn(UsrBin), PythonIn(UsrBin) \o <<".11">>)}),
     ldd |-> [p \in SplitPrograms |-> <<Crt(Lib), Ld(Lib64)>>]]

(* A link under a link: /srv/app is in /data/srv, and leads on to /opt/app.  *)
Srv == <<"/", "srv">>
Data == <<"/", "data">>
App == <<"/", "app">>
Opt == <<"/", "opt">>
Nested ==
    [dirs |-> {Data, Data \o Srv, Opt, Opt \o App, Lib, Lib64, Usr, UsrBin, Home},
     files |-> {ServerIn(Opt \o App), ShIn(Data \o Srv), DashIn(UsrBin), Crt(Lib), Ld(Lib)},
     links |-> Join({Link(Srv, Data \o Srv), Link(Data \o Srv \o App, Opt \o App),
                     Link(ServerIn(Home), ServerIn(Opt \o App)), Link(Ld(Lib64), Ld(Lib)),
                     Link(ShIn(UsrBin), DashIn(UsrBin)), Link(Bin, UsrBin)}),
     ldd |-> [p \in {ServerIn(Opt \o App), DashIn(UsrBin)} |-> <<Crt(Lib), Ld(Lib64)>>]]

MCHosts == {Merged, Split, Nested}

MCConfigs ==
    [complete : BOOLEAN,
     directories : {<<>>, <<Lib \o <<"/">>, <<"/", "opt">>>>},
     executables : {<<>>, <<ShIn(Bin)>>, <<ShIn(Bin), ShIn(UsrBin)>>, <<AwkIn(UsrBin), ShIn(Bin)>>,
                    <<PythonIn(UsrBin), PythonIn(UsrBin) \o <<"-config">>>>, <<ServerIn(Srv \o App)>>,
                    <<ShIn(Srv), ServerIn(Srv \o App)>>},
     root_process : {ServerIn(Home), ServerIn(Srv \o App), ServerIn(Data \o Srv \o App)},
     file_copies : {<<>>, <<[src |-> ServerIn(Home), dst |-> ServerIn(UsrBin)]>>,
                    <<[src |-> ServerIn(Home), dst |-> ServerIn(Bin \o <<"/", "new">>)]>>,
                    <<[src |-> AwkIn(Alternatives), dst |-> UsrBin \o <<"/", "tool">>]>>,
                    <<[src |-> ServerIn(Srv \o App), dst |-> ShIn(UsrBin)]>>},
     symlinks : {<<>>, <<[sym |-> Bin, dst |-> UsrBin],
                         [sym |-> AwkIn(Bin), dst |-> UsrBin \o <<"/", "mawk">>]>>}]

(* Two programs, one of them a link whose name begins the other's.           *)
PrefixConfigs ==
    [complete : {TRUE}, directories : {<<>>}, root_process : {ServerIn(Home)}, file_copies : {<<>>},
     executables : {<<PythonIn(UsrBin), PythonIn(UsrBin) \o <<"-config">>>>},
     symlinks : {<<>>}]
=============================================================================
