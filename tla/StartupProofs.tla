---------------------------- MODULE StartupProofs ----------------------------
(* Proofs about Startup, for every set of configuration files.             *)
EXTENDS Startup, TLAPS

-----------------------------------------------------------------------------
(* Lines and options.                                                      *)

LEMMA InitialIsValue == ASSUME NEW o \in Option PROVE Initial(o) \in Value
  BY StartupAssumption DEF StartupAssumption, Initial

LEMMA LineFacts ==
  ASSUME file \in Files, NEW i \in 1..Len(file)
  PROVE  file[i] \in Line /\ file[i].arg \in Value
<1>1. file \in Seq(Line)
  BY StartupAssumption DEF StartupAssumption
<1>2. file[i] \in Line
  BY <1>1
<1> QED
  BY <1>2 DEF Line

LEMMA LenFile == ASSUME file \in Files PROVE Len(file) \in Nat
<1>1. file \in Seq(Line)
  BY StartupAssumption DEF StartupAssumption
<1> QED
  BY <1>1

-----------------------------------------------------------------------------
(* Types.                                                                  *)

LEMMA TypeInit == Init => TypeOK
<1> SUFFICES ASSUME Init PROVE TypeOK
  OBVIOUS
<1>1. nline \in 0..Len(file)
  BY LenFile DEF Init
<1>2. conf \in [Option -> Value]
  BY InitialIsValue DEF Init
<1> QED
  BY <1>1, <1>2 DEF Init, TypeOK, MainPcs, ThreadPcs

LEMMA TypeStep == TypeOK /\ [Next]_vars => TypeOK'
<1> SUFFICES ASSUME TypeOK, [Next]_vars PROVE TypeOK'
  OBVIOUS
<1>p. file \in Files /\ Len(file) \in Nat
  BY LenFile DEF TypeOK
<1>1. CASE ParseOption
  <2> DEFINE l == file[nline + 1]
  <2>1. nline + 1 \in 1..Len(file)
    BY <1>1, <1>p DEF ParseOption, TypeOK
  <2>2. l.arg \in Value
    BY <2>1, <1>p, LineFacts
  <2>3. conf' = [o \in Option |-> IF Assigns(l, o) THEN l.arg ELSE conf[o]]
    BY <1>1 DEF ParseOption
  <2> HIDE DEF l
  <2>4. conf' \in [Option -> Value]
    BY <2>2, <2>3 DEF TypeOK
  <2>5. nline' \in 0..Len(file')
    BY <2>1, <1>1, <1>p DEF ParseOption, TypeOK
  <2> QED
    BY <1>1, <2>4, <2>5 DEF ParseOption, TypeOK, buildVars
<1>2. CASE OpenFails \/ ParseRejects \/ ParseCrashes \/ ParseEnds
  BY <1>2 DEF OpenFails, ParseRejects, ParseCrashes, ParseEnds, TypeOK, MainPcs, parseVars, buildVars
<1>3. CASE Check
  BY <1>3 DEF Check, CheckTcp, CheckSip, CheckUnknown, TypeOK, MainPcs, parseVars, buildVars
<1>4. CASE BuildPipes \/ BuildTun \/ BuildServer \/ BuildClient
  BY <1>4 DEF BuildPipes, BuildTun, AfterTun, BuildServer, BuildClient, TypeOK, MainPcs, parseVars
<1>5. CASE SipUp \/ SipSetIP \/ SipSetNetmask
  BY <1>5 DEF SipUp, SipSetIP, SipSetNetmask, SetIP, SetNetmask, TypeOK, MainPcs, parseVars, buildVars
<1>6. CASE PluginStart
  BY <1>6 DEF PluginStart, FirstCall, TypeOK, MainPcs, ThreadPcs, parseVars, buildVars
<1>7. CASE TcpSetIP \/ TcpSetNetmask \/ TcpUp
  <2>1. iface' \in SUBSET {"ip", "mask", "up"} /\ thread' \in ThreadPcs
    BY <1>7 DEF TcpSetIP, TcpSetNetmask, TcpUp, SetIP, SetNetmask, TypeOK, ThreadPcs
  <2> QED
    BY <1>7, <2>1 DEF TcpSetIP, TcpSetNetmask, TcpUp, TypeOK, parseVars, buildVars
<1>s. CASE SipInit
  BY <1>s DEF SipInit, TypeOK, MainPcs, ThreadPcs, parseVars, buildVars
<1>8. CASE TcpAccept
  BY <1>8 DEF TcpAccept, TypeOK, ThreadPcs, parseVars
<1>9. CASE UNCHANGED vars
  BY <1>9 DEF vars, parseVars, buildVars, TypeOK
<1> QED
  BY <1>1, <1>2, <1>3, <1>4, <1>5, <1>6, <1>7, <1>s, <1>8, <1>9 DEF Next, Main, Parse, Build, SetUp

(* Every variable of start-up keeps its type, and the parser never goes    *)
(* past the end of its file, whatever the files are.                       *)
THEOREM TypeCorrect == Spec => []TypeOK
  BY TypeInit, TypeStep, PTL DEF Spec

-----------------------------------------------------------------------------
(* The parser against its declarative meaning.                             *)

\* What ConfAsDeclared says of one option.
Declared(o) ==
  \/ LastAssigned(o, conf[o])
  \/ conf[o] = Initial(o) /\ \A i \in 1..nline : ~Assigns(file[i], o)

LEMMA ConfInit == Init => ConfAsDeclared
  BY DEF Init, ConfAsDeclared

LEMMA ConfStep == TypeOK /\ ConfAsDeclared /\ [Next]_vars => ConfAsDeclared'
<1> SUFFICES ASSUME TypeOK, ConfAsDeclared, [Next]_vars PROVE ConfAsDeclared'
  OBVIOUS
<1>t. nline \in Nat
  BY LenFile DEF TypeOK
<1>1. CASE ParseOption
  <2> DEFINE l == file[nline + 1]
  <2>1. /\ file' = file /\ nline' = nline + 1
        /\ ~Crashes(l) /\ ~Rejected(l)
        /\ conf' = [o \in Option |-> IF Assigns(l, o) THEN l.arg ELSE conf[o]]
    BY <1>1 DEF ParseOption
  <2>2. \A i \in 1..nline' : ~Rejected(file'[i]) /\ ~Crashes(file'[i])
    <3>1. ASSUME NEW i \in 1..nline+1 PROVE ~Rejected(file[i]) /\ ~Crashes(file[i])
      <4>1. i \in 1..nline \/ i = nline + 1
        BY <1>t
      <4> QED
        BY <4>1, <2>1 DEF ConfAsDeclared
    <3> QED
      BY <3>1, <2>1
  <2>3. ASSUME NEW o \in Option PROVE Declared(o)'
    <3>1. CASE Assigns(l, o)
      <4>1. conf'[o] = l.arg
        BY <3>1, <2>1
      <4>2. nline + 1 \in 1..nline' /\ \A j \in (nline+1)+1..nline' : ~Assigns(file'[j], o)
        BY <2>1, <1>t
      <4>3. LastAssigned(o, conf[o])'
        BY <4>1, <4>2, <2>1, <3>1 DEF LastAssigned
      <4> QED
        BY <4>3 DEF Declared
    <3>2. CASE ~Assigns(l, o)
      <4>1. conf'[o] = conf[o]
        BY <3>2, <2>1
      <4>2. Declared(o)
        BY DEF ConfAsDeclared, Declared
      <4>3. CASE LastAssigned(o, conf[o])
        <5>1. PICK i \in 1..nline : /\ Assigns(file[i], o) /\ file[i].arg = conf[o]
                                   /\ \A j \in (i+1)..nline : ~Assigns(file[j], o)
          BY <4>3 DEF LastAssigned
        <5>2. \A j \in (i+1)..(nline+1) : ~Assigns(file[j], o)
          <6>1. ASSUME NEW j \in (i+1)..(nline+1) PROVE j \in (i+1)..nline \/ j = nline + 1
            BY <1>t
          <6> QED
            BY <6>1, <5>1, <3>2
        <5>3. i \in 1..nline+1
          BY <1>t
        <5>4. LastAssigned(o, conf[o])'
          BY <5>1, <5>2, <5>3, <4>1, <2>1 DEF LastAssigned
        <5> QED
          BY <5>4 DEF Declared
      <4>4. CASE conf[o] = Initial(o) /\ \A i \in 1..nline : ~Assigns(file[i], o)
        <5>1. ASSUME NEW i \in 1..nline+1 PROVE ~Assigns(file[i], o)
          <6>1. i \in 1..nline \/ i = nline + 1
            BY <1>t
          <6> QED
            BY <6>1, <4>4, <3>2
        <5> QED
          BY <5>1, <4>1, <4>4, <2>1 DEF Declared
      <4> QED
        BY <4>2, <4>3, <4>4 DEF Declared
    <3> QED
      BY <3>1, <3>2
  <2> QED
    BY <2>2, <2>3 DEF Declared, ConfAsDeclared
<1>2. CASE UNCHANGED parseVars
  BY <1>2 DEF parseVars, ConfAsDeclared, LastAssigned
<1>3. ParseOption \/ UNCHANGED parseVars
  BY DEF Next, Main, Parse, Check, Build, SetUp, vars,
         OpenFails, ParseRejects, ParseCrashes, ParseEnds, CheckTcp, CheckSip, CheckUnknown,
         BuildPipes, BuildTun, BuildServer, BuildClient, SipUp, SipSetIP, SipSetNetmask,
         PluginStart, TcpSetIP, TcpSetNetmask, TcpUp, TcpAccept, SipInit
<1> QED
  BY <1>1, <1>2, <1>3

(* Whatever the file, the parser leaves each option at the value of the    *)
(* last line that assigned it, or at its initial value, and takes nothing  *)
(* from the lines after the first one it rejects.                          *)
THEOREM ParserIsFaithful == Spec => []ConfAsDeclared
<1>1. Init => TypeOK /\ ConfAsDeclared
  BY TypeInit, ConfInit
<1>2. TypeOK /\ ConfAsDeclared /\ [Next]_vars => (TypeOK /\ ConfAsDeclared)'
  BY TypeStep, ConfStep
<1> QED
  BY <1>1, <1>2, PTL DEF Spec
-----------------------------------------------------------------------------
(* What has been checked and built when main and the thread are where they *)
(* are: the inductive invariant behind the theorems below.                 *)

TcpPcs == {"buildServer", "buildClient"}
SipPcs == {"sipUp", "sipSetIP", "sipSetNetmask"}
TcpThreadPcs == {"setIP", "setNetmask", "up", "accept"}

Choice ==
  /\ Checked => plugin \in {"tcp", "sip"} /\ conf["plugin"] = plugin
  /\ Checked /\ plugin = "tcp" => TcpParametersOk
  /\ pc \in TcpPcs => plugin = "tcp"
  /\ pc = "buildServer" => conf["mode"] = "server"
  /\ pc = "buildClient" => conf["mode"] # "server"
  /\ pc \in SipPcs => plugin = "sip"
  /\ thread \in TcpThreadPcs => plugin = "tcp"
  /\ thread = "sipInit" => plugin = "sip"
  /\ thread = "accept" => conf["mode"] = "server"

Descriptors ==
  /\ Checked /\ pc # "build" => pipes
  /\ pc \in TcpPcs \cup SipPcs \cup {"start", "loop"} => tun
  /\ pc \in {"start", "loop"} /\ plugin = "tcp" =>
       sock \in (IF conf["mode"] = "server" THEN {"listening", "accepted", "failed"}
                                            ELSE {"connected"})
  /\ thread = "loop" /\ plugin = "tcp" => sock # "listening"
  /\ thread # "none" => pc = "loop" \/ (pc = "crashed" /\ thread = "ended")

SipUpFirst ==
  pc \in {"sipSetIP", "sipSetNetmask"} \/ (pc \in {"start", "loop"} /\ plugin = "sip")
    => "up" \in iface

Built == Choice /\ Descriptors /\ SipUpFirst

LEMMA BuiltInit == Init => Built
  BY DEF Init, Built, Choice, Descriptors, SipUpFirst, Checked, TcpPcs, SipPcs, TcpThreadPcs

\* While main parses there is no thread, and the options only matter later.
LEMMA BuiltParse == TypeOK /\ Built /\ Parse => Built'
<1> SUFFICES ASSUME TypeOK, Built, Parse PROVE Built'
  OBVIOUS
<1>1. pc = "parse" /\ thread = "none" /\ thread' = "none" /\ pc' \in {"parse", "check", "crashed"}
  BY DEF Parse, OpenFails, ParseOption, ParseRejects, ParseCrashes, ParseEnds,
         Built, Descriptors, TypeOK
<1> QED
  BY <1>1 DEF Built, Choice, Descriptors, SipUpFirst, Checked, TcpPcs, SipPcs, TcpThreadPcs

LEMMA BuiltCheck == TypeOK /\ Built /\ Check => Built'
<1> SUFFICES ASSUME TypeOK, Built, Check PROVE Built'
  OBVIOUS
<1>1. /\ pc = "check" /\ pc' \in {"build", "exit"}
      /\ thread = "none" /\ thread' = "none"
      /\ conf' = conf
      /\ pc' = "build" => plugin' \in {"tcp", "sip"} /\ conf["plugin"] = plugin'
      /\ pc' = "build" /\ plugin' = "tcp" => TcpParametersOk
  BY DEF Check, CheckTcp, CheckSip, CheckUnknown, Built, Descriptors, parseVars
<1>2. TcpParametersOk => TcpParametersOk'
  BY <1>1 DEF TcpParametersOk, Missing
<1> QED
  BY <1>1, <1>2 DEF Built, Choice, Descriptors, SipUpFirst, Checked, TcpPcs, SipPcs, TcpThreadPcs

\* Later steps of main leave the options and the plugin alone.
LEMMA BuiltBuild == TypeOK /\ Built /\ (Build \/ PluginStart) => Built'
<1> SUFFICES ASSUME TypeOK, Built, Build \/ PluginStart PROVE Built'
  OBVIOUS
<1>1. UNCHANGED <<conf, plugin>>
  BY DEF Build, BuildPipes, BuildTun, BuildServer, BuildClient,
         SipUp, SipSetIP, SipSetNetmask, PluginStart, parseVars
<1>2. TcpParametersOk => TcpParametersOk'
  BY <1>1 DEF TcpParametersOk, Missing
<1> USE DEF Built, Choice, Descriptors, SipUpFirst, Checked, TcpPcs, SipPcs, TcpThreadPcs
<1>3. CASE BuildPipes \/ BuildTun
  BY <1>1, <1>2, <1>3 DEF BuildPipes, BuildTun, AfterTun
<1>4. CASE BuildServer \/ BuildClient
  BY <1>1, <1>2, <1>4 DEF BuildServer, BuildClient
<1>5. CASE SipUp \/ SipSetIP \/ SipSetNetmask
  BY <1>1, <1>2, <1>5 DEF SipUp, SipSetIP, SipSetNetmask, SetIP, SetNetmask, buildVars
<1>6. CASE PluginStart
  BY <1>1, <1>2, <1>6 DEF PluginStart, FirstCall, buildVars
<1> QED
  BY <1>3, <1>4, <1>5, <1>6 DEF Build

LEMMA BuiltThread == TypeOK /\ Built /\ (SetUp \/ TcpAccept) => Built'
<1> SUFFICES ASSUME TypeOK, Built, SetUp \/ TcpAccept PROVE Built'
  OBVIOUS
<1>1. UNCHANGED <<conf, plugin, pipes, tun>>
  BY DEF SetUp, TcpSetIP, TcpSetNetmask, TcpUp, SipInit, TcpAccept, parseVars, buildVars
<1>2. TcpParametersOk => TcpParametersOk'
  BY <1>1 DEF TcpParametersOk, Missing
<1>3. "up" \in iface => "up" \in iface'
  BY DEF SetUp, TcpSetIP, TcpSetNetmask, TcpUp, SipInit, TcpAccept, SetIP, SetNetmask
<1> USE DEF Built, Choice, Descriptors, SipUpFirst, Checked, TcpPcs, SipPcs, TcpThreadPcs
<1>4. CASE TcpSetIP \/ TcpSetNetmask \/ TcpUp
  BY <1>1, <1>2, <1>3, <1>4 DEF TcpSetIP, TcpSetNetmask, TcpUp, buildVars
<1>s. CASE SipInit
  BY <1>1, <1>2, <1>3, <1>s DEF SipInit, buildVars
<1>5. CASE TcpAccept
  BY <1>1, <1>2, <1>3, <1>5 DEF TcpAccept
<1> QED
  BY <1>4, <1>s, <1>5 DEF SetUp

LEMMA BuiltStutter == Built /\ UNCHANGED vars => Built'
  BY DEF Built, Choice, Descriptors, SipUpFirst, Checked, TcpPcs, SipPcs, TcpThreadPcs,
         TcpParametersOk, Missing, vars, parseVars, buildVars

LEMMA BuiltStep == TypeOK /\ Built /\ [Next]_vars => Built'
  BY BuiltParse, BuiltCheck, BuiltBuild, BuiltThread, BuiltStutter DEF Next, Main

LEMMA BuiltAlways == Spec => []Built
<1>1. Init => TypeOK /\ Built
  BY TypeInit, BuiltInit
<1>2. TypeOK /\ Built /\ [Next]_vars => (TypeOK /\ Built)'
  BY TypeStep, BuiltStep
<1> QED
  BY <1>1, <1>2, PTL DEF Spec

-----------------------------------------------------------------------------
(* MainLoop never runs without the TUN device and the pipes, nor the TCP   *)
(* plugin's loop without a socket that fits its mode.                      *)
THEOREM LoopsFindWhatTheyNeed == Spec => []LoopsAreBuilt
<1>1. TypeOK /\ Built => LoopsAreBuilt
  BY DEF TypeOK, Built, Choice, Descriptors, LoopsAreBuilt, Checked, TcpParametersOk, Modes
<1> QED
  BY <1>1, TypeCorrect, BuiltAlways, PTL

(* The SIP plugin never runs over an interface that is down.               *)
THEOREM SipRunsOnAnInterfaceThatIsUp == Spec => []SipInterfaceIsUp
<1>1. Built => SipInterfaceIsUp
  BY DEF Built, SipUpFirst, SipInterfaceIsUp
<1> QED
  BY <1>1, BuiltAlways, PTL

(* A TCP server is built only from a file that gives its mode, port and    *)
(* addresses: the sentinel tests, made after the file, are as good as      *)
(* looking the options up in it.                                           *)
THEOREM ServerIsConfigured == Spec => []ServerHasItsOptions
<1>1. ConfAsDeclared /\ Built => ServerHasItsOptions
  <2> SUFFICES ASSUME ConfAsDeclared, Built, Checked, plugin = "tcp", conf["mode"] = "server",
                      NEW o \in {"mode", "plugin", "local_port", "local_ip", "remote_ip"}
               PROVE  Given(o)
    BY DEF ServerHasItsOptions
  <2>1. o \in Option
    BY DEF Option, StringOption, PortOption
  <2>2. LastAssigned(o, conf[o]) => Given(o)
    BY DEF LastAssigned, Given
  <2>3. conf[o] # Initial(o)
    <3>1. TcpParametersOk /\ conf["plugin"] = "tcp"
      BY DEF Built, Choice
    <3> QED
      BY <3>1 DEF TcpParametersOk, Missing, Initial
  <2> QED
    BY <2>1, <2>2, <2>3 DEF ConfAsDeclared
<1> QED
  BY <1>1, ParserIsFaithful, BuiltAlways, PTL

(* What the two threads share without a lock is written by nobody once     *)
(* both run.                                                               *)
THEOREM SharedStateIsSettled == Spec => SharedStateSettled
<1>1. Built /\ [Next]_vars => [thread # "none" => UNCHANGED <<parseVars, plugin, pipes, tun>>]_vars
  <2> SUFFICES ASSUME Built, [Next]_vars, thread # "none"
               PROVE  UNCHANGED <<parseVars, plugin, pipes, tun>>
    OBVIOUS
  <2>1. pc \in {"loop", "crashed"}
    BY DEF Built, Descriptors
  <2> QED
    BY <2>1 DEF Next, Main, Parse, Check, Build, SetUp, vars, buildVars,
         OpenFails, ParseOption, ParseRejects, ParseCrashes, ParseEnds,
         CheckTcp, CheckSip, CheckUnknown, BuildPipes, BuildTun, BuildServer, BuildClient,
         SipUp, SipSetIP, SipSetNetmask, PluginStart,
         TcpSetIP, TcpSetNetmask, TcpUp, TcpAccept, SipInit
<1> QED
  BY <1>1, BuiltAlways, PTL DEF Spec, SharedStateSettled
-----------------------------------------------------------------------------
(* Start-up as a countdown: lines to parse, calls of main, calls of the    *)
(* thread.                                                                 *)

MainAhead ==
  IF pc = "parse" THEN 8 ELSE IF pc = "check" THEN 7 ELSE IF pc = "build" THEN 6
  ELSE IF pc = "buildTun" THEN 5 ELSE IF pc = "sipUp" THEN 4 ELSE IF pc = "sipSetIP" THEN 3
  ELSE IF pc \in {"sipSetNetmask", "buildServer", "buildClient"} THEN 2
  ELSE IF pc = "start" THEN 1 ELSE 0

ThreadAhead ==
  IF thread = "none" THEN 5 ELSE IF thread = "setIP" THEN 4
  ELSE IF thread = "setNetmask" THEN 3 ELSE IF thread = "up" THEN 2
  ELSE IF thread \in {"accept", "sipInit"} THEN 1 ELSE 0

LinesAhead == Len(file) - nline

Ahead ==
  /\ LinesAhead \in Nat /\ MainAhead \in 0..8 /\ ThreadAhead \in 0..5
  /\ StepsAhead = LinesAhead + MainAhead + ThreadAhead

LEMMA AheadTypes == TypeOK => Ahead
<1> SUFFICES ASSUME TypeOK PROVE Ahead
  OBVIOUS
<1>1. LinesAhead \in Nat
  BY LenFile DEF TypeOK, LinesAhead
<1>2. MainAhead \in 0..8
  BY DEF MainAhead
<1>3. ThreadAhead \in 0..5
  BY DEF ThreadAhead
<1>4. StepsAhead = LinesAhead + MainAhead + ThreadAhead
  BY DEF StepsAhead, LinesAhead, MainAhead, ThreadAhead
<1> QED
  BY <1>1, <1>2, <1>3, <1>4 DEF Ahead

LEMMA OneLess ==
  ASSUME NEW l \in Nat, NEW m \in 0..8, NEW t \in 0..5,
         NEW l1 \in Nat, NEW m1 \in 0..8, NEW t1 \in 0..5,
         \/ l1 = l - 1 /\ m1 = m /\ t1 = t
         \/ l1 = l /\ m1 < m /\ t1 <= t
         \/ l1 = l /\ m1 = m /\ t1 < t
  PROVE  l1 + m1 + t1 < l + m + t
  OBVIOUS

\* What a step of main leaves: fewer lines, or fewer calls.
LEMMA MainCountsDown ==
  ASSUME TypeOK, Built, Main
  PROVE  \/ LinesAhead' = LinesAhead - 1 /\ MainAhead' = MainAhead /\ ThreadAhead' = ThreadAhead
         \/ LinesAhead' = LinesAhead /\ MainAhead' < MainAhead /\ ThreadAhead' <= ThreadAhead
<1>1. CASE ParseOption
  <2>1. nline \in Nat /\ Len(file) \in Nat
    BY LenFile DEF TypeOK
  <2>2. LinesAhead' = LinesAhead - 1
    BY <1>1, <2>1 DEF ParseOption, LinesAhead
  <2> QED
    BY <1>1, <2>2 DEF ParseOption, MainAhead, ThreadAhead
<1>2. CASE Main /\ ~ParseOption
  <2>1. LinesAhead' = LinesAhead
    BY <1>2 DEF Main, Parse, OpenFails, ParseRejects, ParseCrashes, ParseEnds,
                Check, CheckTcp, CheckSip, CheckUnknown, Build, BuildPipes, BuildTun,
                BuildServer, BuildClient, SipUp, SipSetIP, SipSetNetmask, PluginStart,
                parseVars, LinesAhead
  <2>2. CASE OpenFails \/ ParseRejects \/ ParseCrashes \/ ParseEnds \/ Check
    BY <2>1, <2>2 DEF OpenFails, ParseRejects, ParseCrashes, ParseEnds,
                      Check, CheckTcp, CheckSip, CheckUnknown, MainAhead, ThreadAhead
  <2>3. CASE Build
    BY <2>1, <2>3 DEF Build, BuildPipes, BuildTun, AfterTun, BuildServer, BuildClient,
                      SipUp, SipSetIP, SipSetNetmask, MainAhead, ThreadAhead
  <2>4. CASE PluginStart
    <3>1. thread = "none"
      BY <2>4 DEF PluginStart, Built, Descriptors
    <3> QED
      BY <2>1, <2>4, <3>1 DEF PluginStart, FirstCall, MainAhead, ThreadAhead
  <2> QED
    BY <1>2, <2>2, <2>3, <2>4 DEF Main, Parse
<1> QED
  BY <1>1, <1>2

\* A step of the thread is not taken back either.
LEMMA ThreadCountsDown ==
  ASSUME TypeOK, Built, SetUp \/ TcpAccept
  PROVE  LinesAhead' = LinesAhead /\ MainAhead' = MainAhead /\ ThreadAhead' < ThreadAhead
<1>1. UNCHANGED <<file, nline>> /\ (pc' = pc \/ (SipInit /\ pc' = "crashed"))
  BY DEF SetUp, TcpSetIP, TcpSetNetmask, TcpUp, SipInit, TcpAccept, parseVars
<1>2. ThreadAhead' < ThreadAhead
  BY DEF SetUp, TcpSetIP, TcpSetNetmask, TcpUp, SipInit, TcpAccept, ThreadAhead
<1>3. SipInit => pc = "loop"
  BY DEF SipInit, Built, Descriptors
<1> QED
  BY <1>1, <1>2, <1>3 DEF LinesAhead, MainAhead

(* Whatever the file and whichever calls fail, each step of start-up       *)
(* leaves one less to take, so there is no end to start-up but the ones    *)
(* that StartUpEnds names.                                                 *)
THEOREM StartUpCountsDown == Spec => NothingIsRetried
<1>1. TypeOK /\ Built /\ Ahead /\ Ahead' /\ [Next]_vars => [StepsAhead' < StepsAhead]_vars
  <2> SUFFICES ASSUME TypeOK, Built, Ahead, Ahead', Next PROVE StepsAhead' < StepsAhead
    OBVIOUS
  <2>1. /\ LinesAhead \in Nat /\ MainAhead \in 0..8 /\ ThreadAhead \in 0..5
        /\ StepsAhead = LinesAhead + MainAhead + ThreadAhead
    BY DEF Ahead
  <2>2. /\ LinesAhead' \in Nat /\ MainAhead' \in 0..8 /\ ThreadAhead' \in 0..5
        /\ StepsAhead' = LinesAhead' + MainAhead' + ThreadAhead'
    BY DEF Ahead
  <2>3. \/ LinesAhead' = LinesAhead - 1 /\ MainAhead' = MainAhead /\ ThreadAhead' = ThreadAhead
        \/ LinesAhead' = LinesAhead /\ MainAhead' < MainAhead /\ ThreadAhead' <= ThreadAhead
        \/ LinesAhead' = LinesAhead /\ MainAhead' = MainAhead /\ ThreadAhead' < ThreadAhead
    BY MainCountsDown, ThreadCountsDown DEF Next
  <2>4. LinesAhead' + MainAhead' + ThreadAhead' < LinesAhead + MainAhead + ThreadAhead
    BY <2>1, <2>2, <2>3, OneLess
  <2> QED
    BY <2>1, <2>2, <2>4
<1> QED
  BY <1>1, AheadTypes, TypeCorrect, BuiltAlways, PTL DEF Spec, NothingIsRetried
=============================================================================
