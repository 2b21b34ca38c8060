------------------------------- MODULE Startup -------------------------------
(***************************************************************************)
(* One host, from ParseConfigFile to the two loops that TcpTunnel starts   *)
(* from: main (main.c) parses the configuration file (parser.c), lets the  *)
(* plugin check the options (plugin.c), builds the pipes, the TUN device   *)
(* and the socket, starts the plugin's thread and enters MainLoop, while   *)
(* the thread sets the interface up and (a server) waits in accept().      *)
(* The command line is not modelled: main gets here with the name of a     *)
(* file, or has left through UsageMsg.                                     *)
(*                                                                         *)
(* Every call to the system may fail; what main and the thread do about it *)
(* (or fail to do) is the point of the module.  Option values are strings  *)
(* as in the file; a value stands for all values the code treats alike:    *)
(* "tcp" for the names that begin with tcp, "none" for those that begin    *)
(* with none.                                                              *)
(***************************************************************************)
EXTENDS Integers, Sequences

CONSTANTS
  Value,     (* the values an option can have                              *)
  Files,     (* the configuration files considered: sequences of lines     *)
  Ports,     (* the values that atoi() does not turn into 0                *)
  Addresses  (* the values inet_aton() accepts                             *)

StringOption == {"remote_host", "local_ip", "local_netmask", "remote_ip", "plugin",
                 "sip_transport", "sip_proxy", "sip_remoteuri", "sip_fromuri"}
PortOption   == {"remote_port", "local_port", "sip_port"}
Option       == StringOption \cup PortOption \cup {"mode"}

(* "skipped": a line that is empty, contains a '#' or names no option.     *)
(* "blank": a line of spaces only.  An argument "" is one that is missing. *)
Line == [opt : Option \cup {"skipped", "blank"}, arg : Value]

ASSUME StartupAssumption ==
  /\ {"none", "-1", "0", ""} \subseteq Value
  /\ Files \subseteq Seq(Line)
  /\ Ports \subseteq Value \ {"none", "0", ""}
  /\ Addresses \subseteq Value \ {"none", ""}

VARIABLES
  file,    (* the configuration file                                       *)
  nline,   (* lines of it parsed so far                                    *)
  conf,    (* the options in global_v                                      *)
  pc,      (* where main is                                                *)
  plugin,  (* global_v.plugin and the active_plugin_* pointers it goes with*)
  pipes,   (* both pipes exist                                             *)
  tun,     (* the TUN device is open                                       *)
  sock,    (* the plugin's TCP socket(s)                                   *)
  thread,  (* where the plugin's thread is                                 *)
  iface    (* what the interface has: address, netmask, the UP flag        *)

parseVars == <<file, nline, conf>>
buildVars == <<pipes, tun, sock>>
vars == <<parseVars, pc, plugin, buildVars, thread, iface>>

-----------------------------------------------------------------------------
(* Options and what a line does to them.                                   *)

\* Globals_Init, and zero for the members of global_v it does not mention.
Initial(o) == IF o \in {"remote_host", "plugin", "local_ip", "remote_ip"} THEN "none"
              ELSE IF o \in {"mode", "remote_port", "local_port"} THEN "-1"
              ELSE IF o = "sip_port" THEN "0" ELSE ""

Modes == {"server", "client"}

\* strtok() returned NULL and the code goes on with it.
Crashes(l) == l.opt = "blank" \/ (l.opt \in Option /\ l.arg = "")
Rejected(l) == l.opt \in PortOption /\ l.arg \notin Ports

Assigns(l, o) == l.opt = o /\ (o = "mode" => l.arg \in Modes)

Init ==
  /\ file \in Files
  /\ nline = 0
  /\ conf = [o \in Option |-> Initial(o)]
  /\ pc = "parse"
  /\ plugin = "none"
  /\ pipes = FALSE
  /\ tun = FALSE
  /\ sock = "none"
  /\ thread = "none"
  /\ iface = {}
-----------------------------------------------------------------------------
(* ParseConfigFile.  Its failures are only logged: main goes on with what  *)
(* was set before.                                                         *)

OpenFails ==
  /\ pc = "parse" /\ nline = 0
  /\ pc' = "check"
  /\ UNCHANGED <<parseVars, plugin, buildVars, thread, iface>>

\* Mutant: the first assignment of an option wins.
ParseOptionOnce ==
  /\ pc = "parse" /\ nline < Len(file)
  /\ LET l == file[nline + 1]
     IN  /\ ~Crashes(l) /\ ~Rejected(l)
         /\ conf' = [o \in Option |-> IF Assigns(l, o) /\ conf[o] = Initial(o)
                                        THEN l.arg ELSE conf[o]]
  /\ nline' = nline + 1
  /\ UNCHANGED <<file, pc, plugin, buildVars, thread, iface>>

ParseOption ==
  /\ pc = "parse" /\ nline < Len(file)
  /\ LET l == file[nline + 1]
     IN  /\ ~Crashes(l) /\ ~Rejected(l)
         /\ conf' = [o \in Option |-> IF Assigns(l, o) THEN l.arg ELSE conf[o]]
  /\ nline' = nline + 1
  /\ UNCHANGED <<file, pc, plugin, buildVars, thread, iface>>

\* Mutant: a rejected line is read again.
ParseRejectsAgain ==
  /\ pc = "parse" /\ nline < Len(file)
  /\ ~Crashes(file[nline + 1]) /\ Rejected(file[nline + 1])
  /\ UNCHANGED vars

ParseRejects ==
  /\ pc = "parse" /\ nline < Len(file)
  /\ ~Crashes(file[nline + 1]) /\ Rejected(file[nline + 1])
  /\ pc' = "check"
  /\ UNCHANGED <<parseVars, plugin, buildVars, thread, iface>>

ParseCrashes ==
  /\ pc = "parse" /\ nline < Len(file)
  /\ Crashes(file[nline + 1])
  /\ pc' = "crashed"
  /\ UNCHANGED <<parseVars, plugin, buildVars, thread, iface>>

\* Mutant: the end of the file is noticed one line too late.
ParseEndsLate ==
  /\ pc = "parse" /\ nline = Len(file)
  /\ pc' = "check" /\ nline' = nline + 1
  /\ UNCHANGED <<file, conf, plugin, buildVars, thread, iface>>

ParseEnds ==
  /\ pc = "parse" /\ nline = Len(file)
  /\ pc' = "check"
  /\ UNCHANGED <<parseVars, plugin, buildVars, thread, iface>>
-----------------------------------------------------------------------------
(* plugin_checkConfig.                                                     *)

\* tcp_checkLocalPort ... tcp_checkRemoteIP: the option is still at (or was
\* set to) the value that stands for "not set".
Missing(o) == conf[o] = Initial(o)

\* Mutant: the server's local_port is not looked at.
TcpParametersOkNoPort ==
  \/ conf["mode"] = "server" /\ ~Missing("local_ip") /\ ~Missing("remote_ip")
  \/ conf["mode"] = "client"

\* tcp_checkParameters.  The client's branch reports what is missing and
\* falls through to "return 0".
TcpParametersOk ==
  \/ conf["mode"] = "server" /\ \A o \in {"local_port", "local_ip", "remote_ip"} : ~Missing(o)
  \/ conf["mode"] = "client"

\* sip_checkParameters.  sip_transport and sip_remoteuri are arrays, whose
\* address is never zero: only the port is tested.
SipParametersOk == ~Missing("sip_port")

CheckTcp ==
  /\ pc = "check" /\ conf["plugin"] = "tcp"
  /\ plugin' = "tcp"
  /\ pc' = IF TcpParametersOk THEN "build" ELSE "exit"
  /\ UNCHANGED <<parseVars, buildVars, thread, iface>>

CheckSip ==
  /\ pc = "check" /\ conf["plugin"] = "sip"
  /\ plugin' = "sip"
  /\ pc' = IF SipParametersOk THEN "build" ELSE "exit"
  /\ UNCHANGED <<parseVars, buildVars, thread, iface>>

CheckUnknown ==
  /\ pc = "check" /\ conf["plugin"] \notin {"tcp", "sip"}
  /\ pc' = "exit"
  /\ UNCHANGED <<parseVars, plugin, buildVars, thread, iface>>
-----------------------------------------------------------------------------
(* plugin_build.  Whatever fails here ends the program.                    *)

\* plugin_build's two pipe() calls.
BuildPipes ==
  /\ pc = "build"
  /\ \/ pipes' = TRUE /\ pc' = "buildTun"
     \/ pc' = "exit" /\ UNCHANGED pipes
  /\ UNCHANGED <<parseVars, plugin, tun, sock, thread, iface>>

AfterTun == IF plugin = "sip" THEN "sipUp"
            ELSE IF conf["mode"] = "server" THEN "buildServer" ELSE "buildClient"

\* Mutant: the result of tun_open() is not looked at.
BuildTunUnchecked ==
  /\ pc = "buildTun"
  /\ tun' \in BOOLEAN
  /\ pc' = AfterTun
  /\ UNCHANGED <<parseVars, plugin, pipes, sock, thread, iface>>

\* tun_open, the first call of tcp_build and of sip_build.
BuildTun ==
  /\ pc = "buildTun"
  /\ \/ tun' = TRUE /\ pc' = AfterTun
     \/ pc' = "exit" /\ UNCHANGED tun
  /\ UNCHANGED <<parseVars, plugin, pipes, sock, thread, iface>>

\* tcp_buildServer: socket(), bind() and listen().
BuildServer ==
  /\ pc = "buildServer"
  /\ \/ sock' = "listening" /\ pc' = "start"
     \/ pc' = "exit" /\ UNCHANGED sock
  /\ UNCHANGED <<parseVars, plugin, pipes, tun, thread, iface>>

\* tcp_buildClient: socket(), gethostbyname() and connect(); the table that
\* StoreConnectionInformation searches is empty, so it finds a place.
BuildClient ==
  /\ pc = "buildClient"
  /\ \/ sock' = "connected" /\ pc' = "start"
     \/ pc' = "exit" /\ UNCHANGED sock
  /\ UNCHANGED <<parseVars, plugin, pipes, tun, thread, iface>>

\* Mutant: sip_build ignores tun_UP's result, as tcp_start does.
SipUpUnchecked ==
  /\ pc = "sipUp"
  /\ iface' \in {iface, iface \cup {"up"}}
  /\ pc' = "sipSetIP"
  /\ UNCHANGED <<parseVars, plugin, buildVars, thread>>

SipUp ==
  /\ pc = "sipUp"
  /\ \/ iface' = iface \cup {"up"} /\ pc' = "sipSetIP"
     \/ pc' = "exit" /\ UNCHANGED iface
  /\ UNCHANGED <<parseVars, plugin, buildVars, thread>>

\* tun_setIP and tun_setNETMASK, whose results no caller looks at.  The
\* kernel gives a netmask only to an interface that has an address.
SetIP(ip) ==
  \/ ip \in Addresses /\ iface' = iface \cup {"ip"}
  \/ UNCHANGED iface
SetNetmask(mask) ==
  \/ mask \in Addresses /\ "ip" \in iface /\ iface' = iface \cup {"mask"}
  \/ UNCHANGED iface

SipSetIP ==
  /\ pc = "sipSetIP"
  /\ SetIP(conf["local_ip"])
  /\ pc' = "sipSetNetmask"
  /\ UNCHANGED <<parseVars, plugin, buildVars, thread>>

SipSetNetmask ==
  /\ pc = "sipSetNetmask"
  /\ SetNetmask(conf["local_netmask"])
  /\ pc' = "start"
  /\ UNCHANGED <<parseVars, plugin, buildVars, thread>>
-----------------------------------------------------------------------------
(* plugin_start and the thread.                                            *)

FirstCall == IF plugin = "tcp" THEN "setIP" ELSE "sipInit"

\* Mutant: the thread is started as soon as the pipes exist.
PluginStartEarly ==
  /\ pc \in {"buildTun", "start"} /\ thread = "none"
  /\ thread' = FirstCall
  /\ pc' = IF pc = "start" THEN "loop" ELSE pc
  /\ UNCHANGED <<parseVars, plugin, buildVars, iface>>

\* The results of pthread_create and of plugin_start are not looked at:
\* main enters MainLoop with or without a thread to read the pipe.
PluginStart ==
  /\ pc = "start"
  /\ thread' \in {"none", FirstCall}
  /\ pc' = "loop"
  /\ UNCHANGED <<parseVars, plugin, buildVars, iface>>

TcpSetIP ==
  /\ thread = "setIP"
  /\ SetIP(conf["local_ip"])
  /\ thread' = "setNetmask"
  /\ UNCHANGED <<parseVars, pc, plugin, buildVars>>

\* The netmask is a constant of tcp_start; local_netmask plays no part.
TcpSetNetmask ==
  /\ thread = "setNetmask"
  /\ SetNetmask("255.255.255.0")
  /\ thread' = "up"
  /\ UNCHANGED <<parseVars, pc, plugin, buildVars>>

TcpUp ==
  /\ thread = "up"
  /\ iface' \in {iface, iface \cup {"up"}}
  /\ thread' = IF conf["mode"] = "server" THEN "accept" ELSE "loop"
  /\ UNCHANGED <<parseVars, pc, plugin, buildVars>>

\* Mutant: a failed accept() is tried again.
TcpAcceptAgain ==
  /\ thread = "accept"
  /\ \/ sock' = "accepted" /\ thread' = "loop"
     \/ sock' = "failed" /\ UNCHANGED thread
  /\ UNCHANGED <<parseVars, pc, plugin, pipes, tun, iface>>

\* accept() may return -1, which nothing tests: socketConnected is -1 then.
TcpAccept ==
  /\ thread = "accept"
  /\ sock' \in {"accepted", "failed"}
  /\ thread' = "loop"
  /\ UNCHANGED <<parseVars, pc, plugin, pipes, tun, iface>>

\* sip_start up to sip_loop_tun_events.  When PJSIP does not initialise it
\* returns, or (PJ_ASSERT_RETURN in a build with assertions) it takes the
\* whole program with it.
SipInit ==
  /\ thread = "sipInit"
  /\ \/ thread' \in {"loop", "ended"} /\ UNCHANGED pc
     \/ thread' = "ended" /\ pc' = "crashed"
  /\ UNCHANGED <<parseVars, plugin, buildVars, iface>>
-----------------------------------------------------------------------------
Parse  == OpenFails \/ ParseOption \/ ParseRejects \/ ParseCrashes \/ ParseEnds
Check  == CheckTcp \/ CheckSip \/ CheckUnknown
Build  == \/ BuildPipes \/ BuildTun \/ BuildServer \/ BuildClient
          \/ SipUp \/ SipSetIP \/ SipSetNetmask
Main   == Parse \/ Check \/ Build \/ PluginStart
SetUp  == TcpSetIP \/ TcpSetNetmask \/ TcpUp \/ SipInit
Next   == Main \/ SetUp \/ TcpAccept

Spec == Init /\ [][Next]_vars

\* Both threads are scheduled, and every call returns in the end (name
\* resolution and connect() time out) but accept(), which waits for a client.
FairSpec == Spec /\ WF_vars(Main) /\ WF_vars(SetUp)
-----------------------------------------------------------------------------
MainPcs == {"parse", "check", "build", "buildTun", "buildServer", "buildClient",
            "sipUp", "sipSetIP", "sipSetNetmask", "start", "loop", "exit", "crashed"}
ThreadPcs == {"none", "setIP", "setNetmask", "up", "accept", "sipInit", "loop", "ended"}

(* The type of every variable; the parser stays within its file.           *)
TypeOK ==
  /\ file \in Files
  /\ nline \in 0..Len(file)
  /\ conf \in [Option -> Value]
  /\ pc \in MainPcs
  /\ plugin \in {"none", "tcp", "sip"}
  /\ pipes \in BOOLEAN /\ tun \in BOOLEAN
  /\ sock \in {"none", "listening", "connected", "accepted", "failed"}
  /\ thread \in ThreadPcs
  /\ iface \in SUBSET {"ip", "mask", "up"}

(* What the parser leaves in global_v is what the lines it got through say *)
(* of each option: the last one to assign it, or else the initial value.   *)
(* It stops at the first line it rejects, and no line after that counts.   *)
LastAssigned(o, v) ==
  \E i \in 1..nline : /\ Assigns(file[i], o) /\ file[i].arg = v
                      /\ \A j \in (i+1)..nline : ~Assigns(file[j], o)
ConfAsDeclared ==
  /\ \A i \in 1..nline : ~Rejected(file[i]) /\ ~Crashes(file[i])
  /\ \A o \in Option :
       \/ LastAssigned(o, conf[o])
       \/ conf[o] = Initial(o) /\ \A i \in 1..nline : ~Assigns(file[i], o)

Checked == pc \notin {"parse", "check", "exit", "crashed"}
Given(o) == \E i \in 1..nline : Assigns(file[i], o)

(* A TCP server is built only from a file that gives its port and its two  *)
(* addresses: the values that stand for "not set" do not let one through.  *)
ServerHasItsOptions ==
  Checked /\ plugin = "tcp" /\ conf["mode"] = "server" =>
    \A o \in {"mode", "plugin", "local_port", "local_ip", "remote_ip"} : Given(o)

(* What the two loops take for granted when they begin.  MainLoop has the  *)
(* TUN device and the pipes; the plugin's loop has the pipes and a socket  *)
(* that fits the mode (on a server possibly the -1 of a failed accept).    *)
(* The thread exists while main is in MainLoop and at no other time.       *)
LoopsAreBuilt ==
  /\ pc = "loop" => /\ pipes /\ tun
                    /\ plugin = "tcp" => conf["mode"] \in Modes
  /\ thread # "none" => pc = "loop" \/ (pc = "crashed" /\ thread = "ended")
  /\ thread = "loop" /\ plugin = "tcp" =>
       sock \in (IF conf["mode"] = "server" THEN {"accepted", "failed"} ELSE {"connected"})

(* The SIP plugin never runs over an interface that is not up.  (The TCP   *)
(* plugin may: tcp_start goes on when tun_UP fails.)                       *)
SipInterfaceIsUp == pc = "loop" /\ plugin = "sip" => "up" \in iface

(* The two threads share global_v and the plugin's statics without a lock. *)
(* Once the thread runs nobody writes what both read: the options, the     *)
(* plugin, the pipes and the TUN descriptor.                               *)
SharedStateSettled == [][thread # "none" => UNCHANGED <<parseVars, plugin, pipes, tun>>]_vars

(* The lines, calls and steps of the two threads that are still to come.   *)
StepsAhead ==
  (Len(file) - nline)
    + (IF pc = "parse" THEN 8 ELSE IF pc = "check" THEN 7 ELSE IF pc = "build" THEN 6
       ELSE IF pc = "buildTun" THEN 5 ELSE IF pc = "sipUp" THEN 4 ELSE IF pc = "sipSetIP" THEN 3
       ELSE IF pc \in {"sipSetNetmask", "buildServer", "buildClient"} THEN 2
       ELSE IF pc = "start" THEN 1 ELSE 0)
    + (IF thread = "none" THEN 5 ELSE IF thread = "setIP" THEN 4
       ELSE IF thread = "setNetmask" THEN 3 ELSE IF thread = "up" THEN 2
       ELSE IF thread \in {"accept", "sipInit"} THEN 1 ELSE 0)

(* Nothing in start-up is tried again: a call that fails is fatal or       *)
(* passed over, a rejected line ends the file, and accept() is not called  *)
(* twice.  So the two threads together never take more steps than the file *)
(* has lines and they have calls to make.                                  *)
NothingIsRetried == [][StepsAhead' < StepsAhead]_vars

(* Start-up comes to an end: main exits, or crashes on a bad line, or is   *)
(* in MainLoop with the thread in its loop, in accept(), or not there.     *)
StartUpEnds ==
  <>(\/ pc \in {"exit", "crashed"}
     \/ pc = "loop" /\ thread \in {"none", "accept", "loop", "ended"})

(* plugin.h says that plugin_checkConfig checks whether all options the    *)
(* plugin needs have been set; tcp_plugin.c names the client's.            *)
ClientHasItsOptions ==
  Checked /\ plugin = "tcp" /\ conf["mode"] = "client" =>
    \A o \in {"remote_host", "remote_port", "local_ip", "remote_ip"} : ~Missing(o)

(* sip_plugin.c says that it needs at least the port, the transport, the   *)
(* remote URI and the tunnel's address.                                    *)
SipHasItsOptions ==
  Checked /\ plugin = "sip" =>
    \A o \in {"sip_port", "sip_transport", "sip_remoteuri", "local_ip"} : ~Missing(o)
=============================================================================
