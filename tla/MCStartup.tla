----------------------------- MODULE MCStartup -----------------------------
(* The configuration files for checking Startup: the three kinds of sample *)
(* file of the distribution with one line removed, changed or repeated,    *)
(* and every short file over a few lines.                                  *)
EXTENDS Startup, SequencesExt

L(o, a) == [opt |-> o, arg |-> a]

\* test.config.server, test.config.client and test.config.sip.alice.
ServerFile == <<L("skipped", ""), L("mode", "server"), L("local_ip", "10.200.200.2"),
                L("remote_ip", "10.200.200.1"), L("remote_host", "mai.irontec.com"),
                L("remote_port", "3005"), L("local_port", "3005"), L("plugin", "tcp")>>
ClientFile == <<L("skipped", ""), L("mode", "client"), L("local_ip", "10.200.200.1"),
                L("remote_ip", "10.200.200.2"), L("remote_host", "10.10.9.45"),
                L("remote_port", "3006"), L("plugin", "tcp")>>
SipFile == <<L("skipped", ""), L("plugin", "sip"), L("sip_port", "4060"),
             L("sip_transport", "udp"), L("sip_fromuri", "sip:bob@10.10.0.180"),
             L("sip_remoteuri", "sip:alice@10.10.0.176"), L("local_ip", "10.200.200.1"),
             L("local_netmask", "255.255.255.0")>>
Samples == {ServerFile, ClientFile, SipFile}

Args == {"", "0", "-1", "none", "other"}
Removed  == UNION {{RemoveAt(f, i) : i \in DOMAIN f} : f \in Samples}
Changed  == UNION {{[f EXCEPT ![i].arg = a] : i \in DOMAIN f, a \in Args} : f \in Samples}
Repeated == UNION {{Append(f, [f[i] EXCEPT !.arg = a]) : i \in DOMAIN f, a \in Args} : f \in Samples}

ShortLines == {L("plugin", "tcp"), L("plugin", "sip"), L("mode", "server"), L("mode", "client"),
               L("sip_port", "4060"), L("sip_port", "0"), L("blank", "")}
Short == UNION {[1..n -> ShortLines] : n \in 0..3}

MCFiles == Samples \cup Removed \cup Changed \cup Repeated \cup Short
MCValue == {"none", "-1", "0", ""} \cup UNION {{f[i].arg : i \in DOMAIN f} : f \in MCFiles}
MCAddresses == {"10.200.200.1", "10.200.200.2", "255.255.255.0"}
MCPorts == {"-1", "3005", "3006", "4060", "10.10.9.45"} \cup MCAddresses
=============================================================================
