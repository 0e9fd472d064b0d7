------------------------------ MODULE Enrolment ------------------------------
(***************************************************************************)
(* How a target is enrolled and reached: csl-agent init and policy on the  *)
(* target, the registration of its bundle, the pooled ssh connection and   *)
(* the bearer token of every call.  All machines of this model are dialled *)
(* at one address, under one ssh user; which host answers there may change *)
(* (a host name is pointed elsewhere), and the pool knows a connection by  *)
(* the address only.  A host's ssh key pair and its host key stand for it. *)
(***************************************************************************)
EXTENDS Naturals, FiniteSets

CONSTANTS
    Hosts,        \* the hosts that may answer at the address
    Machines,     \* rows of the machines table
    Clients,      \* AgentClients that may be in use together
    InitPorts,    \* ports that csl-agent init is run with
    DefaultPort,  \* AgentSection.listen_port, used when the file has none
    None,         \* no token, no row, no connection, ...
    MaxCrashes    \* bound on commands that die halfway

ASSUME NoneAssumption == None \notin Hosts /\ None \notin InitPorts \cup {DefaultPort}
ASSUME NoTokenAssumption == None \notin Hosts \X (1..(MaxCrashes + 1))
ASSUME CrashAssumption == MaxCrashes \in Nat

VARIABLES
    config,      \* config.yaml of each host, as load_config reads it
    authorized,  \* the port that permitopen names in authorized_keys, or None
    cli,         \* the csl-agent command in progress on each host
    agent,       \* what the agent of each host has loaded, or None
    bundles,     \* the registration bundles printed so far
    dns,         \* the host that answers at the address
    row,         \* the machines table
    reg,         \* the registration in progress for each row
    conn,        \* the pool's connection to the address, or None
    client,      \* the AgentClients in use
    issued,      \* how many tokens each host has drawn
    crashes      \* how many commands died halfway

hostVars   == <<config, authorized, cli, bundles, issued, crashes>>
serverVars == <<row, reg, conn, client>>
vars == <<config, authorized, cli, agent, bundles, dns, row, reg, conn, client, issued, crashes>>

Ports    == InitPorts \cup {DefaultPort}
Tokens   == Hosts \X (1..(MaxCrashes + 1))
Config   == [port: Ports, token: Tokens \cup {None}]
Bundle   == [host: Hosts, port: Ports, token: Tokens]
Conn     == [host: Hosts, permit: Ports]
Defaults == [port |-> DefaultPort, token |-> None]

(* The process reads config.yaml twice: main takes the port from it, and   *)
(* _lifespan, before the port is bound, the token.  "lapse" is a history:  *)
(* whether _lifespan read no token in a lapse (below).                     *)
Agent    == [at: {"starting", "listening"}, port: Ports, token: Tokens \cup {None}, lapse: BOOLEAN]
Idle     == [at |-> "idle", row |-> None]

TypeOK ==
    /\ config \in [Hosts -> Config]
    /\ authorized \in [Hosts -> Ports \cup {None}]
    /\ cli \in [Hosts -> [at: {"idle", "read", "authorized", "rewrite", "torn"}, new: Config, init: BOOLEAN]]
    /\ agent \in [Hosts -> Agent \cup {None}]
    /\ bundles \subseteq Bundle
    /\ dns \in Hosts
    /\ row \in [Machines -> Bundle \cup {None}]
    /\ reg \in [Machines -> [at: {"idle", "decoded", "tested"}, row: Bundle \cup {None}]]
    /\ conn \in Conn \cup {None}
    /\ client \in [Clients -> [at: {"idle", "loaded", "tunnel"}, row: Bundle \cup {None}]]
    /\ issued \in [Hosts -> 0..(MaxCrashes + 1)]
    /\ crashes \in 0..MaxCrashes

NoCommand == [at |-> "idle", new |-> Defaults, init |-> FALSE]

Init ==
    /\ config = [h \in Hosts |-> Defaults]
    /\ authorized = [h \in Hosts |-> None]
    /\ cli = [h \in Hosts |-> NoCommand]
    /\ agent = [h \in Hosts |-> None]
    /\ bundles = {}
    /\ dns \in Hosts
    /\ row = [m \in Machines |-> None]
    /\ reg = [m \in Machines |-> Idle]
    /\ conn = None
    /\ client = [c \in Clients |-> Idle]
    /\ issued = [h \in Hosts |-> 0]
    /\ crashes = 0

-----------------------------------------------------------------------------
(* The target: csl-agent init, csl-agent policy and the agent.             *)

(* load_config: a missing or empty file gives the defaults, and no token.  *)
LoadConfig(h) == config[h]

Command(h, c) == cli' = [cli EXCEPT ![h] = c]

(* Mutant: every init draws a token.                                       *)
DrawToken(h) == <<h, issued[h] + 1>>

(* Mutant: no token is drawn for a host that has none.                     *)
TokenInUse(h) == LoadConfig(h).token

(* The token in use, or a new one if there is none.                        *)
ApiToken(h) == IF LoadConfig(h).token # None THEN LoadConfig(h).token ELSE <<h, issued[h] + 1>>

(* cmd_init: the configuration is read and the token chosen ...            *)
InitReads(h, p) ==
    /\ cli[h].at = "idle"
    /\ Command(h, [at |-> "read", new |-> [port |-> p, token |-> ApiToken(h)], init |-> TRUE])
    /\ issued' = [issued EXCEPT ![h] = IF ApiToken(h) = <<h, @ + 1>> THEN @ + 1 ELSE @]
    /\ UNCHANGED <<config, authorized, agent, bundles, dns, serverVars, crashes>>

(* ... the key's line in authorized_keys is replaced (the key pair is      *)
(* generated before, unless it exists) ...                                 *)
AppendAuthorizedKeys(h) ==
    /\ cli[h].at = "read" /\ cli[h].init
    /\ authorized' = [authorized EXCEPT ![h] = cli[h].new.port]
    /\ Command(h, [cli[h] EXCEPT !.at = "rewrite"])
    /\ UNCHANGED <<config, agent, bundles, dns, serverVars, issued, crashes>>

(* Mutant: policy writes its own section, and the others by default.       *)
PolicyForgetsRest(h) ==
    /\ cli[h].at = "idle" /\ issued[h] > 0
    /\ Command(h, [at |-> "rewrite", new |-> [LoadConfig(h) EXCEPT !.token = None], init |-> FALSE])
    /\ UNCHANGED <<config, authorized, agent, bundles, dns, serverVars, issued, crashes>>

(* policy reads the file to write it back with another auto-approve list.  *)
PolicySetEntry(h) ==
    /\ cli[h].at = "idle" /\ issued[h] > 0
    /\ Command(h, [at |-> "rewrite", new |-> LoadConfig(h), init |-> FALSE])
    /\ UNCHANGED <<config, authorized, agent, bundles, dns, serverVars, issued, crashes>>

(* ... and config.yaml is written in place: it is empty in between.        *)
ConfigTruncated(h) ==
    /\ cli[h].at = "rewrite"
    /\ config' = [config EXCEPT ![h] = Defaults]
    /\ Command(h, [cli[h] EXCEPT !.at = "torn"])
    /\ UNCHANGED <<authorized, agent, bundles, dns, serverVars, issued, crashes>>

(* init goes on to print the bundle.                                       *)
WriteConfig(h) ==
    LET new == cli[h].new IN
    /\ cli[h].at = "torn"
    /\ config' = [config EXCEPT ![h] = new]
    /\ bundles' = IF cli[h].init
                  THEN bundles \cup {[host |-> h, port |-> new.port, token |-> new.token]} ELSE bundles
    /\ Command(h, NoCommand)
    /\ UNCHANGED <<authorized, agent, dns, serverVars, issued, crashes>>

CommandDies(h) ==
    /\ cli[h].at # "idle"
    /\ crashes < MaxCrashes /\ crashes' = crashes + 1
    /\ Command(h, NoCommand)
    /\ UNCHANGED <<config, authorized, agent, bundles, dns, serverVars, issued>>

(* The owner takes the key out of authorized_keys.                         *)
OwnerRevokes(h) ==
    /\ authorized[h] # None
    /\ authorized' = [authorized EXCEPT ![h] = None]
    /\ UNCHANGED <<config, agent, cli, bundles, dns, serverVars, issued, crashes>>

(* main of the agent loads the configuration for the port ...              *)
Main(h) ==
    /\ agent[h] = None
    /\ agent' = [agent EXCEPT ![h] =
          [at |-> "starting", port |-> LoadConfig(h).port, token |-> None, lapse |-> FALSE]]
    /\ UNCHANGED <<hostVars, dns, serverVars>>

AgentStarts(h) == Main(h)

(* config.yaml may have no token: no init has come to its end on the host, *)
(* it is being rewritten, or some command has died halfway.                *)
Lapse(h) == (\A b \in bundles: b.host # h) \/ cli[h].at = "torn" \/ crashes > 0

(* ... and _lifespan loads it again, for everything else; then the server  *)
(* listens on the port of the first load.                                  *)
Lifespan(h) ==
    LET token == LoadConfig(h).token IN
    /\ agent[h] # None /\ agent[h].at = "starting"
    /\ agent' = [agent EXCEPT ![h] =
          [at |-> "listening", port |-> @.port, token |-> token, lapse |-> token = None /\ Lapse(h)]]
    /\ UNCHANGED <<hostVars, dns, serverVars>>

AgentStops(h) ==
    /\ agent[h] # None
    /\ agent' = [agent EXCEPT ![h] = None]
    /\ UNCHANGED <<hostVars, dns, serverVars>>

AddressMoves(h) ==
    /\ dns # h
    /\ dns' = h
    /\ UNCHANGED <<hostVars, agent, serverVars>>

-----------------------------------------------------------------------------
(* The registration of a machine.                                          *)

(* The bundle decodes, the versions fit and the name is free.              *)
RegisterMachine(m, b) ==
    /\ reg[m] = Idle /\ row[m] = None
    /\ reg' = [reg EXCEPT ![m] = [at |-> "decoded", row |-> b]]
    /\ UNCHANGED <<hostVars, agent, dns, row, conn, client>>

AdminMachineNewSubmit(m, b) == RegisterMachine(m, b)

(* Does the host that answers take the key of this row?                    *)
Admits(h, r) == authorized[h] # None /\ r.host = h

(* The gateway serves the config read; an empty file has no fingerprint.   *)
FingerprintMatches(h, b) == config[h] # Defaults /\ b.host = h

(* The one-shot connection pins the key of the host that answered.         *)
SshConnectionTest(m) ==
    /\ reg[m].at = "decoded"
    /\ Admits(dns, reg[m].row) /\ FingerprintMatches(dns, reg[m].row)
    /\ reg' = [reg EXCEPT ![m].at = "tested"]
    /\ UNCHANGED <<hostVars, agent, dns, row, conn, client>>

RegisterStores(m) ==
    /\ reg[m].at = "tested" /\ row[m] = None
    /\ row' = [row EXCEPT ![m] = reg[m].row]
    /\ reg' = [reg EXCEPT ![m] = Idle]
    /\ UNCHANGED <<hostVars, agent, dns, conn, client>>

RegisterFails(m) ==
    /\ reg[m] # Idle
    /\ reg' = [reg EXCEPT ![m] = Idle]
    /\ UNCHANGED <<hostVars, agent, dns, row, conn, client>>

(* The pool is not told.                                                   *)
DeleteMachine(m) ==
    /\ row[m] # None
    /\ row' = [row EXCEPT ![m] = None]
    /\ UNCHANGED <<hostVars, agent, dns, reg, conn, client>>

AdminMachineDelete(m) == DeleteMachine(m)

-----------------------------------------------------------------------------
(* Calls of the agent.  An AgentClient is made for a row that was loaded.  *)
Loads(c, m) ==
    /\ client[c] = Idle /\ row[m] # None
    /\ client' = [client EXCEPT ![c] = [at |-> "loaded", row |-> row[m]]]
    /\ UNCHANGED <<hostVars, agent, dns, row, reg, conn>>

(* agent_status goes the same way with a tunnel of its own, and never      *)
(* starts the agent.                                                       *)
AgentStatus(c, m) == Loads(c, m)

(* get_connection, under the pool's lock: the open connection, whoever it  *)
(* was opened for, or a new one to a host that has the pinned key; sshd    *)
(* keeps the permitopen of the login.  open_tunnel forwards a local port.  *)
OpenTunnel(c) ==
    LET r == client[c].row IN
    /\ client[c].at = "loaded"
    /\ \/ conn # None /\ UNCHANGED conn
       \/ /\ conn = None /\ Admits(dns, r)
          /\ conn' = [host |-> dns, permit |-> authorized[dns]]
    /\ client' = [client EXCEPT ![c].at = "tunnel"]
    /\ UNCHANGED <<hostVars, agent, dns, row, reg>>

(* ensure_agent_running: the gateway runs the service-start command.       *)
EnsureAgentRunning(c) ==
    /\ client[c].at = "tunnel"
    /\ Main(conn.host)

(* Mutant: the agent takes any token.                                      *)
AnyToken(r, a) == TRUE

(* _AuthMiddleware lets a request pass that has the agent's token, or any  *)
(* if the agent has none.                                                  *)
AuthMiddleware(r, a) == a.token = None \/ a.token = r.token

(* A call gets through: the tunnel ends at the row's port, which the key   *)
(* may reach and the agent listens on.                                     *)
Served(c) ==
    LET r == client[c].row
        a == agent[conn.host]
    IN
    /\ client[c].at = "tunnel" /\ a # None /\ a.at = "listening"
    /\ r.port = conn.permit /\ r.port = a.port
    /\ AuthMiddleware(r, a)

(* __aexit__, or any failure before.                                       *)
ClientExits(c) ==
    /\ client[c] # Idle
    /\ client' = [client EXCEPT ![c] = Idle]
    /\ UNCHANGED <<hostVars, agent, dns, row, reg, conn>>

(* The network drops the connection, or close ends it: its tunnels die and *)
(* the next get_connection opens another.                                  *)
ConnectionEnds ==
    /\ conn # None
    /\ conn' = None
    /\ client' = [c \in Clients |-> IF client[c].at = "tunnel" THEN Idle ELSE client[c]]
    /\ UNCHANGED <<hostVars, agent, dns, row, reg>>

-----------------------------------------------------------------------------
Next ==
    \/ \E h \in Hosts:
          \/ \E p \in InitPorts: InitReads(h, p)
          \/ AppendAuthorizedKeys(h) \/ PolicySetEntry(h) \/ ConfigTruncated(h) \/ WriteConfig(h)
          \/ CommandDies(h) \/ OwnerRevokes(h) \/ AddressMoves(h)
          \/ AgentStarts(h) \/ Lifespan(h) \/ AgentStops(h)
    \/ \E m \in Machines:
          \/ \E b \in bundles: RegisterMachine(m, b) \/ AdminMachineNewSubmit(m, b)
          \/ SshConnectionTest(m) \/ RegisterStores(m) \/ RegisterFails(m)
          \/ DeleteMachine(m) \/ AdminMachineDelete(m)
    \/ \E c \in Clients:
          \/ OpenTunnel(c) \/ EnsureAgentRunning(c) \/ ClientExits(c)
          \/ \E m \in Machines: Loads(c, m) \/ AgentStatus(c, m)
    \/ ConnectionEnds

Spec == Init /\ [][Next]_vars

-----------------------------------------------------------------------------
(* A call that is served by an agent with a token is for the host that the *)
(* machine was registered from, although the pool hands out whatever       *)
(* connection the address has: the bearer token tells the hosts apart.     *)
CallReachesOwnHost ==
    \A c \in Clients: Served(c) /\ agent[conn.host].token # None => conn.host = client[c].row.host

(* A call is served by an agent without a token only if _lifespan has read *)
(* config.yaml in a lapse: before the end of the first init on the host,   *)
(* while a command was rewriting the file, or after one has died.  Once    *)
(* the host has been initialised, its commands keep the file guarded.  (In *)
(* a lapse the agent may well have the registered port and no token: its   *)
(* two loads need not see the same file.)                                  *)
UnguardedOnlyAfterLapse ==
    \A c \in Clients: Served(c) /\ agent[conn.host].token = None => agent[conn.host].lapse

(* cmd_init: the token is reused so that another init does not invalidate  *)
(* a registration.  As long as no command dies halfway, the token of every *)
(* row is the one its host has, or is about to write.                      *)
TokenOutlivesInit ==
    crashes = 0 =>
        \A m \in Machines: row[m] # None =>
            LET h == row[m].host IN
            row[m].token \in {config[h].token, IF cli[h].at = "torn" THEN cli[h].new.token ELSE None}

(* The target owner's guide: running csl-agent init again does not         *)
(* invalidate the registration: the port that a row's tunnels end at and   *)
(* the key may reach is not taken away by an init.                         *)
InitKeepsRegistration ==
    [][\A m \in Machines, h \in Hosts:
         (row[m] # None /\ row[m].host = h /\ authorized[h] = row[m].port /\ authorized'[h] # None)
            => authorized'[h] = row[m].port]_vars
=============================================================================
