--------------------------- MODULE EnrolmentProofs ---------------------------
(***************************************************************************)
(* Proofs about enrolment, for any number of hosts that may answer at the  *)
(* address, machines, clients and ports: an agent with a token serves only *)
(* calls for its own host, one without has read its file in a lapse, and a *)
(* token outlives another init.                                            *)
(*                                                                         *)
(* No single fact of the model says so.  The argument follows the token of *)
(* a host from config.yaml through the commands in progress into the       *)
(* bundles and the agent (HostsOK, BundlesOK), and from the bundles into   *)
(* the rows and clients (RowsOK, ClientsOK): whoever has a token has that  *)
(* of its own host.                                                        *)
(***************************************************************************)
EXTENDS Enrolment, TLAPS

(* Tokens that a host draws, and configurations that it may have: the ones *)
(* that init writes, and that of an empty file.                            *)
TokensOf(h) == {h} \X (1..(MaxCrashes + 1))
ConfigOf(h) == {Defaults} \cup [port: InitPorts, token: TokensOf(h)]

(* What an agent of a host may have loaded.                                *)
AgentOf(h) ==
    {a \in Agent: /\ a.token \in TokensOf(h) \cup {None}
                  /\ a.at = "listening" /\ a.token = None => a.lapse}

HostsOK ==
    \A h \in Hosts:
        /\ config[h] \in ConfigOf(h)
        /\ cli[h].new \in ConfigOf(h)
        /\ cli[h].init => cli[h].new # Defaults
        /\ agent[h] \in AgentOf(h) \cup {None}

BundlesOK == \A b \in bundles: b.port \in InitPorts /\ b.token \in TokensOf(b.host)

(* The machines, and the registrations in progress, have bundles.          *)
RowsOK ==
    \A m \in Machines:
        /\ row[m] # None => row[m] \in bundles
        /\ reg[m].at # "idle" => reg[m].row \in bundles

(* So have the clients; tunnels die with their connection.                 *)
ClientsOK ==
    \A c \in Clients:
        /\ client[c].at # "idle" => client[c].row \in bundles
        /\ client[c].at = "tunnel" => conn \in Conn

(* A host draws a token again only when a command that died has lost the   *)
(* one it had, so the tokens of a host are bounded by the crashes; the     *)
(* ones in use have been drawn before.                                     *)
Drawn(h) == {h} \X (1..issued[h])

DrawnOK ==
    \A h \in Hosts:
        /\ config[h] # Defaults => config[h].token \in Drawn(h)
        /\ cli[h].new # Defaults => cli[h].new.token \in Drawn(h)
        /\ issued[h] <= crashes + 1
        /\ cli[h].at = "idle" /\ config[h] = Defaults => issued[h] <= crashes
        /\ cli[h].at # "idle" /\ cli[h].new = Defaults => issued[h] <= crashes

(* Until a command dies, the token of every bundle is the one that its     *)
(* host has or is about to write, and a command in progress keeps it.      *)
KeptOK ==
    crashes = 0 =>
        /\ \A h \in Hosts: cli[h].at # "idle" /\ config[h] # Defaults => cli[h].new.token = config[h].token
        /\ \A b \in bundles:
              b.token = IF cli[b.host].at = "torn" THEN cli[b.host].new.token ELSE config[b.host].token

IInv == TypeOK /\ HostsOK /\ BundlesOK /\ RowsOK /\ ClientsOK /\ DrawnOK /\ KeptOK
-----------------------------------------------------------------------------
(* The configurations of a host are configurations, and None is no token.  *)
LEMMA ConfigsTyped ==
    ASSUME NEW h \in Hosts
    PROVE  /\ TokensOf(h) \subseteq Tokens /\ None \notin TokensOf(h)
           /\ ConfigOf(h) \subseteq Config
           /\ \A c \in ConfigOf(h): c # Defaults <=> c.token # None
           /\ \A c \in ConfigOf(h): c # Defaults => c.port \in InitPorts /\ c.token \in TokensOf(h)
<1>1. TokensOf(h) \subseteq Tokens /\ None \notin TokensOf(h)
  BY NoTokenAssumption DEF TokensOf, Tokens
<1> HIDE DEF TokensOf
<1> QED BY <1>1 DEF ConfigOf, Config, Defaults, Ports

(* A control station without machines satisfies the invariant.             *)
LEMMA InitIInv == Init => IInv
<1> SUFFICES ASSUME Init PROVE IInv
  OBVIOUS
<1>1. Defaults \in Config
  BY DEF Defaults, Config, Ports
<1>2. TypeOK
  BY <1>1, CrashAssumption DEF Init, TypeOK, NoCommand, Idle
<1>3. HostsOK /\ BundlesOK /\ RowsOK /\ ClientsOK
  BY DEF Init, HostsOK, BundlesOK, RowsOK, ClientsOK, NoCommand, Idle, ConfigOf
<1>4. DrawnOK /\ KeptOK
  BY DEF Init, DrawnOK, KeptOK, NoCommand
<1> QED BY <1>2, <1>3, <1>4 DEF IInv

(* Steps of the control station do not touch what a target has.            *)
LEMMA TargetsKept ==
    ASSUME IInv, UNCHANGED <<hostVars, agent>>
    PROVE  HostsOK' /\ BundlesOK' /\ DrawnOK' /\ KeptOK'
BY DEF IInv, hostVars, HostsOK, BundlesOK, DrawnOK, Drawn, KeptOK

(* Steps on a target at most add to the bundles that the station relies on.*)
LEMMA StationKept ==
    ASSUME IInv, bundles \subseteq bundles', UNCHANGED serverVars
    PROVE  RowsOK' /\ ClientsOK'
BY DEF IInv, serverVars, RowsOK, ClientsOK

-----------------------------------------------------------------------------
(* What a step of a command on one host must show: the rest of the         *)
(* invariant is about the other hosts, and stays.                          *)
LEMMA CommandInv ==
    ASSUME IInv, NEW h \in Hosts, TypeOK',
           \A k \in Hosts \ {h}: cli'[k] = cli[k] /\ config'[k] = config[k] /\ issued'[k] = issued[k],
           UNCHANGED <<agent, dns, row, reg, conn, client>>,
           config'[h] \in ConfigOf(h), cli'[h].new \in ConfigOf(h),
           cli'[h].init => cli'[h].new # Defaults,
           config'[h] # Defaults => config'[h].token \in Drawn(h)',
           cli'[h].new # Defaults => cli'[h].new.token \in Drawn(h)',
           issued'[h] <= crashes' + 1,
           cli'[h].at = "idle" /\ config'[h] = Defaults => issued'[h] <= crashes',
           cli'[h].at # "idle" /\ cli'[h].new = Defaults => issued'[h] <= crashes',
           crashes' \in {crashes, crashes + 1},
           bundles \subseteq bundles',
           \A b \in bundles' \ bundles:
              b.host = h /\ b.port \in InitPorts /\ b.token \in TokensOf(h),
           crashes' = 0 /\ cli'[h].at # "idle" /\ config'[h] # Defaults => cli'[h].new.token = config'[h].token,
           crashes' = 0 => \A b \in bundles': b.host = h =>
              b.token = IF cli'[h].at = "torn" THEN cli'[h].new.token ELSE config'[h].token
    PROVE  IInv'
<1>0. crashes \in Nat /\ (crashes' = 0 => crashes = 0) /\ \A k \in Hosts: issued[k] \in Nat
  BY CrashAssumption DEF IInv, TypeOK
<1>1. HostsOK'
  BY DEF IInv, HostsOK
<1>2. BundlesOK'
  BY DEF IInv, BundlesOK
<1>3. RowsOK' /\ ClientsOK'
  BY StationKept DEF serverVars
<1>4. DrawnOK'
  BY <1>0 DEF IInv, DrawnOK, Drawn
<1>5. KeptOK'
  <2> SUFFICES ASSUME crashes' = 0
               PROVE  /\ \A k \in Hosts: cli'[k].at # "idle" /\ config'[k] # Defaults
                                            => cli'[k].new.token = config'[k].token
                      /\ \A b \in bundles': b.token = IF cli'[b.host].at = "torn"
                                                     THEN cli'[b.host].new.token ELSE config'[b.host].token
    BY DEF KeptOK
  <2>1. \A b \in bundles': b.host \in Hosts
    BY DEF TypeOK, Bundle
  <2> QED BY <1>0, <2>1 DEF IInv, KeptOK
<1> QED BY <1>1, <1>2, <1>3, <1>4, <1>5 DEF IInv

(* init chooses the token: the one in use, or a new one of this host.      *)
LEMMA InitReadsInv == ASSUME IInv, NEW h \in Hosts, NEW p \in InitPorts, InitReads(h, p) PROVE IInv'
<1> DEFINE new == [port |-> p, token |-> ApiToken(h)]
<1>0. /\ cli[h].at = "idle"
      /\ cli' = [cli EXCEPT ![h] = [at |-> "read", new |-> new, init |-> TRUE]]
      /\ issued' = [issued EXCEPT ![h] = IF ApiToken(h) = <<h, @ + 1>> THEN @ + 1 ELSE @]
      /\ UNCHANGED <<config, authorized, agent, bundles, dns, row, reg, conn, client, crashes>>
  BY DEF InitReads, Command, serverVars
<1>1. issued[h] \in Nat /\ crashes \in Nat /\ crashes <= MaxCrashes /\ issued[h] <= crashes + 1
      /\ issued \in [Hosts -> Nat]
  BY CrashAssumption DEF IInv, TypeOK, DrawnOK
<1>2. config[h] \in ConfigOf(h) /\ (config[h] # Defaults <=> config[h].token # None)
      /\ (config[h] # Defaults => config[h].token \in TokensOf(h))
  BY ConfigsTyped DEF IInv, HostsOK
<1>3. /\ config[h] = Defaults => ApiToken(h) = <<h, issued[h] + 1>> /\ issued[h] <= crashes
      /\ config[h] # Defaults => ApiToken(h) = config[h].token /\ ApiToken(h) # <<h, issued[h] + 1>>
  <2>1. config[h] # Defaults => config[h].token # <<h, issued[h] + 1>>
    BY <1>1 DEF IInv, DrawnOK, Drawn
  <2> QED BY <1>0, <1>2, <2>1 DEF IInv, DrawnOK, ApiToken, LoadConfig
<1>4. new \in ConfigOf(h) /\ new # Defaults /\ new.token = ApiToken(h)
  <2>1. ApiToken(h) \in TokensOf(h) /\ ApiToken(h) # None
    BY <1>1, <1>2, <1>3, CrashAssumption, ConfigsTyped DEF TokensOf
  <2> QED BY <2>1 DEF ConfigOf, Defaults
<1>5. /\ issued'[h] = IF config[h] = Defaults THEN issued[h] + 1 ELSE issued[h]
      /\ \A k \in Hosts \ {h}: issued'[k] = issued[k]
  BY <1>0, <1>1, <1>3
<1>6. issued'[h] <= crashes + 1 /\ issued'[h] \in 0..(MaxCrashes + 1)
  BY <1>1, <1>3, <1>5, CrashAssumption
<1> HIDE DEF new
<1>7. cli'[h] = [at |-> "read", new |-> new, init |-> TRUE] /\ \A k \in Hosts \ {h}: cli'[k] = cli[k]
  BY <1>0 DEF IInv, TypeOK
<1>8. TypeOK'
  <2>1. issued' \in [Hosts -> 0..(MaxCrashes + 1)]
    BY <1>0, <1>5, <1>6 DEF IInv, TypeOK
  <2>2. new \in Config
    BY <1>4, ConfigsTyped
  <2>3. cli' \in [Hosts -> [at: {"idle", "read", "authorized", "rewrite", "torn"}, new: Config, init: BOOLEAN]]
    BY <1>0, <2>2 DEF IInv, TypeOK
  <2> QED BY <1>0, <2>1, <2>3 DEF IInv, TypeOK
<1>9. (config[h] # Defaults => config[h].token \in Drawn(h)') /\ new.token \in Drawn(h)'
  BY <1>1, <1>3, <1>4, <1>5 DEF IInv, DrawnOK, Drawn
<1>10. crashes = 0 => \A b \in bundles: b.host = h => b.token = config[h].token
  BY <1>0 DEF IInv, KeptOK
<1>11. /\ config' = config /\ bundles' = bundles /\ crashes' = crashes
       /\ UNCHANGED <<agent, dns, row, reg, conn, client>>
  BY <1>0
<1> QED BY <1>2, <1>3, <1>4, <1>5, <1>6, <1>7, <1>8, <1>9, <1>10, <1>11, CommandInv

(* What the invariant says about the command of one host.                  *)
LEMMA HostFacts ==
    ASSUME IInv, NEW h \in Hosts
    PROVE  /\ config[h] \in ConfigOf(h) /\ cli[h].new \in ConfigOf(h)
           /\ cli[h].init => cli[h].new # Defaults
           /\ config[h] # Defaults => config[h].token \in Drawn(h)
           /\ cli[h].new # Defaults => cli[h].new.token \in Drawn(h)
           /\ issued[h] \in Nat /\ crashes \in Nat
           /\ issued[h] <= crashes + 1
           /\ cli[h].at = "idle" /\ config[h] = Defaults => issued[h] <= crashes
           /\ cli[h].at # "idle" /\ cli[h].new = Defaults => issued[h] <= crashes
           /\ crashes = 0 /\ cli[h].at # "idle" /\ config[h] # Defaults => cli[h].new.token = config[h].token
           /\ crashes = 0 => \A b \in bundles: b.host = h =>
                b.token = IF cli[h].at = "torn" THEN cli[h].new.token ELSE config[h].token
           /\ \A b \in bundles: b.host = h => b.token # None
<1>1. issued[h] \in Nat /\ crashes \in Nat
  BY CrashAssumption DEF IInv, TypeOK
<1>2. \A b \in bundles: b.host = h => b.token # None
  BY ConfigsTyped DEF IInv, BundlesOK
<1> QED BY <1>1, <1>2 DEF IInv, HostsOK, DrawnOK, KeptOK

(* The key's line is replaced: the configuration is as it was.             *)
LEMMA AppendInv == ASSUME IInv, NEW h \in Hosts, AppendAuthorizedKeys(h) PROVE IInv'
<1>0. /\ cli[h].at = "read" /\ cli[h].init
      /\ authorized' = [authorized EXCEPT ![h] = cli[h].new.port]
      /\ cli' = [cli EXCEPT ![h] = [cli[h] EXCEPT !.at = "rewrite"]]
      /\ UNCHANGED <<config, agent, bundles, dns, row, reg, conn, client, issued, crashes>>
  BY DEF AppendAuthorizedKeys, Command, serverVars
<1>1. /\ cli'[h].at = "rewrite" /\ cli'[h].new = cli[h].new /\ cli'[h].init = cli[h].init
      /\ \A k \in Hosts \ {h}: cli'[k] = cli[k]
  BY <1>0 DEF IInv, TypeOK
<1>2. TypeOK'
  <2>1. cli[h].new.port \in Ports
    BY DEF IInv, TypeOK, Config
  <2>2. authorized' \in [Hosts -> Ports \cup {None}]
    BY <1>0, <2>1 DEF IInv, TypeOK
  <2>3. cli' \in [Hosts -> [at: {"idle", "read", "authorized", "rewrite", "torn"}, new: Config, init: BOOLEAN]]
    BY <1>0 DEF IInv, TypeOK
  <2> QED BY <1>0, <2>2, <2>3 DEF IInv, TypeOK
<1> QED BY <1>0, <1>1, <1>2, HostFacts, CommandInv DEF Drawn

(* policy writes back what it has read.                                    *)
LEMMA PolicyInv == ASSUME IInv, NEW h \in Hosts, PolicySetEntry(h) PROVE IInv'
<1>0. /\ cli[h].at = "idle"
      /\ cli' = [cli EXCEPT ![h] = [at |-> "rewrite", new |-> config[h], init |-> FALSE]]
      /\ UNCHANGED <<config, authorized, agent, bundles, dns, row, reg, conn, client, issued, crashes>>
  BY DEF PolicySetEntry, Command, LoadConfig, serverVars
<1>1. /\ cli'[h].at = "rewrite" /\ cli'[h].new = config[h] /\ ~cli'[h].init
      /\ \A k \in Hosts \ {h}: cli'[k] = cli[k]
  BY <1>0 DEF IInv, TypeOK
<1>2. TypeOK'
  <2>1. cli' \in [Hosts -> [at: {"idle", "read", "authorized", "rewrite", "torn"}, new: Config, init: BOOLEAN]]
    BY <1>0 DEF IInv, TypeOK
  <2> QED BY <1>0, <2>1 DEF IInv, TypeOK
<1> QED BY <1>0, <1>1, <1>2, HostFacts, CommandInv DEF Drawn

(* The file is empty: the token is in the command that is going to write.  *)
LEMMA TruncatedInv == ASSUME IInv, NEW h \in Hosts, ConfigTruncated(h) PROVE IInv'
<1>0. /\ cli[h].at = "rewrite"
      /\ config' = [config EXCEPT ![h] = Defaults]
      /\ cli' = [cli EXCEPT ![h] = [cli[h] EXCEPT !.at = "torn"]]
      /\ UNCHANGED <<authorized, agent, bundles, dns, row, reg, conn, client, issued, crashes>>
  BY DEF ConfigTruncated, Command, serverVars
<1>1. /\ cli'[h].at = "torn" /\ cli'[h].new = cli[h].new /\ cli'[h].init = cli[h].init
      /\ config'[h] = Defaults
      /\ \A k \in Hosts \ {h}: cli'[k] = cli[k] /\ config'[k] = config[k]
  BY <1>0 DEF IInv, TypeOK
<1>2. Defaults \in ConfigOf(h) /\ Defaults \in Config /\ Defaults.token = None
  BY ConfigsTyped DEF ConfigOf, Defaults
<1>3. TypeOK'
  <2>1. cli' \in [Hosts -> [at: {"idle", "read", "authorized", "rewrite", "torn"}, new: Config, init: BOOLEAN]]
    BY <1>0 DEF IInv, TypeOK
  <2>2. config' \in [Hosts -> Config]
    BY <1>0, <1>2 DEF IInv, TypeOK
  <2> QED BY <1>0, <2>1, <2>2 DEF IInv, TypeOK
<1>4. crashes = 0 => \A b \in bundles: b.host = h => b.token = cli[h].new.token
  BY <1>0, <1>2, HostFacts
<1> QED BY <1>0, <1>1, <1>2, <1>3, <1>4, HostFacts, CommandInv DEF Drawn

(* The file is whole again, and init prints its bundle.                    *)
LEMMA WriteConfigInv == ASSUME IInv, NEW h \in Hosts, WriteConfig(h) PROVE IInv'
<1> DEFINE new == cli[h].new
           b0 == [host |-> h, port |-> new.port, token |-> new.token]
<1>0. /\ cli[h].at = "torn"
      /\ config' = [config EXCEPT ![h] = new]
      /\ bundles' = IF cli[h].init THEN bundles \cup {b0} ELSE bundles
      /\ cli' = [cli EXCEPT ![h] = NoCommand]
      /\ UNCHANGED <<authorized, agent, dns, row, reg, conn, client, issued, crashes>>
  BY DEF WriteConfig, Command, serverVars
<1>1. /\ cli'[h] = NoCommand /\ config'[h] = new
      /\ \A k \in Hosts \ {h}: cli'[k] = cli[k] /\ config'[k] = config[k]
  BY <1>0 DEF IInv, TypeOK
<1>2. Defaults \in ConfigOf(h) /\ Defaults \in Config /\ new \in ConfigOf(h) /\ new \in Config
      /\ (cli[h].init => new.port \in InitPorts /\ new.token \in TokensOf(h) /\ new.token \in Tokens)
  BY ConfigsTyped, HostFacts DEF ConfigOf
<1>3. TypeOK'
  <2>1. cli' \in [Hosts -> [at: {"idle", "read", "authorized", "rewrite", "torn"}, new: Config, init: BOOLEAN]]
    BY <1>0, <1>2 DEF IInv, TypeOK, NoCommand
  <2>2. config' \in [Hosts -> Config]
    BY <1>0, <1>2 DEF IInv, TypeOK
  <2>3. bundles' \subseteq Bundle
    BY <1>0, <1>2 DEF IInv, TypeOK, Bundle, Ports
  <2> QED BY <1>0, <2>1, <2>2, <2>3 DEF IInv, TypeOK
<1>4. \A b \in bundles' \ bundles: /\ b.host = h /\ b.port \in InitPorts /\ b.token \in TokensOf(h)
                                  /\ b.token = new.token
  BY <1>0, <1>2
<1>5. crashes = 0 => \A b \in bundles': b.host = h => b.token = new.token
  BY <1>0, <1>4, HostFacts
<1>6. bundles \subseteq bundles'
  BY <1>0
<1>7. cli'[h].at = "idle" /\ cli'[h].new = Defaults /\ ~cli'[h].init
  BY <1>1 DEF NoCommand
<1> QED BY <1>0, <1>1, <1>2, <1>3, <1>4, <1>5, <1>6, <1>7, HostFacts, CommandInv DEF Drawn

(* A command dies: the next one may have to draw another token.            *)
LEMMA CommandDiesInv == ASSUME IInv, NEW h \in Hosts, CommandDies(h) PROVE IInv'
<1>0. /\ crashes < MaxCrashes /\ crashes' = crashes + 1
      /\ cli' = [cli EXCEPT ![h] = NoCommand]
      /\ UNCHANGED <<config, authorized, agent, bundles, dns, row, reg, conn, client, issued>>
  BY DEF CommandDies, Command, serverVars
<1>1. /\ cli'[h].at = "idle" /\ cli'[h].new = Defaults /\ ~cli'[h].init
      /\ \A k \in Hosts \ {h}: cli'[k] = cli[k]
  BY <1>0 DEF IInv, TypeOK, NoCommand
<1>2. Defaults \in ConfigOf(h) /\ Defaults \in Config
  BY ConfigsTyped DEF ConfigOf
<1>3. TypeOK'
  <2>1. cli' \in [Hosts -> [at: {"idle", "read", "authorized", "rewrite", "torn"}, new: Config, init: BOOLEAN]]
    BY <1>0, <1>2 DEF IInv, TypeOK, NoCommand
  <2>2. crashes' \in 0..MaxCrashes
    BY <1>0, CrashAssumption DEF IInv, TypeOK
  <2> QED BY <1>0, <2>1, <2>2 DEF IInv, TypeOK
<1>4. crashes \in Nat /\ issued[h] \in Nat /\ crashes' # 0 /\ issued[h] <= crashes'
  BY <1>0, HostFacts
<1>5. issued'[h] <= crashes' + 1 /\ issued'[h] <= crashes'
  BY <1>0, <1>4
<1> QED BY <1>0, <1>1, <1>2, <1>3, <1>4, <1>5, HostFacts, CommandInv DEF Drawn

-----------------------------------------------------------------------------
(* The owner revokes the key, or the address is pointed elsewhere: neither *)
(* the configurations nor what the station holds are touched.              *)
LEMMA ElsewhereInv ==
    ASSUME IInv, UNCHANGED <<config, agent, cli, bundles, row, reg, conn, client, issued, crashes>>,
           authorized' \in [Hosts -> Ports \cup {None}], dns' \in Hosts
    PROVE  IInv'
<1>1. TypeOK'
  BY DEF IInv, TypeOK
<1>2. HostsOK' /\ BundlesOK' /\ DrawnOK' /\ KeptOK'
  BY DEF IInv, HostsOK, BundlesOK, DrawnOK, Drawn, KeptOK
<1>3. RowsOK' /\ ClientsOK'
  BY StationKept DEF serverVars
<1> QED BY <1>1, <1>2, <1>3 DEF IInv

(* A step of an agent leaves it with what an agent of its host may have.   *)
LEMMA AgentInv ==
    ASSUME IInv, NEW h \in Hosts, NEW a \in AgentOf(h) \cup {None}, agent' = [agent EXCEPT ![h] = a],
           UNCHANGED <<hostVars, dns, serverVars>>
    PROVE  IInv'
<1>0. UNCHANGED <<config, authorized, cli, bundles, issued, crashes, dns, row, reg, conn, client>>
  BY DEF hostVars, serverVars
<1>1. agent'[h] = a /\ \A k \in Hosts \ {h}: agent'[k] = agent[k]
  BY DEF IInv, TypeOK
<1>2. TypeOK'
  <2>1. agent' \in [Hosts -> Agent \cup {None}]
    BY DEF IInv, TypeOK, AgentOf
  <2> QED BY <1>0, <2>1 DEF IInv, TypeOK
<1>3. HostsOK'
  BY <1>0, <1>1 DEF IInv, HostsOK
<1>4. BundlesOK' /\ DrawnOK' /\ KeptOK'
  BY <1>0 DEF IInv, BundlesOK, DrawnOK, Drawn, KeptOK
<1>5. RowsOK' /\ ClientsOK'
  BY <1>0, StationKept DEF serverVars
<1> QED BY <1>2, <1>3, <1>4, <1>5 DEF IInv

(* An agent that starts, by hand or for a client, has no token yet.        *)
LEMMA MainInv == ASSUME IInv, NEW h \in Hosts, Main(h) PROVE IInv'
<1> DEFINE a == [at |-> "starting", port |-> config[h].port, token |-> None, lapse |-> FALSE]
<1>1. config[h].port \in Ports
  BY DEF IInv, TypeOK, Config
<1>2. a \in AgentOf(h)
  BY <1>1 DEF AgentOf, Agent
<1>3. agent' = [agent EXCEPT ![h] = a] /\ UNCHANGED <<hostVars, dns, serverVars>>
  BY DEF Main, LoadConfig
<1> HIDE DEF a
<1> QED BY <1>2, <1>3, AgentInv

(* The file of a host has no token only in a lapse: otherwise it has that  *)
(* of the bundle which the host has printed.                               *)
LEMMA GuardedOutsideLapse ==
    ASSUME IInv, NEW h \in Hosts, config[h].token = None
    PROVE  Lapse(h)
<1> SUFFICES ASSUME NEW b \in bundles, b.host = h, cli[h].at # "torn", ~(crashes > 0)
             PROVE  FALSE
  BY DEF Lapse
<1>1. crashes = 0
  BY HostFacts
<1>2. b.token = config[h].token /\ b.token # None
  BY <1>1, HostFacts
<1> QED BY <1>2

(* An agent that listens has the token of its host's file.                 *)
LEMMA LifespanInv == ASSUME IInv, NEW h \in Hosts, Lifespan(h) PROVE IInv'
<1> DEFINE token == config[h].token
           a == [at |-> "listening", port |-> agent[h].port, token |-> token,
                 lapse |-> token = None /\ Lapse(h)]
<1>1. agent[h].port \in Ports
  BY DEF Lifespan, IInv, TypeOK, Agent
<1>2. token \in TokensOf(h) \cup {None} /\ token \in Tokens \cup {None}
  BY HostFacts, ConfigsTyped
<1>3. token = None => Lapse(h)
  BY GuardedOutsideLapse
<1>4. agent' = [agent EXCEPT ![h] = a] /\ UNCHANGED <<hostVars, dns, serverVars>>
  BY DEF Lifespan, LoadConfig
<1>5. a \in AgentOf(h)
  <2> HIDE DEF token
  <2> QED BY <1>1, <1>2, <1>3 DEF AgentOf, Agent, Lapse
<1> HIDE DEF a
<1> QED BY <1>4, <1>5, AgentInv

(* The types of what the station keeps.                                    *)
Entry       == [at: {"idle", "decoded", "tested"}, row: Bundle \cup {None}]
ClientState == [at: {"idle", "loaded", "tunnel"}, row: Bundle \cup {None}]
TablesTyped == row \in [Machines -> Bundle \cup {None}] /\ reg \in [Machines -> Entry]
PoolTyped   == conn \in Conn \cup {None} /\ client \in [Clients -> ClientState]

(* Steps of the station keep the invariant if what they put into its       *)
(* tables comes from a bundle and tunnels have a connection.               *)
LEMMA StationInv ==
    ASSUME IInv, UNCHANGED <<hostVars, agent, dns>>, TablesTyped', PoolTyped', RowsOK', ClientsOK'
    PROVE  IInv'
<1>1. TypeOK'
  BY DEF IInv, TypeOK, hostVars, TablesTyped, PoolTyped, Entry, ClientState
<1>2. HostsOK' /\ BundlesOK' /\ DrawnOK' /\ KeptOK'
  BY TargetsKept
<1> QED BY <1>1, <1>2 DEF IInv

(* The invariant types the tables and the pool of the station.             *)
LEMMA StationTyped == IInv => TablesTyped /\ PoolTyped /\ bundles \subseteq Bundle
BY DEF IInv, TypeOK, TablesTyped, PoolTyped, Entry, ClientState

(* Registrations take bundles that were printed, and store what they took. *)
LEMMA RegistrationInv ==
    ASSUME IInv, NEW m \in Machines,
           \/ \E b \in bundles: RegisterMachine(m, b)
           \/ SshConnectionTest(m) \/ RegisterStores(m) \/ RegisterFails(m) \/ DeleteMachine(m)
    PROVE  IInv'
<1>0. /\ UNCHANGED <<hostVars, agent, dns>> /\ UNCHANGED <<conn, client, bundles>>
      /\ row \in [Machines -> Bundle \cup {None}] /\ reg \in [Machines -> Entry] /\ bundles \subseteq Bundle
  BY StationTyped
     DEF TablesTyped, RegisterMachine, SshConnectionTest, RegisterStores, RegisterFails, DeleteMachine, hostVars
<1>1. PICK e \in Entry: reg' = [reg EXCEPT ![m] = e] /\ (e.at # "idle" => e.row \in bundles)
  <2>1. ASSUME NEW b \in bundles, RegisterMachine(m, b)
        PROVE  \E e \in Entry: reg' = [reg EXCEPT ![m] = e] /\ (e.at # "idle" => e.row \in bundles)
    <3> DEFINE e == [at |-> "decoded", row |-> b]
    <3>1. e \in Entry /\ e.row = b
      BY <1>0 DEF Entry
    <3>2. reg' = [reg EXCEPT ![m] = e]
      BY <2>1 DEF RegisterMachine
    <3> HIDE DEF e
    <3> QED BY <3>1, <3>2
  <2>2. CASE SshConnectionTest(m)
    <3> DEFINE e == [reg[m] EXCEPT !.at = "tested"]
    <3>1. e \in Entry /\ e.row = reg[m].row
      BY <1>0 DEF Entry
    <3>2. reg[m].row \in bundles
      BY <2>2 DEF SshConnectionTest, IInv, RowsOK
    <3>3. reg' = [reg EXCEPT ![m] = e]
      BY <2>2 DEF SshConnectionTest
    <3> HIDE DEF e
    <3> QED BY <3>1, <3>2, <3>3
  <2>3. CASE RegisterStores(m) \/ RegisterFails(m)
    BY <2>3 DEF RegisterStores, RegisterFails, Idle, Entry
  <2>4. CASE DeleteMachine(m)
    <3>1. reg' = [reg EXCEPT ![m] = reg[m]] /\ reg[m] \in Entry
      BY <1>0, <2>4 DEF DeleteMachine
    <3> QED BY <3>1 DEF IInv, RowsOK
  <2> QED BY <2>1, <2>2, <2>3, <2>4
<1>2. PICK w \in bundles \cup {None, row[m]}: row' = [row EXCEPT ![m] = w]
  <2>1. CASE RegisterStores(m)
    BY <2>1 DEF RegisterStores, IInv, RowsOK
  <2>2. CASE DeleteMachine(m)
    BY <2>2 DEF DeleteMachine
  <2>3. CASE UNCHANGED row
    BY <1>0, <2>3
  <2> QED BY <2>1, <2>2, <2>3 DEF RegisterMachine, SshConnectionTest, RegisterFails
<1>3. TablesTyped' /\ PoolTyped'
  BY <1>0, <1>1, <1>2, StationTyped DEF TablesTyped, PoolTyped
<1>4. /\ row'[m] = w /\ reg'[m] = e
      /\ \A k \in Machines \ {m}: row'[k] = row[k] /\ reg'[k] = reg[k]
  BY <1>0, <1>1, <1>2
<1>5. RowsOK' /\ ClientsOK'
  BY <1>0, <1>1, <1>2, <1>4 DEF IInv, RowsOK, ClientsOK
<1> QED BY <1>0, <1>3, <1>5, StationInv

(* A client is made for a row; a tunnel has a connection, and a connection *)
(* that ends takes its tunnels along.                                      *)
LEMMA ClientInv ==
    ASSUME IInv,
           \/ \E c \in Clients: OpenTunnel(c) \/ ClientExits(c) \/ \E m \in Machines: Loads(c, m)
           \/ ConnectionEnds
    PROVE  IInv'
<1>0. UNCHANGED <<hostVars, agent, dns>> /\ UNCHANGED <<row, reg, bundles>>
  BY DEF OpenTunnel, ClientExits, Loads, ConnectionEnds, hostVars
<1>1. TablesTyped' /\ RowsOK'
  BY <1>0, StationTyped DEF TablesTyped, IInv, RowsOK
<1>2. client \in [Clients -> ClientState] /\ conn \in Conn \cup {None} /\ bundles \subseteq Bundle
  BY StationTyped DEF PoolTyped
<1>3. \A c \in Clients: /\ client[c].at # "idle" => client[c].row \in bundles
                        /\ client[c].at = "tunnel" => conn \in Conn
  BY DEF IInv, ClientsOK
<1>4. ASSUME NEW c \in Clients, OpenTunnel(c) PROVE PoolTyped' /\ ClientsOK'
  <2>1. conn' \in Conn
    <3>1. CASE conn # None /\ UNCHANGED conn
      BY <1>2, <3>1
    <3>2. CASE Admits(dns, client[c].row) /\ conn' = [host |-> dns, permit |-> authorized[dns]]
      BY <3>2 DEF Admits, Conn, IInv, TypeOK
    <3> QED BY <1>4, <3>1, <3>2 DEF OpenTunnel
  <2>2. /\ client'[c].at = "tunnel" /\ client'[c].row = client[c].row /\ client[c].at = "loaded"
        /\ \A d \in Clients \ {c}: client'[d] = client[d]
        /\ client' \in [Clients -> ClientState]
    BY <1>2, <1>4 DEF OpenTunnel, ClientState
  <2> QED BY <1>0, <1>3, <2>1, <2>2 DEF PoolTyped, ClientsOK
<1>5. ASSUME NEW c \in Clients, NEW e \in ClientState, client' = [client EXCEPT ![c] = e], UNCHANGED conn,
             e.at # "tunnel", e.at # "idle" => e.row \in bundles
      PROVE  PoolTyped' /\ ClientsOK'
  <2>1. client'[c] = e /\ \A d \in Clients \ {c}: client'[d] = client[d]
    BY <1>2, <1>5
  <2>2. client' \in [Clients -> ClientState]
    BY <1>2, <1>5
  <2> QED BY <1>0, <1>2, <1>3, <1>5, <2>1, <2>2 DEF PoolTyped, ClientsOK
<1>6. ASSUME NEW c \in Clients, ClientExits(c) PROVE PoolTyped' /\ ClientsOK'
  <2>1. Idle \in ClientState /\ Idle.at = "idle"
    BY DEF Idle, ClientState
  <2>2. client' = [client EXCEPT ![c] = Idle] /\ UNCHANGED conn
    BY <1>6 DEF ClientExits
  <2> QED BY <1>5, <2>1, <2>2
<1>7. ASSUME NEW c \in Clients, NEW m \in Machines, Loads(c, m) PROVE PoolTyped' /\ ClientsOK'
  <2> DEFINE e == [at |-> "loaded", row |-> row[m]]
  <2>1. row[m] \in bundles
    BY <1>7 DEF Loads, IInv, RowsOK
  <2>2. e \in ClientState /\ e.at = "loaded" /\ e.row = row[m]
    BY <1>2, <2>1 DEF ClientState
  <2>3. client' = [client EXCEPT ![c] = e] /\ UNCHANGED conn
    BY <1>7 DEF Loads
  <2> HIDE DEF e
  <2> QED BY <1>5, <2>1, <2>2, <2>3
<1>8. ASSUME ConnectionEnds PROVE PoolTyped' /\ ClientsOK'
  <2>1. conn' = None /\ client' = [c \in Clients |-> IF client[c].at = "tunnel" THEN Idle ELSE client[c]]
    BY <1>8 DEF ConnectionEnds
  <2>2. Idle \in ClientState /\ Idle.at = "idle"
    BY DEF Idle, ClientState
  <2>3. client' \in [Clients -> ClientState] /\ \A c \in Clients: client'[c] \in {Idle, client[c]} /\ client'[c].at # "tunnel"
    BY <1>2, <2>1, <2>2
  <2> QED BY <1>0, <1>3, <2>1, <2>2, <2>3 DEF PoolTyped, ClientsOK
<1>9. PoolTyped' /\ ClientsOK'
  BY <1>4, <1>6, <1>7, <1>8
<1> QED BY <1>0, <1>1, <1>9, StationInv

-----------------------------------------------------------------------------
(* Every step keeps the invariant.                                         *)
LEMMA NextIInv == IInv /\ [Next]_vars => IInv'
<1> SUFFICES ASSUME IInv, [Next]_vars PROVE IInv'
  OBVIOUS
<1>1. ASSUME NEW h \in Hosts, \E p \in InitPorts: InitReads(h, p) PROVE IInv'
  BY <1>1, InitReadsInv
<1>2. ASSUME NEW h \in Hosts, AppendAuthorizedKeys(h) \/ PolicySetEntry(h) \/ ConfigTruncated(h)
                               \/ WriteConfig(h) \/ CommandDies(h)
      PROVE  IInv'
  BY <1>2, AppendInv, PolicyInv, TruncatedInv, WriteConfigInv, CommandDiesInv
<1>3. ASSUME NEW h \in Hosts, OwnerRevokes(h) PROVE IInv'
  <2>1. authorized' \in [Hosts -> Ports \cup {None}] /\ dns' \in Hosts
    BY <1>3 DEF OwnerRevokes, IInv, TypeOK
  <2>2. UNCHANGED <<config, agent, cli, bundles, row, reg, conn, client, issued, crashes>>
    BY <1>3 DEF OwnerRevokes, serverVars
  <2> QED BY <2>1, <2>2, ElsewhereInv
<1>4. ASSUME NEW h \in Hosts, AddressMoves(h) PROVE IInv'
  <2>1. authorized' \in [Hosts -> Ports \cup {None}] /\ dns' \in Hosts
    BY <1>4 DEF AddressMoves, hostVars, IInv, TypeOK
  <2>2. UNCHANGED <<config, agent, cli, bundles, row, reg, conn, client, issued, crashes>>
    BY <1>4 DEF AddressMoves, hostVars, serverVars
  <2> QED BY <2>1, <2>2, ElsewhereInv
<1>5. ASSUME NEW h \in Hosts, AgentStarts(h) \/ Lifespan(h) \/ AgentStops(h) PROVE IInv'
  BY <1>5, MainInv, LifespanInv, AgentInv DEF AgentStarts, AgentStops
<1>6. ASSUME NEW c \in Clients, EnsureAgentRunning(c) PROVE IInv'
  <2>1. conn.host \in Hosts
    BY <1>6 DEF EnsureAgentRunning, IInv, ClientsOK, Conn
  <2> QED BY <1>6, <2>1, MainInv DEF EnsureAgentRunning
<1>7. ASSUME NEW m \in Machines,
             \/ \E b \in bundles: RegisterMachine(m, b) \/ AdminMachineNewSubmit(m, b)
             \/ SshConnectionTest(m) \/ RegisterStores(m) \/ RegisterFails(m)
             \/ DeleteMachine(m) \/ AdminMachineDelete(m)
      PROVE  IInv'
  BY <1>7, RegistrationInv DEF AdminMachineNewSubmit, AdminMachineDelete
<1>8. ASSUME NEW c \in Clients,
             \/ OpenTunnel(c) \/ ClientExits(c)
             \/ \E m \in Machines: Loads(c, m) \/ AgentStatus(c, m)
      PROVE  IInv'
  BY <1>8, ClientInv DEF AgentStatus
<1>9. CASE ConnectionEnds
  BY <1>9, ClientInv
<1>10. CASE UNCHANGED vars
  BY <1>10 DEF vars, IInv, TypeOK, HostsOK, BundlesOK, RowsOK, ClientsOK, DrawnOK, Drawn, KeptOK
<1> QED BY <1>1, <1>2, <1>3, <1>4, <1>5, <1>6, <1>7, <1>8, <1>9, <1>10 DEF Next

(* Every reachable state satisfies the invariant.                          *)
LEMMA Invariant == Spec => []IInv
<1> QED BY InitIInv, NextIInv, PTL DEF Spec

(* An agent with a token that serves a call has the token of the row, and  *)
(* both are its host's; one without has listened since a lapse.            *)
LEMMA ServedFacts ==
    ASSUME IInv, NEW c \in Clients, Served(c)
    PROVE  /\ agent[conn.host].token # None => conn.host = client[c].row.host
           /\ agent[conn.host].token = None => agent[conn.host].lapse
<1> DEFINE r == client[c].row
           a == agent[conn.host]
<1>1. r \in bundles /\ conn \in Conn /\ conn.host \in Hosts
  BY DEF Served, IInv, ClientsOK, Conn
<1>2. r.token \in TokensOf(r.host)
  BY <1>1 DEF IInv, BundlesOK
<1>3. a \in AgentOf(conn.host) /\ a.at = "listening"
  BY <1>1 DEF Served, IInv, HostsOK
<1>4. ASSUME a.token # None PROVE conn.host = r.host
  <2>1. a.token \in TokensOf(conn.host) /\ a.token = r.token
    BY <1>3, <1>4 DEF Served, AuthMiddleware, AgentOf
  <2> QED BY <1>2, <2>1 DEF TokensOf
<1>5. a.token = None => a.lapse
  BY <1>3 DEF AgentOf
<1> QED BY <1>4, <1>5

-----------------------------------------------------------------------------
(* The variables keep their types; in particular a host draws at most one  *)
(* token more than commands died.                                          *)
THEOREM TypeCorrect == Spec => []TypeOK
<1>1. IInv => TypeOK
  BY DEF IInv
<1> QED BY <1>1, Invariant, PTL

(* A call that is served by an agent with a token is for the host that its *)
(* machine was registered from, whichever connection the pool hands out.   *)
THEOREM CallsCorrect == Spec => []CallReachesOwnHost
<1>1. IInv => CallReachesOwnHost
  BY ServedFacts DEF CallReachesOwnHost
<1> QED BY <1>1, Invariant, PTL

(* A call is served by an agent without a token only if that agent read    *)
(* config.yaml before the first init of its host had come to its end,      *)
(* while a command was rewriting the file, or after one had died.          *)
THEOREM GuardCorrect == Spec => []UnguardedOnlyAfterLapse
<1>1. IInv => UnguardedOnlyAfterLapse
  BY ServedFacts DEF UnguardedOnlyAfterLapse
<1> QED BY <1>1, Invariant, PTL

(* Until a command dies halfway, every row has the token that its host     *)
(* has or is about to write.                                               *)
THEOREM TokensCorrect == Spec => []TokenOutlivesInit
<1>1. IInv => TokenOutlivesInit
  BY DEF IInv, RowsOK, KeptOK, TokenOutlivesInit
<1> QED BY <1>1, Invariant, PTL
=============================================================================
