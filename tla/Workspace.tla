----------------------------- MODULE Workspace -----------------------------
(***************************************************************************)
(* One workspace on a machine: configs/gateway.json, the directories of    *)
(* its personas, tmp/gateway.pid and its systemd unit, and the processes   *)
(* that work on them: the commands of an operator (engine/cli), the        *)
(* gateway, which an operator or systemd starts, and systemd itself.       *)
(*                                                                         *)
(* Nothing is locked and no file is replaced atomically: a file is         *)
(* truncated, then written, and a directory removed entry by entry, so     *)
(* others read in between and a process can end in between.  Each step     *)
(* here reads at most one file and begins or ends one write.               *)
(***************************************************************************)
EXTENDS Naturals, FiniteSets, FiniteSetsExt

CONSTANTS
  MaxPersonas,  \* bound: personas that exist at a time
  MaxProcs,     \* bound: processes that live at a time
  Domain,       \* mail domains, "localhost" among them
  MaxCuts       \* bound: kills of the service's process and restarts asked of it

ASSUME LocalDomain == "localhost" \in Domain /\ {"absent", "torn"} \cap Domain = {}
ASSUME WorkspaceBounds == MaxPersonas \in Nat \ {0} /\ MaxCuts \in Nat
                            /\ MaxProcs \in Nat \ {0, 1}

Persona == 1 .. MaxPersonas
Proc    == 1 .. MaxProcs
Main    == 1                  \* the slot of the process systemd starts
Command == Proc \ {Main}

VARIABLES
  config,    \* configs/gateway.json: mailDomain and relay.enabled
  personas,  \* what each persona's directory holds: the domain of its address
  pidFile,   \* the process tmp/gateway.pid names, 0 when it names none that lives
  procs,     \* the processes
  service,   \* the unit: installed or not, its state, what MaxCuts bounds
  causes     \* what the properties have to allow for: addresses written only in
             \* "partial" by commands that raced, threw, were cut off or write
             \* the first persona alone; a gateway started "beside" another

vars == <<config, personas, pidFile, procs, service, causes>>

Config(file, domain, relay) == [file |-> file, domain |-> domain, relay |-> relay]
Template == Config("whole", "localhost", FALSE)
NoConfig == Config("missing", "localhost", FALSE)
TornConfig == Config("torn", "torn", FALSE)  \* nothing can be read from it

\* step: where a process stands; persona: the one it writes; todo: those it
\* has yet to; config: what it read, or is writing; bound: it has the port.
Idle == [kind |-> "none", step |-> "idle", persona |-> 0, todo |-> {},
         config |-> NoConfig, bound |-> FALSE]

Step == {"idle", "fill", "remove", "configure", "configuring", "list", "update",
         "updating", "boot", "listen", "serving", "half", "dying", "install"}

Init ==
  /\ config \in {NoConfig, Template}
  /\ personas = [p \in Persona |-> "absent"]
  /\ pidFile = 0
  /\ procs = [n \in Proc |-> Idle]
  /\ service = [installed |-> FALSE, state |-> "inactive", cuts |-> 0]
  /\ causes = {}

-----------------------------------------------------------------------------
(* What is read. *)

Present == {p \in Persona : personas[p] # "absent"}

\* listPersonas throws when one directory has no readable persona.json.
Lists == \A p \in Present : personas[p] \in Domain

\* validateGatewayRuntimeConfig.
Valid(c) == c.file = "whole" /\ ~(c.relay /\ c.domain = "localhost")

\* Wrong variant: the domain is taken from a broken file, too.
DomainOfAny(c) == IF c.file = "missing" THEN "localhost" ELSE c.domain

\* readDefaultPersonaEmailDomain, which takes a broken file for none.
DefaultDomain(c) == IF c.file = "whole" THEN c.domain ELSE "localhost"

\* selectRelayBootstrapMailDomain: the domain of the relay replaces localhost.
SelectDomain(c, inferred) == IF DefaultDomain(c) = "localhost" THEN inferred ELSE c.domain

Live(n)    == procs[n].kind = "gateway" /\ procs[n].step # "dying"
Writing(n) == procs[n].kind \in {"bootstrap", "setup"}

\* protege doctor: the configuration is valid, there are personas, they can be
\* read and, with a relay, have its domain.
DoctorPasses ==
  /\ Valid(config) /\ Lists
  /\ config.relay => \A p \in Present : personas[p] = config.domain
  /\ Present # {}

-----------------------------------------------------------------------------
(* Processes. *)

Free(n) == n \in Command /\ procs[n] = Idle

Put(n, proc) == procs' = [procs EXCEPT ![n] = proc]

\* A command returns, or throws, which is printed and nothing else.
Ends(n) == Put(n, Idle)

\* Wrong variant: a gateway that failed is not started again.
ServiceStays(n, failed) ==
  IF n # Main \/ service.state # "active" \/ failed THEN service
  ELSE [service EXCEPT !.state = "inactive"]

\* Restart=on-failure; SIGTERM is no failure.
ServiceAfter(n, failed) ==
  IF n # Main \/ service.state # "active" THEN service
  ELSE [service EXCEPT !.state = IF failed THEN "restart" ELSE "inactive"]

Leaves(n) ==
  /\ Put(n, Idle)
  /\ pidFile' = IF pidFile = n THEN 0 ELSE pidFile

Exits(n, failed) == Leaves(n) /\ service' = ServiceAfter(n, failed)

-----------------------------------------------------------------------------
(* Personas. *)

\* createPersona: the directories, the template and the key come first; the
\* domain is given or read.  Where the persona comes among the others is chance.
Make(n, kind, given) ==
  \E p \in Persona \ (Present \cup UNION {{procs[k].persona} \cup procs[k].todo : k \in Proc}) :
    /\ personas' = [personas EXCEPT ![p] = "torn"]
    /\ Put(n, [Idle EXCEPT !.kind = kind, !.step = "fill", !.persona = p, !.config.domain = given])

Create(n) ==
  /\ Free(n)
  /\ Make(n, "create", DefaultDomain(config))
  /\ UNCHANGED <<config, pidFile, service, causes>>

\* persona.json comes last; the directory may have been removed meanwhile.
Fill(n) ==
  LET proc == procs[n]
  IN  /\ proc.step = "fill"
      /\ personas' = [personas EXCEPT ![proc.persona] =
                        IF @ = "torn" THEN proc.config.domain ELSE @]
      /\ IF proc.kind = "bootstrap" /\ personas[proc.persona] = "torn"
         THEN Put(n, [Idle EXCEPT !.kind = "bootstrap", !.step = "configure"])
         ELSE Ends(n)
      /\ UNCHANGED <<config, pidFile, service, causes>>

Delete(n) ==
  /\ Free(n)
  /\ \E p \in Present :
       /\ personas' = [personas EXCEPT ![p] = "torn"]
       /\ Put(n, [Idle EXCEPT !.kind = "delete", !.step = "remove", !.persona = p])
  /\ UNCHANGED <<config, pidFile, service, causes>>

Removed(n) ==
  /\ procs[n].step = "remove"
  /\ personas' = [personas EXCEPT ![procs[n].persona] = "absent"]
  /\ Ends(n)
  /\ UNCHANGED <<config, pidFile, service, causes>>

-----------------------------------------------------------------------------
(* The configuration. *)

\* protege init: a file that is there stays, unless --force.
InitWorkspace ==
  /\ \E force \in BOOLEAN :
       config' = IF force \/ config.file = "missing" THEN Template ELSE config
  /\ UNCHANGED <<personas, pidFile, procs, service, causes>>

Others(n) == \E k \in Proc \ {n} : Writing(k)

Raced(n) == IF Others(n) THEN causes \cup {"partial"} ELSE causes

\* protege relay bootstrap for a relay of some domain: the first persona is
\* made when there is none.
Bootstrap(n) ==
  /\ Free(n) /\ Lists
  /\ IF Present = {}
     THEN Make(n, "bootstrap", DefaultDomain(config))
     ELSE /\ Put(n, [Idle EXCEPT !.kind = "bootstrap", !.step = "configure"])
          /\ UNCHANGED personas
  /\ causes' = Raced(n)
  /\ UNCHANGED <<config, pidFile, service>>

\* hydrateSetupSeedFromExistingProject: what the workspace has replaces what
\* the command line asked for; only prompts come after that.
Hydrated(asked, interactive) ==
  IF interactive \/ config.file = "missing" THEN asked ELSE config.relay

\* applyOutboundModeToGatewayConfig: a local mode keeps the domain.
OutboundModes(base, relay) ==
  IF relay THEN {Config("whole", SelectDomain(base, inferred), TRUE) : inferred \in Domain}
  ELSE {Config("whole", base.domain, FALSE)}

\* protege setup: the workspace is initialised, anew with --force, then its
\* mode is set.
Setup(n) ==
  /\ Free(n) /\ config.file # "torn"
  /\ \E base \in {config, Template}, asked, interactive \in BOOLEAN :
       \E set \in OutboundModes(base, Hydrated(asked, interactive)) :
         Put(n, [Idle EXCEPT !.kind = "setup", !.step = "configuring", !.config = set])
  /\ config' = TornConfig
  /\ causes' = Raced(n)
  /\ UNCHANGED <<personas, pidFile, service>>

\* The bootstrap reads the configuration, or takes its defaults, and enables
\* the relay.
Configure(n) ==
  /\ procs[n].step = "configure"
  /\ IF config.file = "torn" THEN Ends(n) /\ UNCHANGED config
     ELSE /\ \E domain \in {SelectDomain(config, inferred) : inferred \in Domain} :
               Put(n, [procs[n] EXCEPT !.step = "configuring", !.config = Config("whole", domain, TRUE)])
          /\ config' = TornConfig
  /\ UNCHANGED <<personas, pidFile, service, causes>>

Configured(n) ==
  /\ procs[n].step = "configuring"
  /\ config' = procs[n].config
  /\ Put(n, [procs[n] EXCEPT !.step = "list"])
  /\ UNCHANGED <<personas, pidFile, service, causes>>

\* Wrong variant: the bootstrap, too, is content with the first persona.
TargetsFirst(proc) ==
  IF proc.kind \in {"bootstrap", "setup"} THEN {Min(Present)}
  ELSE {p \in Present : personas[p] # proc.config.domain}

\* The personas whose address is written: the bootstrap writes all of them,
\* setup the first, the gateway those that have another domain.
Targets(proc) ==
  CASE proc.kind = "bootstrap" -> Present
    [] proc.kind = "setup"     -> {Min(Present)}
    [] OTHER                   -> {p \in Present : personas[p] # proc.config.domain}

\* Setup makes a persona when there is none.
List(n) ==
  LET proc == procs[n]
      left == {p \in Present \ Targets(proc) : personas[p] # proc.config.domain}
  IN  /\ proc.step = "list"
      /\ IF ~Lists \/ (Present = {} /\ proc.kind = "bootstrap")
         THEN Ends(n) /\ UNCHANGED personas
         ELSE IF Present = {}
         THEN Make(n, "setup", proc.config.domain)
         ELSE /\ Put(n, [proc EXCEPT !.step = "update", !.todo = Targets(proc)])
              /\ UNCHANGED personas
      /\ causes' = IF ~Lists \/ (proc.kind = "setup" /\ Present # {} /\ left # {}) THEN causes \cup {"partial"} ELSE causes
      /\ UNCHANGED <<config, pidFile, service>>

\* A start that throws ends the process: nothing keeps it alive yet.
Throws(n) == IF procs[n].kind = "gateway" THEN Exits(n, TRUE)
             ELSE Ends(n) /\ UNCHANGED <<pidFile, service>>

\* updatePersonaEmailAddress: read, then truncated, then written.
Update(n) ==
  LET proc == procs[n]
      p == Min(proc.todo)
  IN  /\ proc.step = "update" /\ proc.todo # {}
      /\ IF personas[p] \notin Domain THEN Throws(n) /\ UNCHANGED personas
         ELSE /\ personas' = [personas EXCEPT ![p] = "torn"]
              /\ Put(n, [proc EXCEPT !.step = "updating", !.persona = p])
              /\ UNCHANGED <<pidFile, service>>
      /\ causes' = IF Writing(n) /\ personas[p] \notin Domain THEN causes \cup {"partial"} ELSE causes
      /\ UNCHANGED <<config>>

Updated(n) ==
  LET proc == procs[n]
  IN  /\ proc.step = "updating"
      /\ personas' = [personas EXCEPT ![proc.persona] =
                        IF @ = "torn" THEN proc.config.domain ELSE @]
      /\ Put(n, [proc EXCEPT !.step = "update", !.todo = @ \ {proc.persona}, !.persona = 0])
      /\ UNCHANGED <<config, pidFile, service, causes>>

UpdatesEnd(n) ==
  /\ procs[n].step = "update" /\ procs[n].todo = {}
  /\ IF procs[n].kind = "gateway" THEN Put(n, [procs[n] EXCEPT !.step = "listen"]) ELSE Ends(n)
  /\ UNCHANGED <<config, personas, pidFile, service, causes>>

-----------------------------------------------------------------------------
(* The gateway. *)

Terminated(ps, n) ==
  IF n \in Proc /\ ps[n].kind = "gateway" THEN [ps EXCEPT ![n].step = "dying"] ELSE ps

\* startGatewayCommand: the configuration is read, whose domain only a relay
\* makes use of, and the pid written over whatever pid is there.
Started(ps, n) ==
  [ps EXCEPT ![n] = [Idle EXCEPT !.kind = "gateway", !.step = "boot",
                                 !.config = IF config.relay THEN config ELSE Template]]

Beside(ps, n) ==
  IF \E k \in Proc \ {n} : ps[k].kind = "gateway" /\ ps[k].step # "dying"
  THEN causes \cup {"beside"} ELSE causes \ {"beside"}

Start(n) ==
  /\ Free(n) /\ Valid(config)
  /\ procs' = Started(procs, n)
  /\ pidFile' = n
  /\ causes' = Beside(procs, n)
  /\ UNCHANGED <<config, personas, service>>

\* Wrong variant: the pid file goes, the process does not.
StopForgets ==
  /\ pidFile # 0
  /\ pidFile' = 0
  /\ UNCHANGED <<config, personas, procs, service, causes>>

\* The recorded process is told to end and the file removed.  The scan that
\* follows looks for "engine/cli/index.ts gateway start", a command line no
\* gateway has: main.ts is what runs.
Stop ==
  /\ pidFile # 0
  /\ procs' = Terminated(procs, pidFile)
  /\ pidFile' = 0
  /\ UNCHANGED <<config, personas, service, causes>>

\* Stop, then start at once: the process that ends may still hold the port.
Restart(n) ==
  LET stopped == Terminated(procs, pidFile)
  IN  /\ Free(n) /\ Valid(config)
      /\ procs' = Started(stopped, n)
      /\ pidFile' = n
      /\ causes' = Beside(stopped, n)
      /\ UNCHANGED <<config, personas, service>>

\* startGatewayRuntime up to the reconciliation, after the hooks were loaded:
\* the recovery of the memories lists the personas.
Boot(n) ==
  LET proc == procs[n]
  IN  /\ proc.step = "boot"
      /\ IF ~Lists THEN Exits(n, TRUE)
         ELSE /\ Put(n, IF proc.config.relay
                        THEN [proc EXCEPT !.step = "update", !.todo = Targets(proc)]
                        ELSE [proc EXCEPT !.step = "listen"])
              /\ UNCHANGED <<pidFile, service>>
      /\ causes' = IF Others(n) THEN causes \cup {"partial"}
                   ELSE IF proc.config.relay THEN causes \ {"partial"} ELSE causes
      /\ UNCHANGED <<config, personas>>

\* Relay clients, the scheduler, and the SMTP server at last.  When the port
\* is taken the start throws, which main prints; clients and scheduler keep
\* the process alive, unless they, too, could not list the personas: that ends
\* a start with a relay, and costs one without it the scheduler.
Listen(n) ==
  LET proc == procs[n]
      taken == \E k \in Proc : procs[k].bound
  IN  /\ proc.step = "listen"
      /\ IF ~Lists /\ (proc.config.relay \/ taken) THEN Exits(n, TRUE)
         ELSE /\ Put(n, [proc EXCEPT !.step = IF taken THEN "half" ELSE "serving", !.bound = ~taken])
              /\ UNCHANGED <<pidFile, service>>
      /\ UNCHANGED <<config, personas, causes>>

\* SIGTERM has no handler: the process is gone at some point.
Dies(n) ==
  /\ procs[n].step = "dying"
  /\ Exits(n, FALSE)
  /\ UNCHANGED <<config, personas, causes>>

-----------------------------------------------------------------------------
(* The daemon commands and systemd. *)

\* What the commands act on, in whichever workspace they are given: the unit
\* that is the only one installed, else the workspace's own.
Aimed == service.installed

Installs(n) ==
  /\ \/ Free(n) /\ ~service.installed /\ UNCHANGED procs
     \/ procs[n].step = "install" /\ Ends(n)
  /\ service' = [service EXCEPT !.installed = TRUE]
  /\ UNCHANGED <<config, personas, pidFile, causes>>

Ceases(state, cuts) ==
  /\ service' = [service EXCEPT !.state = state, !.cuts = cuts]
  /\ procs' = Terminated(procs, Main)

\* Uninstalling stops the service; reinstalling installs afterwards, and
\* neither enables nor starts.
Uninstall(n) ==
  LET ended == Terminated(procs, Main)
  IN  /\ Free(n) /\ Aimed
      /\ \E again \in BOOLEAN :
           procs' = IF again THEN [ended EXCEPT ![n].kind = "reinstall", ![n].step = "install"] ELSE ended
      /\ service' = [service EXCEPT !.installed = FALSE, !.state = "inactive"]
      /\ UNCHANGED <<config, personas, pidFile, causes>>

DaemonStart ==
  /\ Aimed /\ service.state = "inactive"
  /\ service' = [service EXCEPT !.state = "restart"]
  /\ UNCHANGED <<config, personas, pidFile, procs, causes>>

DaemonStop ==
  /\ Aimed /\ service.state \in {"active", "restart"}
  /\ Ceases("inactive", service.cuts)
  /\ UNCHANGED <<config, personas, pidFile, causes>>

DaemonRestart ==
  /\ Aimed /\ service.cuts < MaxCuts
  /\ Ceases("restart", service.cuts + 1)
  /\ UNCHANGED <<config, personas, pidFile, causes>>

Daemon == DaemonStart \/ DaemonStop \/ DaemonRestart

\* systemd starts the main process, for the first time or again; a start that
\* finds the configuration invalid fails at once, again and again.  The unit
\* sets a start limit in [Service], where systemd has none, and the default,
\* five starts in ten seconds, is more than RestartSec leaves room for.
Spawn ==
  /\ service.state = "restart" /\ procs[Main] = Idle /\ Valid(config)
  /\ service' = [service EXCEPT !.state = "active"]
  /\ procs' = Started(procs, Main)
  /\ pidFile' = Main
  /\ causes' = Beside(procs, Main)
  /\ UNCHANGED <<config, personas>>

-----------------------------------------------------------------------------

\* A process is killed, or an error of the disk ends it, between two steps.
Cut(n) ==
  /\ procs[n] # Idle /\ Leaves(n)
  /\ IF n = Main
     THEN /\ service.cuts < MaxCuts
          /\ service' = [ServiceAfter(n, TRUE) EXCEPT !.cuts = @ + 1]
     ELSE UNCHANGED service
  /\ causes' = IF Writing(n) THEN causes \cup {"partial"} ELSE causes
  /\ UNCHANGED <<config, personas>>

\* What a process under way does next.
Advance(n) ==
  \/ Fill(n) \/ Removed(n) \/ Configure(n) \/ Configured(n) \/ List(n)
  \/ Update(n) \/ Updated(n) \/ UpdatesEnd(n)
  \/ Boot(n) \/ Listen(n) \/ Dies(n)

Operator(n) ==
  \/ Create(n) \/ Delete(n) \/ Bootstrap(n) \/ Setup(n)
  \/ Start(n) \/ Restart(n) \/ Installs(n) \/ Uninstall(n)

Next ==
  \/ \E n \in Proc : Advance(n) \/ Operator(n) \/ Cut(n)
  \/ InitWorkspace \/ Stop
  \/ Daemon \/ Spawn

Spec == Init /\ [][Next]_vars

\* Processes run on, and systemd starts what it has to.
FairSpec == Spec /\ WF_vars(Spawn) /\ \A n \in Proc : WF_vars(Advance(n))

-----------------------------------------------------------------------------
(* Properties. *)

TypeOK ==
  /\ config \in {TornConfig} \cup [file : {"whole", "missing"}, domain : Domain, relay : BOOLEAN]
  /\ personas \in [Persona -> Domain \cup {"absent", "torn"}]
  /\ pidFile \in {0} \cup Proc
  /\ procs \in [Proc -> [kind : {"none", "create", "delete", "bootstrap", "setup", "gateway", "reinstall"},
                         step : Step, persona : {0} \cup Persona, todo : SUBSET Persona,
                         config : [file : {"whole", "missing"}, domain : Domain, relay : BOOLEAN],
                         bound : BOOLEAN]]
  /\ service \in [installed : BOOLEAN, state : {"inactive", "active", "restart"}, cuts : 0 .. MaxCuts]

\* While a gateway with a relay serves, each persona that can be read has the
\* gateway's mail domain: commands that ran before it, or run beside it, leave
\* a persona behind only when the configuration is no longer the gateway's,
\* or when such a command is under way, threw, was cut off, raced another, or was a
\* setup, which writes the first persona only, or a gateway started beside.
DomainsAgree ==
  \A n \in Proc : procs[n].step = "serving" /\ procs[n].config.relay =>
    \/ \A p \in Persona : personas[p] \in Domain => personas[p] = procs[n].config.domain
    \/ config # procs[n].config
    \/ \E k \in Proc : Writing(k)
    \/ causes # {}

\* Every gateway that lives can be told to end: the pid file or systemd knows
\* it, unless it was started beside another, which the start does not notice.
GatewaysReachable ==
  "beside" \notin causes =>
    \A n \in Proc : Live(n) => pidFile = n \/ (n = Main /\ service.state = "active")

\* A service that is to start again is up in the end, unless it is stopped:
\* whatever keeps it down, doctor reports.  Up is not serving: of a gateway
\* that lost the port clients and scheduler are left.
ServiceReturns ==
  service.state = "restart" ~>
    \/ \E n \in Proc : procs[n].step \in {"serving", "half"}
    \/ service.state = "inactive"
    \/ ~DoctorPasses
=============================================================================
