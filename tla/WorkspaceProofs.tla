-------------------------- MODULE WorkspaceProofs --------------------------
(***************************************************************************)
(* Proofs about Workspace, for any number of personas and of processes,    *)
(* any domains and any start limit of the unit.                            *)
(***************************************************************************)
EXTENDS Workspace, SequenceFacts

\* The steps a process of each kind takes.
StepsOf(kind) ==
  CASE kind = "none"      -> {"idle"}
    [] kind = "create"    -> {"fill"}
    [] kind = "delete"    -> {"remove"}
    [] kind = "bootstrap" -> {"fill", "configure", "configuring", "list", "update", "updating"}
    [] kind = "setup"     -> {"fill", "configuring", "list", "update", "updating"}
    [] kind = "gateway"   -> {"boot", "update", "updating", "listen", "serving", "half", "dying"}
    [] kind = "reinstall" -> {"install"}

\* Personas are left to update in two steps only, and by a gateway that ends
\* there; a relay is in no broken configuration.
ProcOK(proc) ==
  /\ proc.step \in StepsOf(proc.kind)
  /\ proc.step \notin {"update", "updating", "dying"} => proc.todo = {}
  /\ proc.config.relay => proc.config.file = "whole"

StepsOK ==
  /\ \A n \in Proc : ProcOK(procs[n])
  /\ config.relay => config.file = "whole"

TypedSteps == TypeOK /\ StepsOK

\* The persona whose persona.json a process has yet to write: nobody else
\* does, and it cannot be read before.
Holds(n) == procs[n].step \in {"fill", "updating"}

HoldsOK ==
  /\ \A n \in Proc : Holds(n) =>
       procs[n].persona \in Persona /\ personas[procs[n].persona] \notin Domain
  /\ \A j, k \in Proc : Holds(j) /\ Holds(k) /\ j # k => procs[j].persona # procs[k].persona

\* Two gateways, and two commands that write addresses, leave their mark.
Alone ==
  /\ "beside" \notin causes => \A j, k \in Proc : Live(j) /\ Live(k) => j = k
  /\ "partial" \notin causes => \A j, k \in Proc : Writing(j) /\ Writing(k) => j = k

\* The personas that are still to get the domain of the configuration.
Pending(g) == UNION {procs[k].todo : k \in {j \in Proc : Writing(j) \/ j = g}}

\* Every persona that can be read has the domain of the configuration, and
\* those that are being made will have it, but for the pending ones.
Consistent(g) ==
  /\ \A p \in Persona : personas[p] \in Domain => personas[p] = config.domain \/ p \in Pending(g)
  /\ \A k \in Proc : procs[k].step = "fill" /\ personas[procs[k].persona] = "torn" =>
       procs[k].config.domain = config.domain

\* A gateway that works with the relay of the present configuration, after
\* its reconciliation began.
Works(g) ==
  Live(g) /\ procs[g].step # "boot" /\ procs[g].config.relay /\ config = procs[g].config

\* Whoever writes addresses works with the gateway's configuration, and all
\* is consistent except while a command looks for personas.
AgreesWith(g) ==
  /\ \A n \in Proc : Writing(n) =>
       /\ procs[n].step # "configuring"
       /\ procs[n].step \in {"list", "update", "updating"} => procs[n].config = config
  /\ (\E n \in Proc : procs[n].step = "list") \/ Consistent(g)

Agree == causes = {} => \A g \in Proc : Works(g) => AgreesWith(g)

DomInv == TypedSteps /\ HoldsOK /\ Alone /\ Agree

-----------------------------------------------------------------------------
(* What the operators of the actions do to the processes. *)

Kinds   == {"none", "create", "delete", "bootstrap", "setup", "gateway", "reinstall"}
ProcRec == [kind : Kinds, step : Step, persona : {0} \cup Persona, todo : SUBSET Persona,
            config : [file : {"whole", "missing"}, domain : Domain, relay : BOOLEAN],
            bound : BOOLEAN]

\* One process changes: what it is then.
Becomes(n, kind, step, persona, todo) ==
  /\ procs' \in [Proc -> ProcRec]
  /\ procs'[n].kind = kind /\ procs'[n].step = step
  /\ procs'[n].persona = persona /\ procs'[n].todo = todo
  /\ \A k \in Proc \ {n} : procs'[k] = procs[k]

FileRec   == [file : {"whole", "missing"}, domain : Domain, relay : BOOLEAN]
ConfigRec == {TornConfig} \cup FileRec

\* What a configuration that is there, or is not, holds.
LEMMA WholeFile ==
  /\ \A c \in FileRec : c.file \in {"whole", "missing"} /\ c.domain \in Domain /\ c.relay \in BOOLEAN
  /\ TornConfig.file = "torn" /\ ~TornConfig.relay
  /\ TypeOK => config \in ConfigRec
  /\ TypeOK /\ config.file # "torn" => config \in FileRec /\ config.domain \in Domain
  /\ Template \in FileRec /\ ~Template.relay /\ Template.file = "whole"
  /\ NoConfig \in FileRec /\ ~NoConfig.relay /\ NoConfig.file = "missing"
<1>1. TornConfig.file = "torn" /\ ~TornConfig.relay
  BY DEF TornConfig, Config
<1>2. TypeOK => config \in ConfigRec
  BY DEF TypeOK, ConfigRec, FileRec
<1>3. /\ Template \in FileRec /\ ~Template.relay /\ Template.file = "whole"
      /\ NoConfig \in FileRec /\ ~NoConfig.relay /\ NoConfig.file = "missing"
  BY LocalDomain DEF Template, NoConfig, Config, FileRec
<1>4. \A c \in FileRec : c.file \in {"whole", "missing"} /\ c.domain \in Domain /\ c.relay \in BOOLEAN
  BY DEF FileRec
<1>5. TypeOK /\ config.file # "torn" => config \in FileRec /\ config.domain \in Domain
  BY <1>1, <1>2, <1>4 DEF ConfigRec
<1>. QED BY <1>1, <1>2, <1>3, <1>4, <1>5

LEMMA ProcTypes ==
  ASSUME TypeOK
  PROVE  procs \in [Proc -> ProcRec]
BY DEF TypeOK, ProcRec, Kinds

LEMMA Puts ==
  ASSUME TypeOK, NEW n \in Proc, NEW proc \in ProcRec, Put(n, proc)
  PROVE  /\ Becomes(n, proc.kind, proc.step, proc.persona, proc.todo)
         /\ procs'[n] = proc
BY ProcTypes DEF Put, Becomes

LEMMA IdleType == Idle \in ProcRec
<1>1. NoConfig \in [file : {"whole", "missing"}, domain : Domain, relay : BOOLEAN]
  BY LocalDomain DEF NoConfig, Config
<1>. QED BY <1>1 DEF Idle, ProcRec, Kinds, Step

\* A process ends.
Gone(n) == Becomes(n, "none", "idle", 0, {}) /\ ~procs'[n].config.relay

LEMMA EndsIdle ==
  ASSUME TypeOK, NEW n \in Proc, Ends(n)
  PROVE  Gone(n)
<1>1. /\ Idle.kind = "none" /\ Idle.step = "idle" /\ Idle.persona = 0 /\ Idle.todo = {}
      /\ ~Idle.config.relay
  BY DEF Idle, NoConfig, Config
<1>. QED BY <1>1, IdleType, Puts DEF Ends, Gone

\* A persona that was not there and that nobody works on is being made.
Making(n, kind, given) ==
  \E p \in Persona :
    /\ personas[p] = "absent" /\ \A k \in Proc : procs[k].persona # p
    /\ personas' = [personas EXCEPT ![p] = "torn"]
    /\ Becomes(n, kind, "fill", p, {})
    /\ procs'[n].config.domain = given /\ ~procs'[n].config.relay

LEMMA Makes ==
  ASSUME TypeOK, NEW n \in Proc, NEW kind \in Kinds, NEW given \in Domain, Make(n, kind, given)
  PROVE  Making(n, kind, given) /\ personas' \in [Persona -> Domain \cup {"absent", "torn"}]
<1>1. PICK p \in Persona \ (Present \cup UNION {{procs[k].persona} \cup procs[k].todo : k \in Proc}) :
        /\ personas' = [personas EXCEPT ![p] = "torn"]
        /\ Put(n, [Idle EXCEPT !.kind = kind, !.step = "fill", !.persona = p, !.config.domain = given])
  BY DEF Make
<1> DEFINE proc == [Idle EXCEPT !.kind = kind, !.step = "fill", !.persona = p, !.config.domain = given]
<1>2. /\ Idle \in ProcRec /\ Idle.config \in [file : {"whole", "missing"}, domain : Domain, relay : BOOLEAN]
      /\ Idle.todo = {} /\ ~Idle.config.relay
  BY IdleType DEF Idle, NoConfig, Config, ProcRec
<1>3. /\ proc \in ProcRec
      /\ proc.kind = kind /\ proc.step = "fill" /\ proc.persona = p /\ proc.todo = {}
      /\ proc.config.domain = given /\ ~proc.config.relay
  BY <1>2 DEF ProcRec, Step
<1> HIDE DEF proc
<1>4. Becomes(n, kind, "fill", p, {}) /\ procs'[n] = proc
  BY <1>1, <1>3, Puts DEF proc
<1>5. personas[p] = "absent" /\ \A k \in Proc : procs[k].persona # p
  BY <1>1 DEF Present
<1>6. personas' \in [Persona -> Domain \cup {"absent", "torn"}]
  BY <1>1 DEF TypeOK
<1>. QED BY <1>1, <1>3, <1>4, <1>5, <1>6 DEF Making

\* A gateway that is told to end does nothing but die from then on; nobody
\* else is touched.
Ended(was, is, told) ==
  /\ ~told \/ was.kind # "gateway" => is = was
  /\ told /\ was.kind = "gateway" =>
       /\ is.kind = "gateway" /\ is.step = "dying" /\ is.persona = was.persona
       /\ is.todo = was.todo /\ is.config = was.config

Told(was, is, m) == \A k \in Proc : Ended(was[k], is[k], k = m)

LEMMA TerminatedFacts ==
  ASSUME NEW ps \in [Proc -> ProcRec], NEW m
  PROVE  Terminated(ps, m) \in [Proc -> ProcRec] /\ Told(ps, Terminated(ps, m), m)
<1>1. CASE m \in Proc /\ ps[m].kind = "gateway"
  <2>1. Terminated(ps, m) = [ps EXCEPT ![m] = [ps[m] EXCEPT !.step = "dying"]]
    BY <1>1 DEF Terminated
  <2>2. [ps[m] EXCEPT !.step = "dying"] \in ProcRec
    BY <1>1 DEF ProcRec, Step
  <2>. QED BY <1>1, <2>1, <2>2 DEF Told, Ended, ProcRec
<1>2. CASE ~ (m \in Proc /\ ps[m].kind = "gateway")
  BY <1>2 DEF Terminated, Told, Ended
<1>. QED BY <1>1, <1>2

\* A gateway at its start: its configuration is the one it read, if that has
\* a relay.
Booting(proc) ==
  /\ proc \in ProcRec
  /\ proc.kind = "gateway" /\ proc.step = "boot" /\ proc.persona = 0 /\ proc.todo = {} /\ ~proc.bound
  /\ proc.config.file = "whole" /\ (proc.config.relay => proc.config = config)

LEMMA StartedFacts ==
  ASSUME TypeOK, NEW ps \in [Proc -> ProcRec], NEW n \in Proc, Valid(config)
  PROVE  /\ Started(ps, n) \in [Proc -> ProcRec]
         /\ Booting(Started(ps, n)[n])
         /\ \A k \in Proc \ {n} : Started(ps, n)[k] = ps[k]
<1> DEFINE proc == [Idle EXCEPT !.kind = "gateway", !.step = "boot",
                                !.config = IF config.relay THEN config ELSE Template]
<1>1. Idle \in ProcRec /\ Idle.persona = 0 /\ Idle.todo = {} /\ ~Idle.bound
  BY IdleType DEF Idle
<1>2. /\ (IF config.relay THEN config ELSE Template) \in [file : {"whole", "missing"}, domain : Domain, relay : BOOLEAN]
      /\ (IF config.relay THEN config ELSE Template).file = "whole"
      /\ ~Template.relay
  BY WholeFile DEF Valid, FileRec
<1>3. Started(ps, n) = [ps EXCEPT ![n] = proc]
  BY DEF Started
<1>4. Booting(proc)
  BY <1>1, <1>2 DEF Booting, ProcRec, Kinds, Step
<1> HIDE DEF proc
<1>5. proc \in ProcRec
  BY <1>4 DEF Booting
<1>. QED BY <1>3, <1>4, <1>5

-----------------------------------------------------------------------------
(* What each action of one process does to it. *)

LEMMA DefaultIsDomain ==
  ASSUME TypeOK
  PROVE  DefaultDomain(config) \in Domain
BY LocalDomain, WholeFile DEF DefaultDomain

LEMMA SelectsDomain ==
  ASSUME NEW c, c.domain \in Domain, NEW inferred \in Domain
  PROVE  SelectDomain(c, inferred) \in Domain
BY DEF SelectDomain

LEMMA CreateEffect ==
  ASSUME TypeOK, NEW n \in Proc, Create(n)
  PROVE  /\ Making(n, "create", DefaultDomain(config)) /\ procs[n] = Idle
         /\ personas' \in [Persona -> Domain \cup {"absent", "torn"}]
BY DefaultIsDomain, Makes DEF Create, Free, Kinds

LEMMA FillEffect ==
  ASSUME TypeOK, NEW n \in Proc, Fill(n)
  PROVE  /\ personas' \in [Persona -> Domain \cup {"absent", "torn"}]
         /\ \/ Gone(n)
            \/ /\ procs[n].kind = "bootstrap"
               /\ Becomes(n, "bootstrap", "configure", 0, {}) /\ ~procs'[n].config.relay
<1> DEFINE proc == [Idle EXCEPT !.kind = "bootstrap", !.step = "configure"]
<1>1. /\ Idle \in ProcRec
      /\ Idle.persona = 0 /\ Idle.todo = {} /\ ~Idle.config.relay
  BY IdleType DEF Idle, NoConfig, Config
<1>2. /\ proc \in ProcRec
      /\ proc.kind = "bootstrap" /\ proc.step = "configure" /\ proc.persona = 0 /\ proc.todo = {}
      /\ ~proc.config.relay
  BY <1>1 DEF ProcRec, Step, Kinds
<1> HIDE DEF proc
<1>3. personas' \in [Persona -> Domain \cup {"absent", "torn"}]
  <2>1. procs[n].config.domain \in Domain
    BY ProcTypes DEF ProcRec
  <2>. QED BY <2>1 DEF Fill, TypeOK
<1>4. CASE Ends(n)
  BY <1>3, <1>4, EndsIdle
<1>5. CASE procs[n].kind = "bootstrap" /\ Put(n, proc)
  BY <1>2, <1>3, <1>5, Puts
<1>. QED BY <1>4, <1>5 DEF Fill, proc

LEMMA DeleteEffect ==
  ASSUME TypeOK, NEW n \in Proc, Delete(n)
  PROVE  \E p \in Present :
           /\ personas' = [personas EXCEPT ![p] = "torn"]
           /\ Becomes(n, "delete", "remove", p, {}) /\ ~procs'[n].config.relay
<1>1. PICK p \in Present :
        /\ personas' = [personas EXCEPT ![p] = "torn"]
        /\ Put(n, [Idle EXCEPT !.kind = "delete", !.step = "remove", !.persona = p])
  BY DEF Delete
<1> DEFINE proc == [Idle EXCEPT !.kind = "delete", !.step = "remove", !.persona = p]
<1>2. Idle \in ProcRec /\ Idle.todo = {} /\ ~Idle.config.relay /\ p \in Persona
  BY IdleType DEF Idle, NoConfig, Config, Present
<1>3. /\ proc \in ProcRec
      /\ proc.kind = "delete" /\ proc.step = "remove" /\ proc.persona = p /\ proc.todo = {}
      /\ ~proc.config.relay
  BY <1>2 DEF ProcRec, Step, Kinds
<1> HIDE DEF proc
<1>4. Becomes(n, "delete", "remove", p, {}) /\ procs'[n] = proc
  BY <1>1, <1>3, Puts, ZenonT(30) DEF proc
<1>. QED BY <1>1, <1>3, <1>4

LEMMA BootstrapEffect ==
  ASSUME TypeOK, NEW n \in Proc, Bootstrap(n)
  PROVE  \/ /\ Making(n, "bootstrap", DefaultDomain(config)) /\ Present = {}
            /\ personas' \in [Persona -> Domain \cup {"absent", "torn"}]
         \/ /\ Becomes(n, "bootstrap", "configure", 0, {}) /\ ~procs'[n].config.relay
            /\ personas' = personas
<1> DEFINE proc == [Idle EXCEPT !.kind = "bootstrap", !.step = "configure"]
<1>1. Idle \in ProcRec /\ Idle.persona = 0 /\ Idle.todo = {} /\ ~Idle.config.relay
  BY IdleType DEF Idle, NoConfig, Config
<1>2. /\ proc \in ProcRec
      /\ proc.kind = "bootstrap" /\ proc.step = "configure" /\ proc.persona = 0 /\ proc.todo = {}
      /\ ~proc.config.relay
  BY <1>1 DEF ProcRec, Step, Kinds
<1> HIDE DEF proc
<1>3. CASE Present = {}
  BY <1>3, DefaultIsDomain, Makes DEF Bootstrap, Kinds
<1>4. CASE Present # {}
  <2>1. Put(n, proc) /\ personas' = personas
    BY <1>4 DEF Bootstrap, proc
  <2>. QED BY <1>2, <2>1, Puts
<1>. QED BY <1>3, <1>4

LEMMA SetupEffect ==
  ASSUME TypeOK, NEW n \in Proc, Setup(n)
  PROVE  Becomes(n, "setup", "configuring", 0, {}) /\ procs'[n].config.file = "whole"
<1>1. PICK base \in {config, Template}, asked \in BOOLEAN, interactive \in BOOLEAN :
        \E set \in OutboundModes(base, Hydrated(asked, interactive)) :
          Put(n, [Idle EXCEPT !.kind = "setup", !.step = "configuring", !.config = set])
  BY DEF Setup
<1>0. config.file # "torn"
  BY DEF Setup
<1>2. PICK set \in OutboundModes(base, Hydrated(asked, interactive)) :
        Put(n, [Idle EXCEPT !.kind = "setup", !.step = "configuring", !.config = set])
  BY <1>1
<1>3. base.domain \in Domain
  BY <1>0, WholeFile
<1>4. set \in [file : {"whole", "missing"}, domain : Domain, relay : BOOLEAN] /\ set.file = "whole"
  <2>1. CASE Hydrated(asked, interactive)
    <3>1. PICK inferred \in Domain : set = Config("whole", SelectDomain(base, inferred), TRUE)
      BY <2>1 DEF OutboundModes
    <3>2. SelectDomain(base, inferred) \in Domain
      BY <1>3, SelectsDomain
    <3>. QED BY <3>1, <3>2 DEF Config
  <2>2. CASE ~Hydrated(asked, interactive)
    <3>1. set = Config("whole", base.domain, FALSE)
      BY <2>2 DEF OutboundModes
    <3>. QED BY <1>3, <3>1 DEF Config
  <2>. QED BY <2>1, <2>2
<1> DEFINE proc == [Idle EXCEPT !.kind = "setup", !.step = "configuring", !.config = set]
<1>5. Idle \in ProcRec /\ Idle.persona = 0 /\ Idle.todo = {}
  BY IdleType DEF Idle
<1>6. /\ proc \in ProcRec
      /\ proc.kind = "setup" /\ proc.step = "configuring" /\ proc.persona = 0 /\ proc.todo = {}
      /\ proc.config = set
  BY <1>4, <1>5 DEF ProcRec, Step, Kinds
<1> HIDE DEF proc
<1>7. Put(n, proc)
  BY <1>2 DEF proc
<1>. QED BY <1>4, <1>6, <1>7, Puts

LEMMA ConfigureEffect ==
  ASSUME TypeOK, NEW n \in Proc, Configure(n)
  PROVE  \/ config.file = "torn" /\ config' = config /\ Gone(n)
         \/ /\ config' = TornConfig
            /\ Becomes(n, procs[n].kind, "configuring", procs[n].persona, procs[n].todo)
            /\ procs'[n].config.file = "whole"
<1>1. CASE config.file = "torn"
  BY <1>1, EndsIdle DEF Configure
<1>2. CASE config.file # "torn"
  <2>1. PICK domain \in {SelectDomain(config, inferred) : inferred \in Domain} :
          Put(n, [procs[n] EXCEPT !.step = "configuring", !.config = Config("whole", domain, TRUE)])
    BY <1>2 DEF Configure
  <2>2. domain \in Domain
    <3>1. config.domain \in Domain
      BY <1>2, WholeFile
    <3>. QED BY <2>1, <3>1, SelectsDomain
  <2> DEFINE set == Config("whole", domain, TRUE)
             proc == [procs[n] EXCEPT !.step = "configuring", !.config = set]
  <2>3. set \in [file : {"whole", "missing"}, domain : Domain, relay : BOOLEAN] /\ set.file = "whole"
    BY <2>2 DEF Config
  <2>4. Put(n, proc)
    BY <2>1
  <2> HIDE DEF set
  <2>7. procs[n] \in ProcRec
    BY ProcTypes
  <2>5. /\ proc \in ProcRec /\ proc.config = set /\ proc.step = "configuring"
        /\ proc.kind = procs[n].kind /\ proc.persona = procs[n].persona /\ proc.todo = procs[n].todo
    BY <2>3, <2>7 DEF ProcRec, Step
  <2> HIDE DEF proc
  <2>6. Becomes(n, procs[n].kind, "configuring", procs[n].persona, procs[n].todo) /\ procs'[n] = proc
    BY <2>4, <2>5, Puts
  <2>. QED BY <1>2, <2>3, <2>5, <2>6 DEF Configure
<1>. QED BY <1>1, <1>2

LEMMA ConfiguredEffect ==
  ASSUME TypeOK, NEW n \in Proc, Configured(n)
  PROVE  /\ config' = procs[n].config
         /\ Becomes(n, procs[n].kind, "list", procs[n].persona, procs[n].todo)
         /\ procs'[n].config = procs[n].config
<1> DEFINE proc == [procs[n] EXCEPT !.step = "list"]
<1>1. /\ proc \in ProcRec /\ proc.config = procs[n].config /\ proc.step = "list"
      /\ proc.kind = procs[n].kind /\ proc.persona = procs[n].persona /\ proc.todo = procs[n].todo
  BY ProcTypes, ZenonT(30) DEF ProcRec, Step
<1>2. Put(n, proc) /\ config' = procs[n].config
  BY DEF Configured
<1> HIDE DEF proc
<1>. QED BY <1>1, <1>2, Puts

\* The first persona is one of those there are.
LEMMA FirstPersona ==
  ASSUME NEW S \in SUBSET Persona, S # {}
  PROVE  Min(S) \in S
<1>1. S \in SUBSET Nat
  BY WorkspaceBounds DEF Persona
<1>2. \E p \in S : \A q \in S : p <= q
  BY <1>1, LeastNumber
<1>. QED BY <1>2 DEF Min

\* The personas that are not written have the domain already, unless the
\* process is a setup.
LEMMA TargetsFacts ==
  ASSUME NEW proc, Present # {}
  PROVE  /\ Targets(proc) \in SUBSET Persona
         /\ proc.kind # "setup" =>
              \A p \in Present \ Targets(proc) : personas[p] = proc.config.domain
<1>1. Present \in SUBSET Persona
  BY DEF Present
<1>2. Min(Present) \in Persona
  BY <1>1, FirstPersona
<1>. QED BY <1>1, <1>2 DEF Targets

\* All that cannot be left behind when a command or a gateway that lists the
\* personas goes on to update them.
Listed(n) ==
  /\ Lists
  /\ Becomes(n, procs[n].kind, "update", procs[n].persona, Targets(procs[n]))
  /\ procs'[n].config = procs[n].config

LEMMA ListEffect ==
  ASSUME TypeOK, NEW n \in Proc, List(n)
  PROVE  /\ personas' \in [Persona -> Domain \cup {"absent", "torn"}]
         /\ \/ /\ Gone(n) /\ personas' = personas
               /\ causes' = causes \cup {"partial"} \/ (Lists /\ Present = {} /\ causes' = causes)
            \/ /\ Present = {} /\ Making(n, "setup", procs[n].config.domain) /\ causes' = causes
            \/ /\ Present # {} /\ Listed(n) /\ personas' = personas
               /\ \/ causes' = causes \cup {"partial"}
                  \/ /\ causes' = causes
                     /\ \A p \in Present \ Targets(procs[n]) : personas[p] = procs[n].config.domain
<1>1. CASE ~Lists \/ (Present = {} /\ procs[n].kind = "bootstrap")
  <2>1. Gone(n) /\ personas' = personas
    BY <1>1, EndsIdle DEF List
  <2>2. causes' = causes \cup {"partial"} \/ (Lists /\ Present = {} /\ causes' = causes)
    BY <1>1 DEF List
  <2>. QED BY <2>1, <2>2 DEF TypeOK
<1>2. CASE Lists /\ Present = {} /\ procs[n].kind # "bootstrap"
  <2>1. procs[n].config.domain \in Domain
    BY ProcTypes DEF ProcRec
  <2>2. Make(n, "setup", procs[n].config.domain) /\ causes' = causes
    BY <1>2 DEF List
  <2>. QED BY <1>2, <2>1, <2>2, Makes DEF Kinds
<1>3. CASE Lists /\ Present # {}
  <2> DEFINE left == {p \in Present \ Targets(procs[n]) : personas[p] # procs[n].config.domain}
             proc == [procs[n] EXCEPT !.step = "update", !.todo = Targets(procs[n])]
  <2>1. /\ Put(n, proc) /\ personas' = personas
        /\ causes' = IF procs[n].kind = "setup" /\ left # {} THEN causes \cup {"partial"} ELSE causes
    BY <1>3 DEF List
  <2>2. Targets(procs[n]) \in SUBSET Persona
    BY <1>3, TargetsFacts
  <2>3. /\ proc \in ProcRec /\ proc.config = procs[n].config /\ proc.step = "update"
        /\ proc.kind = procs[n].kind /\ proc.persona = procs[n].persona /\ proc.todo = Targets(procs[n])
    BY <2>2, ProcTypes DEF ProcRec, Step
  <2> HIDE DEF proc
  <2>4. Listed(n)
    BY <1>3, <2>1, <2>3, Puts DEF Listed
  <2>5. \/ causes' = causes \cup {"partial"}
        \/ /\ causes' = causes
           /\ \A p \in Present \ Targets(procs[n]) : personas[p] = procs[n].config.domain
    <3>1. CASE procs[n].kind = "setup" /\ left # {}
      BY <2>1, <3>1
    <3>2. CASE left = {}
      BY <2>1, <3>2
    <3>3. CASE procs[n].kind # "setup"
      BY <1>3, <2>1, <3>3, TargetsFacts
    <3>. QED BY <3>1, <3>2, <3>3
  <2>. QED BY <1>3, <2>1, <2>4, <2>5 DEF TypeOK
<1>. QED BY <1>1, <1>2, <1>3

ServiceOK ==
  service \in [installed : BOOLEAN, state : {"inactive", "active", "restart"}, cuts : 0 .. MaxCuts]

\* A gateway ends, or a command does.
LEMMA ExitsGone ==
  ASSUME TypeOK, NEW n \in Proc, NEW failed \in BOOLEAN, Exits(n, failed)
  PROVE  /\ Gone(n)
         /\ pidFile' \in {0} \cup Proc /\ (pidFile # n => pidFile' = pidFile)
         /\ ServiceOK'
         /\ n # Main => service' = service
<1>1. Gone(n)
  BY EndsIdle DEF Exits, Leaves, Ends
<1>. QED BY <1>1 DEF Exits, Leaves, ServiceAfter, ServiceOK, TypeOK

\* A step of the reconciliation or the bootstrap throws: a gateway ends.
Thrown(n) ==
  /\ Gone(n) /\ pidFile' \in {0} \cup Proc /\ ServiceOK'
  /\ pidFile # n => pidFile' = pidFile
  /\ n # Main => service' = service

LEMMA CutEffect ==
  ASSUME TypeOK, NEW n \in Proc, Cut(n)
  PROVE  Thrown(n)
<1>1. Gone(n)
  BY EndsIdle DEF Cut, Leaves, Ends
<1>2. /\ pidFile' \in {0} \cup Proc /\ (pidFile # n => pidFile' = pidFile)
      /\ n # Main => service' = service
  BY DEF Cut, Leaves, TypeOK
<1>3. ServiceOK'
  <2>1. CASE n # Main
    BY <1>2, <2>1 DEF ServiceOK, TypeOK
  <2>2. CASE n = Main
    <3>1. /\ service \in [installed : BOOLEAN, state : {"inactive", "active", "restart"}, cuts : 0 .. MaxCuts]
          /\ MaxCuts \in Nat
      BY WorkspaceBounds DEF TypeOK
    <3>2. service.cuts + 1 \in 0 .. MaxCuts
      BY <2>2, <3>1 DEF Cut
    <3>3. ServiceAfter(n, TRUE) \in [installed : BOOLEAN, state : {"inactive", "active", "restart"}, cuts : 0 .. MaxCuts]
          /\ ServiceAfter(n, TRUE).cuts = service.cuts
      BY <3>1 DEF ServiceAfter
    <3>. QED BY <2>2, <3>2, <3>3 DEF Cut, ServiceOK
  <2>. QED BY <2>1, <2>2
<1>. QED BY <1>1, <1>2, <1>3 DEF Thrown

LEMMA UpdateEffect ==
  ASSUME TypeOK, NEW n \in Proc, Update(n)
  PROVE  \E p \in procs[n].todo :
           \/ /\ personas[p] \notin Domain /\ personas' = personas /\ Thrown(n)
              /\ causes' = IF Writing(n) THEN causes \cup {"partial"} ELSE causes
           \/ /\ personas[p] \in Domain /\ personas' = [personas EXCEPT ![p] = "torn"]
              /\ Becomes(n, procs[n].kind, "updating", p, procs[n].todo)
              /\ procs'[n].config = procs[n].config
              /\ UNCHANGED <<pidFile, service, causes>>
<1> DEFINE p == Min(procs[n].todo)
<1>1. procs[n].todo \in SUBSET Persona /\ procs[n].todo # {}
  BY ProcTypes DEF Update, ProcRec
<1>2. p \in procs[n].todo
  BY <1>1, FirstPersona
<1>3. CASE personas[p] \notin Domain
  <2>1. Throws(n) /\ personas' = personas
    BY <1>3 DEF Update
  <2>2. causes' = IF Writing(n) THEN causes \cup {"partial"} ELSE causes
    BY <1>3 DEF Update
  <2>3. Thrown(n)
    BY <2>1, EndsIdle, ExitsGone DEF Throws, Thrown, TypeOK, ServiceOK
  <2>. QED BY <1>2, <1>3, <2>1, <2>2, <2>3
<1>4. CASE personas[p] \in Domain
  <2> DEFINE proc == [procs[n] EXCEPT !.step = "updating", !.persona = p]
  <2>1. Put(n, proc) /\ personas' = [personas EXCEPT ![p] = "torn"] /\ UNCHANGED <<pidFile, service, causes>>
    BY <1>4 DEF Update
  <2>2. p \in Persona
    BY <1>1, <1>2
  <2> HIDE DEF p
  <2>3. /\ proc \in ProcRec /\ proc.config = procs[n].config /\ proc.step = "updating"
        /\ proc.kind = procs[n].kind /\ proc.persona = p /\ proc.todo = procs[n].todo
    BY <2>2, ProcTypes DEF ProcRec, Step
  <2> HIDE DEF proc
  <2>4. Becomes(n, procs[n].kind, "updating", p, procs[n].todo) /\ procs'[n] = proc
    BY <2>1, <2>3, Puts
  <2>. QED BY <1>2, <1>4, <2>1, <2>3, <2>4
<1>. QED BY <1>3, <1>4

LEMMA UpdatedEffect ==
  ASSUME TypeOK, NEW n \in Proc, Updated(n)
  PROVE  /\ Becomes(n, procs[n].kind, "update", 0, procs[n].todo \ {procs[n].persona})
         /\ procs'[n].config = procs[n].config
         /\ personas' \in [Persona -> Domain \cup {"absent", "torn"}]
<1> DEFINE proc == [procs[n] EXCEPT !.step = "update", !.todo = procs[n].todo \ {procs[n].persona}, !.persona = 0]
<1>1. Put(n, proc)
  BY DEF Updated
<1>2. /\ proc \in ProcRec /\ proc.config = procs[n].config /\ proc.step = "update"
      /\ proc.kind = procs[n].kind /\ proc.persona = 0
      /\ proc.todo = procs[n].todo \ {procs[n].persona}
  BY ProcTypes, ZenonT(30) DEF ProcRec, Step
<1> HIDE DEF proc
<1>3. personas' \in [Persona -> Domain \cup {"absent", "torn"}]
  <2>1. procs[n].config.domain \in Domain
    BY ProcTypes DEF ProcRec
  <2>. QED BY <2>1 DEF Updated, TypeOK
<1>. QED BY <1>1, <1>2, <1>3, Puts

LEMMA UpdatesEndEffect ==
  ASSUME TypeOK, NEW n \in Proc, UpdatesEnd(n)
  PROVE  \/ procs[n].kind # "gateway" /\ Gone(n)
         \/ /\ procs[n].kind = "gateway"
            /\ Becomes(n, "gateway", "listen", procs[n].persona, {})
            /\ procs'[n].config = procs[n].config
<1>1. CASE procs[n].kind # "gateway"
  BY <1>1, EndsIdle DEF UpdatesEnd
<1>2. CASE procs[n].kind = "gateway"
  <2> DEFINE proc == [procs[n] EXCEPT !.step = "listen"]
  <2>1. Put(n, proc) /\ procs[n].todo = {}
    BY <1>2 DEF UpdatesEnd
  <2>2. /\ proc \in ProcRec /\ proc.config = procs[n].config /\ proc.step = "listen"
        /\ proc.kind = procs[n].kind /\ proc.persona = procs[n].persona /\ proc.todo = procs[n].todo
    BY ProcTypes DEF ProcRec, Step
  <2> HIDE DEF proc
  <2>. QED BY <1>2, <2>1, <2>2, Puts
<1>. QED BY <1>1, <1>2

LEMMA BootEffect ==
  ASSUME TypeOK, StepsOK, NEW n \in Proc, Boot(n)
  PROVE  \/ Thrown(n)
         \/ /\ Lists /\ UNCHANGED <<pidFile, service>>
            /\ procs'[n].config = procs[n].config
            /\ \/ /\ procs[n].config.relay
                  /\ Becomes(n, procs[n].kind, "update", procs[n].persona, Targets(procs[n]))
               \/ /\ ~procs[n].config.relay
                  /\ Becomes(n, procs[n].kind, "listen", procs[n].persona, procs[n].todo)
<1>1. CASE ~Lists
  BY <1>1, ExitsGone DEF Boot, Thrown, ServiceOK
<1>2. CASE Lists /\ procs[n].config.relay
  <2> DEFINE proc == [procs[n] EXCEPT !.step = "update", !.todo = Targets(procs[n])]
  <2>1. Put(n, proc) /\ UNCHANGED <<pidFile, service>>
    BY <1>2 DEF Boot
  <2>2. Targets(procs[n]) \in SUBSET Persona
    <3>1. procs[n].kind = "gateway"
      BY ProcTypes DEF Boot, StepsOK, ProcOK, StepsOf, ProcRec, Kinds
    <3>. QED BY <3>1 DEF Targets, Present
  <2>3. /\ proc \in ProcRec /\ proc.config = procs[n].config /\ proc.step = "update"
        /\ proc.kind = procs[n].kind /\ proc.persona = procs[n].persona /\ proc.todo = Targets(procs[n])
    BY <2>2, ProcTypes DEF ProcRec, Step
  <2> HIDE DEF proc
  <2>. QED BY <1>2, <2>1, <2>3, Puts
<1>3. CASE Lists /\ ~procs[n].config.relay
  <2> DEFINE proc == [procs[n] EXCEPT !.step = "listen"]
  <2>1. Put(n, proc) /\ UNCHANGED <<pidFile, service>>
    BY <1>3 DEF Boot
  <2>2. /\ proc \in ProcRec /\ proc.config = procs[n].config /\ proc.step = "listen"
        /\ proc.kind = procs[n].kind /\ proc.persona = procs[n].persona /\ proc.todo = procs[n].todo
    BY ProcTypes DEF ProcRec, Step
  <2> HIDE DEF proc
  <2>. QED BY <1>3, <2>1, <2>2, Puts
<1>. QED BY <1>1, <1>2, <1>3

LEMMA ListenEffect ==
  ASSUME TypeOK, NEW n \in Proc, Listen(n)
  PROVE  \/ Thrown(n)
         \/ \E step \in {"half", "serving"} :
              /\ Becomes(n, procs[n].kind, step, procs[n].persona, procs[n].todo)
              /\ procs'[n].config = procs[n].config
              /\ UNCHANGED <<pidFile, service>>
<1> DEFINE taken == \E k \in Proc : procs[k].bound
           step == IF taken THEN "half" ELSE "serving"
           proc == [procs[n] EXCEPT !.step = step, !.bound = ~taken]
<1>1. CASE Exits(n, TRUE)
  BY <1>1, ExitsGone DEF Thrown, ServiceOK
<1>2. CASE Put(n, proc) /\ UNCHANGED <<pidFile, service>>
  <2>1. step \in {"half", "serving"} /\ taken \in BOOLEAN
    OBVIOUS
  <2> HIDE DEF step, taken
  <2>2. /\ proc \in ProcRec /\ proc.config = procs[n].config /\ proc.step = step
        /\ proc.kind = procs[n].kind /\ proc.persona = procs[n].persona /\ proc.todo = procs[n].todo
    BY <2>1, ProcTypes, ZenonT(30) DEF ProcRec, Step
  <2> HIDE DEF proc
  <2>. QED BY <1>2, <2>1, <2>2, Puts
<1>. QED BY <1>1, <1>2 DEF Listen

\* A gateway starts, the one the pid file names told to end or not.
Begins(n, m) ==
  /\ procs[n] = Idle
  /\ procs' \in [Proc -> ProcRec]
  /\ Booting(procs'[n])
  /\ \A k \in Proc \ {n} : Ended(procs[k], procs'[k], k = m)
  /\ pidFile' = n
  /\ causes' = IF \E k \in Proc \ {n} : Live(k)' THEN causes \cup {"beside"} ELSE causes \ {"beside"}

LEMMA BeginsFacts ==
  ASSUME TypeOK, NEW n \in Proc, NEW m, NEW ps \in [Proc -> ProcRec], Told(procs, ps, m),
         procs[n] = Idle, Valid(config), procs' = Started(ps, n), pidFile' = n, causes' = Beside(ps, n)
  PROVE  Begins(n, m)
<1>1. /\ procs' \in [Proc -> ProcRec] /\ Booting(procs'[n])
      /\ \A k \in Proc \ {n} : procs'[k] = ps[k]
  BY StartedFacts
<1>2. \A k \in Proc \ {n} : Ended(procs[k], procs'[k], k = m)
  BY <1>1 DEF Told
<1>3. causes' = IF \E k \in Proc \ {n} : Live(k)' THEN causes \cup {"beside"} ELSE causes \ {"beside"}
  BY <1>1 DEF Beside, Live
<1>. QED BY <1>1, <1>2, <1>3 DEF Begins

LEMMA NobodyTold == Told(procs, procs, 0)
BY DEF Told, Ended, Proc

LEMMA StartEffect ==
  ASSUME TypeOK, NEW n \in Proc, Start(n)
  PROVE  Begins(n, 0)
BY NobodyTold, BeginsFacts, ProcTypes DEF Start, Free

LEMMA RestartEffect ==
  ASSUME TypeOK, NEW n \in Proc, Restart(n)
  PROVE  Begins(n, pidFile)
<1>1. Terminated(procs, pidFile) \in [Proc -> ProcRec] /\ Told(procs, Terminated(procs, pidFile), pidFile)
  BY TerminatedFacts, ProcTypes
<1>. QED BY <1>1, BeginsFacts DEF Restart, Free

LEMMA MainIsProc == Main \in Proc
BY WorkspaceBounds DEF Main, Proc

LEMMA SpawnEffect ==
  ASSUME TypeOK, Spawn
  PROVE  /\ ServiceOK'
         /\ Begins(Main, 0) /\ service'.state = "active"
<1>1. Begins(Main, 0)
  BY NobodyTold, BeginsFacts, ProcTypes, MainIsProc DEF Spawn
<1>. QED BY <1>1 DEF Spawn, ServiceOK, TypeOK

\* systemd's gateway is told to end.
Halts == procs' \in [Proc -> ProcRec] /\ Told(procs, procs', Main)

LEMMA CeasesEffect ==
  ASSUME TypeOK, NEW state, NEW cuts, Ceases(state, cuts)
  PROVE  Halts
BY TerminatedFacts, ProcTypes DEF Ceases, Halts

LEMMA UninstallEffect ==
  ASSUME TypeOK, NEW n \in Proc, Uninstall(n)
  PROVE  \/ Halts
         \/ /\ n # Main /\ procs[n] = Idle /\ procs' \in [Proc -> ProcRec]
            /\ \A k \in Proc \ {n} : Ended(procs[k], procs'[k], k = Main)
            /\ procs'[n].kind = "reinstall" /\ procs'[n].step = "install"
            /\ procs'[n].todo = {} /\ ~procs'[n].config.relay
<1> DEFINE ended == Terminated(procs, Main)
<1>1. ended \in [Proc -> ProcRec] /\ Told(procs, ended, Main)
  BY TerminatedFacts, ProcTypes
<1> HIDE DEF ended
<1>2. n # Main /\ procs[n] = Idle
  BY DEF Uninstall, Free, Command
<1>3. CASE procs' = ended
  BY <1>1, <1>3 DEF Halts
<1>4. CASE procs' = [ended EXCEPT ![n].kind = "reinstall", ![n].step = "install"]
  <2>1. ended[n] = Idle
    BY <1>1, <1>2 DEF Told, Ended
  <2>2. procs'[n] = [[ended[n] EXCEPT !.kind = "reinstall"] EXCEPT !.step = "install"]
    BY <1>1, <1>4
  <2>3. \A k \in Proc \ {n} : procs'[k] = ended[k]
    BY <1>1, <1>4
  <2>4. /\ Idle \in ProcRec /\ Idle.todo = {} /\ ~Idle.config.relay
    BY IdleType DEF Idle, NoConfig, Config
  <2>5. /\ procs'[n] \in ProcRec /\ procs'[n].kind = "reinstall" /\ procs'[n].step = "install"
        /\ procs'[n].todo = {} /\ ~procs'[n].config.relay
    BY <2>1, <2>2, <2>4 DEF ProcRec, Step, Kinds
  <2>6. procs' \in [Proc -> ProcRec]
    BY <1>1, <1>4, <2>3, <2>5
  <2>. QED BY <1>1, <1>2, <2>3, <2>5, <2>6 DEF Told
<1>. QED BY <1>3, <1>4 DEF Uninstall, ended

-----------------------------------------------------------------------------
(* Types, and the steps of the processes. *)

LEMMA OneMoves ==
  ASSUME TypedSteps, NEW n \in Proc, NEW kind, NEW step, NEW persona, NEW todo,
         Becomes(n, kind, step, persona, todo),
         step \in StepsOf(kind), step \notin {"update", "updating", "dying"} => todo = {},
         procs'[n].config.relay => procs'[n].config.file = "whole"
  PROVE  procs' \in [Proc -> ProcRec] /\ \A k \in Proc : ProcOK(procs'[k])
BY DEF Becomes, ProcOK, TypedSteps, StepsOK

LEMMA EndedSteps ==
  ASSUME NEW was \in ProcRec, NEW is, NEW told, ProcOK(was), Ended(was, is, told)
  PROVE  ProcOK(is)
<1>1. CASE told /\ was.kind = "gateway"
  BY <1>1 DEF Ended, ProcOK, StepsOf
<1>2. CASE ~told \/ was.kind # "gateway"
  BY <1>2 DEF Ended
<1>. QED BY <1>1, <1>2

\* The kind of a process tells its steps, and the other way round.
LEMMA KindSteps ==
  ASSUME TypedSteps, NEW n \in Proc
  PROVE  /\ procs[n] \in ProcRec /\ ProcOK(procs[n])
         /\ procs[n].step \in StepsOf(procs[n].kind)
         /\ procs[n].step = "fill" => procs[n].kind \in {"create", "bootstrap", "setup"}
         /\ procs[n].step \in {"configure", "configuring", "list"} => Writing(n)
         /\ procs[n].step = "configure" => procs[n].kind = "bootstrap"
         /\ procs[n].step \in {"update", "updating"} => Writing(n) \/ procs[n].kind = "gateway"
         /\ procs[n].step \in {"boot", "listen", "serving", "half", "dying"} => procs[n].kind = "gateway"
BY ProcTypes DEF TypedSteps, StepsOK, ProcOK, StepsOf, ProcRec, Kinds, Writing

LEMMA BeginsSteps ==
  ASSUME TypedSteps, NEW n \in Proc, NEW m, Begins(n, m)
  PROVE  procs' \in [Proc -> ProcRec] /\ \A k \in Proc : ProcOK(procs'[k])
<1>1. ProcOK(procs'[n])
  BY DEF Begins, Booting, ProcOK, StepsOf
<1>2. \A k \in Proc \ {n} : ProcOK(procs'[k])
  BY EndedSteps, KindSteps DEF Begins
<1>. QED BY <1>1, <1>2 DEF Begins

LEMMA HaltsSteps ==
  ASSUME TypedSteps, Halts
  PROVE  procs' \in [Proc -> ProcRec] /\ \A k \in Proc : ProcOK(procs'[k])
BY EndedSteps, KindSteps DEF Halts, Told

LEMMA GoneSteps ==
  ASSUME TypedSteps, NEW n \in Proc, Gone(n)
  PROVE  procs' \in [Proc -> ProcRec] /\ \A k \in Proc : ProcOK(procs'[k])
<1>1. "idle" \in StepsOf("none")
  BY DEF StepsOf
<1>. QED BY <1>1, OneMoves DEF Gone

LEMMA MakingSteps ==
  ASSUME TypedSteps, NEW n \in Proc, NEW kind \in {"create", "bootstrap", "setup"}, NEW given,
         Making(n, kind, given)
  PROVE  procs' \in [Proc -> ProcRec] /\ \A k \in Proc : ProcOK(procs'[k])
<1>1. "fill" \in StepsOf(kind)
  BY DEF StepsOf
<1>. QED BY <1>1, OneMoves DEF Making

ConfigOK == config \in ConfigRec

LEMMA ConfigTypes ==
  /\ TypeOK => ConfigOK /\ ServiceOK
  /\ \A c \in {Template, TornConfig} :
       /\ c \in ConfigRec
       /\ ~c.relay
BY WholeFile DEF TypeOK, ConfigOK, ConfigRec, ServiceOK

\* What has to be shown of a step.
LEMMA TypedAfter ==
  ASSUME ConfigOK', config'.relay => config'.file = "whole",
         personas' \in [Persona -> Domain \cup {"absent", "torn"}],
         pidFile' \in {0} \cup Proc, ServiceOK',
         procs' \in [Proc -> ProcRec], \A k \in Proc : ProcOK(procs'[k])
  PROVE  TypedSteps'
<1>1. config' \in {TornConfig} \cup [file : {"whole", "missing"}, domain : Domain, relay : BOOLEAN]
  BY DEF ConfigOK, ConfigRec, FileRec
<1>. QED BY <1>1 DEF TypedSteps, TypeOK, StepsOK, ServiceOK, ProcRec, Kinds

LEMMA TypedStep == TypedSteps /\ [Next]_vars => TypedSteps'
<1> SUFFICES ASSUME TypedSteps, [Next]_vars PROVE TypedSteps'
  OBVIOUS
<1> DEFINE ProcsOK == procs' \in [Proc -> ProcRec] /\ \A k \in Proc : ProcOK(procs'[k])
           PersonasOK == personas' \in [Persona -> Domain \cup {"absent", "torn"}]
<1>1. /\ TypeOK /\ ConfigOK /\ (config.relay => config.file = "whole") /\ ServiceOK
      /\ pidFile \in {0} \cup Proc /\ personas \in [Persona -> Domain \cup {"absent", "torn"}]
      /\ procs \in [Proc -> ProcRec] /\ \A k \in Proc : ProcOK(procs[k])
  BY ProcTypes, ConfigTypes DEF TypedSteps, TypeOK, StepsOK
<1>2. ASSUME UNCHANGED <<config, personas>>, pidFile' \in {0} \cup Proc, ServiceOK', ProcsOK
      PROVE TypedSteps'
  BY <1>1, <1>2, TypedAfter DEF ConfigOK
<1>3. ASSUME UNCHANGED <<config, pidFile, service>>, PersonasOK, ProcsOK
      PROVE TypedSteps'
  BY <1>1, <1>3, TypedAfter DEF ConfigOK, ServiceOK
<1>4. ASSUME UNCHANGED <<personas, pidFile, service>>, ConfigOK', config'.relay => config'.file = "whole", ProcsOK
      PROVE TypedSteps'
  BY <1>1, <1>4, TypedAfter DEF ServiceOK
<1> HIDE DEF ProcsOK, PersonasOK
<1>5. ASSUME NEW n \in Proc, Create(n) \/ Bootstrap(n) PROVE TypedSteps'
  <2>1. PersonasOK
    BY <1>1, <1>5, CreateEffect, BootstrapEffect DEF PersonasOK
  <2>2. ProcsOK
    <3>1. CASE Making(n, "create", DefaultDomain(config)) \/ Making(n, "bootstrap", DefaultDomain(config))
      BY <3>1, MakingSteps DEF ProcsOK
    <3>2. CASE Becomes(n, "bootstrap", "configure", 0, {}) /\ ~procs'[n].config.relay
      BY <3>2, OneMoves DEF ProcsOK, StepsOf
    <3>. QED BY <1>1, <1>5, <3>1, <3>2, CreateEffect, BootstrapEffect
  <2>. QED BY <1>3, <1>5, <2>1, <2>2 DEF Create, Bootstrap
<1>6. ASSUME NEW n \in Proc, Fill(n) PROVE TypedSteps'
  <2>1. CASE Gone(n)
    BY <1>1, <1>3, <1>6, <2>1, FillEffect, GoneSteps DEF Fill, ProcsOK, PersonasOK
  <2>2. CASE Becomes(n, "bootstrap", "configure", 0, {}) /\ ~procs'[n].config.relay
    <3>1. ProcsOK
      BY <2>2, OneMoves DEF ProcsOK, StepsOf
    <3>. QED BY <1>1, <1>3, <1>6, <3>1, FillEffect DEF Fill, PersonasOK
  <2>. QED BY <1>1, <1>6, <2>1, <2>2, FillEffect
<1>7. ASSUME NEW n \in Proc, Delete(n) PROVE TypedSteps'
  <2>1. PICK p \in Present :
          /\ personas' = [personas EXCEPT ![p] = "torn"]
          /\ Becomes(n, "delete", "remove", p, {}) /\ ~procs'[n].config.relay
    BY <1>1, <1>7, DeleteEffect
  <2>2. ProcsOK
    BY <2>1, OneMoves DEF ProcsOK, StepsOf
  <2>3. PersonasOK
    BY <1>1, <2>1 DEF PersonasOK
  <2>. QED BY <1>3, <1>7, <2>2, <2>3 DEF Delete
<1>8. ASSUME NEW n \in Proc, Removed(n) PROVE TypedSteps'
  <2>1. ProcsOK
    BY <1>1, <1>8, EndsIdle, GoneSteps DEF Removed, ProcsOK
  <2>2. PersonasOK
    BY <1>1, <1>8 DEF PersonasOK, Removed
  <2>. QED BY <1>3, <1>8, <2>1, <2>2 DEF Removed
<1>9. CASE InitWorkspace
  <2>1. /\ ConfigOK' /\ (config'.relay => config'.file = "whole")
        /\ UNCHANGED <<personas, pidFile, procs, service>>
    BY <1>1, <1>9, ConfigTypes DEF InitWorkspace, ConfigOK
  <2>. QED BY <1>1, <1>4, <2>1 DEF ProcsOK
<1>10. ASSUME NEW n \in Proc, Setup(n) PROVE TypedSteps'
  <2>1. ProcsOK
    BY <1>1, <1>10, SetupEffect, OneMoves DEF ProcsOK, StepsOf
  <2>2. ConfigOK' /\ (config'.relay => config'.file = "whole")
    BY <1>10, ConfigTypes DEF Setup, ConfigOK
  <2>. QED BY <1>4, <1>10, <2>1, <2>2 DEF Setup
<1>11. ASSUME NEW n \in Proc, Configure(n) PROVE TypedSteps'
  <2>1. CASE config' = config /\ Gone(n)
    <3>1. ProcsOK
      BY <2>1, GoneSteps DEF ProcsOK
    <3>2. ConfigOK' /\ (config'.relay => config'.file = "whole")
      BY <1>1, <2>1 DEF ConfigOK
    <3>. QED BY <1>4, <1>11, <3>1, <3>2 DEF Configure
  <2>2. CASE /\ config' = TornConfig
             /\ Becomes(n, procs[n].kind, "configuring", procs[n].persona, procs[n].todo)
             /\ procs'[n].config.file = "whole"
    <3>1. "configuring" \in StepsOf(procs[n].kind) /\ procs[n].todo = {}
      BY <1>11, KindSteps DEF Configure, StepsOf, ProcOK
    <3>2. ProcsOK
      BY <2>2, <3>1, OneMoves DEF ProcsOK
    <3>3. ConfigOK' /\ (config'.relay => config'.file = "whole")
      BY <2>2, ConfigTypes DEF ConfigOK
    <3>. QED BY <1>4, <1>11, <3>2, <3>3 DEF Configure
  <2>. QED BY <1>1, <1>11, <2>1, <2>2, ConfigureEffect
<1>12. ASSUME NEW n \in Proc, Configured(n) PROVE TypedSteps'
  <2>1. "list" \in StepsOf(procs[n].kind) /\ procs[n].todo = {} /\ ProcOK(procs[n]) /\ procs[n] \in ProcRec
    BY <1>12, KindSteps DEF Configured, StepsOf, ProcOK, Writing
  <2>2. /\ config' = procs[n].config /\ procs'[n].config = procs[n].config
        /\ Becomes(n, procs[n].kind, "list", procs[n].persona, procs[n].todo)
    BY <1>1, <1>12, ConfiguredEffect
  <2>3. ProcsOK
    BY <2>1, <2>2, OneMoves DEF ProcsOK, ProcOK
  <2>4. ConfigOK' /\ (config'.relay => config'.file = "whole")
    BY <2>1, <2>2 DEF ConfigOK, ConfigRec, FileRec, ProcRec, ProcOK
  <2>. QED BY <1>4, <1>12, <2>3, <2>4 DEF Configured
<1>13. ASSUME NEW n \in Proc, List(n) PROVE TypedSteps'
  <2>1. PersonasOK
    BY <1>1, <1>13, ListEffect DEF PersonasOK
  <2>2. ProcsOK
    <3>1. "update" \in StepsOf(procs[n].kind) /\ ProcOK(procs[n])
      BY <1>13, KindSteps DEF List, StepsOf, Writing
    <3>2. CASE Gone(n)
      BY <3>2, GoneSteps DEF ProcsOK
    <3>3. CASE Making(n, "setup", procs[n].config.domain)
      BY <3>3, MakingSteps DEF ProcsOK
    <3>4. CASE Listed(n)
      BY <3>1, <3>4, OneMoves DEF ProcsOK, Listed, ProcOK
    <3>. QED BY <1>1, <1>13, <3>2, <3>3, <3>4, ListEffect
  <2>. QED BY <1>3, <1>13, <2>1, <2>2 DEF List
<1>14. ASSUME NEW n \in Proc, Update(n) PROVE TypedSteps'
  <2>1. "updating" \in StepsOf(procs[n].kind) /\ ProcOK(procs[n])
    BY <1>14, KindSteps DEF Update, StepsOf, Writing
  <2>2. PICK p \in procs[n].todo :
          \/ personas' = personas /\ Thrown(n)
          \/ /\ personas' = [personas EXCEPT ![p] = "torn"]
             /\ Becomes(n, procs[n].kind, "updating", p, procs[n].todo)
             /\ procs'[n].config = procs[n].config
             /\ UNCHANGED <<pidFile, service>>
    BY <1>1, <1>14, UpdateEffect
  <2>3. CASE personas' = personas /\ Thrown(n)
    BY <1>2, <1>14, <2>3, GoneSteps DEF Thrown, Update, ProcsOK
  <2>4. CASE /\ personas' = [personas EXCEPT ![p] = "torn"]
             /\ Becomes(n, procs[n].kind, "updating", p, procs[n].todo)
             /\ procs'[n].config = procs[n].config
             /\ UNCHANGED <<pidFile, service>>
    <3>1. ProcsOK
      BY <2>1, <2>4, OneMoves DEF ProcsOK, ProcOK
    <3>2. PersonasOK
      BY <1>1, <2>4 DEF PersonasOK
    <3>. QED BY <1>3, <1>14, <2>4, <3>1, <3>2 DEF Update
  <2>. QED BY <2>2, <2>3, <2>4
<1>15. ASSUME NEW n \in Proc, Updated(n) PROVE TypedSteps'
  <2>1. "update" \in StepsOf(procs[n].kind) /\ ProcOK(procs[n])
    BY <1>15, KindSteps DEF Updated, StepsOf, Writing
  <2>2. ProcsOK
    BY <1>1, <1>15, <2>1, UpdatedEffect, OneMoves DEF ProcsOK, ProcOK
  <2>. QED BY <1>1, <1>3, <1>15, <2>2, UpdatedEffect DEF Updated, PersonasOK
<1>16. ASSUME NEW n \in Proc, UpdatesEnd(n) PROVE TypedSteps'
  <2>1. ProcOK(procs[n])
    BY KindSteps
  <2>2. CASE Gone(n)
    BY <1>1, <1>3, <1>16, <2>2, GoneSteps DEF ProcsOK, PersonasOK, UpdatesEnd
  <2>3. CASE Becomes(n, "gateway", "listen", procs[n].persona, {}) /\ procs'[n].config = procs[n].config
    <3>1. ProcsOK
      BY <2>1, <2>3, OneMoves DEF ProcsOK, StepsOf, ProcOK
    <3>. QED BY <1>1, <1>3, <1>16, <3>1 DEF PersonasOK, UpdatesEnd
  <2>. QED BY <1>1, <1>16, <2>2, <2>3, UpdatesEndEffect
<1>17. ASSUME NEW n \in Proc, Thrown(n), UNCHANGED <<config, personas>> PROVE TypedSteps'
  BY <1>2, <1>17, GoneSteps DEF Thrown, ProcsOK
<1>18. ASSUME NEW n \in Proc, Boot(n) PROVE TypedSteps'
  <2>1. procs[n].kind = "gateway" /\ ProcOK(procs[n]) /\ procs[n].todo = {} /\ StepsOK
    BY <1>18, KindSteps DEF Boot, ProcOK, TypedSteps
  <2>2. UNCHANGED <<config, personas>>
    BY <1>18 DEF Boot
  <2>3. ASSUME Becomes(n, procs[n].kind, "update", procs[n].persona, Targets(procs[n])),
               procs'[n].config = procs[n].config
        PROVE ProcsOK
    BY <2>1, <2>3, OneMoves DEF ProcsOK, StepsOf, ProcOK
  <2>4. ASSUME Becomes(n, procs[n].kind, "listen", procs[n].persona, procs[n].todo),
               procs'[n].config = procs[n].config
        PROVE ProcsOK
    BY <2>1, <2>4, OneMoves DEF ProcsOK, StepsOf, ProcOK
  <2>. QED BY <1>1, <1>2, <1>17, <1>18, <2>1, <2>2, <2>3, <2>4, BootEffect DEF ServiceOK
<1>19. ASSUME NEW n \in Proc, Listen(n) PROVE TypedSteps'
  <2>1. procs[n].kind = "gateway" /\ ProcOK(procs[n]) /\ procs[n].todo = {}
    BY <1>19, KindSteps DEF Listen, ProcOK
  <2>2. UNCHANGED <<config, personas>>
    BY <1>19 DEF Listen
  <2>3. ASSUME NEW step \in {"half", "serving"},
               Becomes(n, procs[n].kind, step, procs[n].persona, procs[n].todo),
               procs'[n].config = procs[n].config, UNCHANGED <<pidFile, service>>
        PROVE TypedSteps'
    <3>1. ProcsOK
      BY <2>1, <2>3, OneMoves DEF ProcsOK, StepsOf, ProcOK
    <3>. QED BY <1>1, <1>2, <2>2, <2>3, <3>1 DEF ServiceOK
  <2>. QED BY <1>1, <1>17, <1>19, <2>2, <2>3, ListenEffect
<1>20. ASSUME NEW n \in Proc, Dies(n) \/ Cut(n) PROVE TypedSteps'
  <2>1. Thrown(n)
    BY <1>1, <1>20, ExitsGone, CutEffect DEF Dies, Thrown, ServiceOK
  <2>. QED BY <1>17, <1>20, <2>1 DEF Dies, Cut
<1>21. ASSUME NEW n \in Proc, NEW m, Begins(n, m), ServiceOK', UNCHANGED <<config, personas>>
       PROVE TypedSteps'
  BY <1>2, <1>21, BeginsSteps DEF Begins, ProcsOK
<1>22. ASSUME NEW n \in Proc, Start(n) \/ Restart(n) PROVE TypedSteps'
  BY <1>1, <1>21, <1>22, StartEffect, RestartEffect DEF Start, Restart, ServiceOK
<1>23. CASE Spawn
  BY <1>1, <1>2, <1>21, <1>23, SpawnEffect, MainIsProc DEF Spawn, ProcsOK
<1>24. CASE Stop
  <2>1. procs' \in [Proc -> ProcRec] /\ Told(procs, procs', pidFile)
    BY <1>1, <1>24, TerminatedFacts DEF Stop
  <2>2. ProcsOK
    BY <2>1, EndedSteps, KindSteps DEF Told, ProcsOK
  <2>. QED BY <1>1, <1>2, <1>24, <2>2 DEF Stop, ServiceOK
<1>25. ASSUME NEW n \in Proc, Installs(n) PROVE TypedSteps'
  <2>1. ProcsOK
    BY <1>1, <1>25, EndsIdle, GoneSteps DEF Installs, ProcsOK
  <2>2. ServiceOK'
    BY <1>1, <1>25 DEF Installs, ServiceOK
  <2>. QED BY <1>1, <1>2, <1>25, <2>1, <2>2 DEF Installs
<1>26. ASSUME NEW n \in Proc, Uninstall(n) PROVE TypedSteps'
  <2>1. ASSUME Halts PROVE ProcsOK
    BY <2>1, HaltsSteps DEF ProcsOK
  <2>2. ASSUME n # Main, procs[n] = Idle, procs' \in [Proc -> ProcRec],
               \A k \in Proc \ {n} : Ended(procs[k], procs'[k], k = Main),
               procs'[n].kind = "reinstall", procs'[n].step = "install",
               procs'[n].todo = {}, ~procs'[n].config.relay
        PROVE ProcsOK
    <3>1. ProcOK(procs'[n])
      BY <2>2 DEF ProcOK, StepsOf
    <3>. QED BY <2>2, <3>1, EndedSteps, KindSteps DEF ProcsOK
  <2>3. ServiceOK'
    BY <1>1, <1>26 DEF Uninstall, ServiceOK
  <2>. QED BY <1>1, <1>2, <1>26, <2>1, <2>2, <2>3, UninstallEffect DEF Uninstall
<1>27. CASE Daemon
  <2>1. ProcsOK
    BY <1>1, <1>27, CeasesEffect, HaltsSteps DEF Daemon, DaemonStart, DaemonStop, DaemonRestart, ProcsOK
  <2>2. ServiceOK'
    <3>1. /\ service \in [installed : BOOLEAN, state : {"inactive", "active", "restart"}, cuts : 0 .. MaxCuts]
          /\ MaxCuts \in Nat
      BY <1>1, WorkspaceBounds DEF ServiceOK
    <3>2. CASE DaemonStart
      BY <3>1, <3>2 DEF DaemonStart, ServiceOK
    <3>3. CASE DaemonStop
      BY <3>1, <3>3 DEF DaemonStop, Ceases, ServiceOK
    <3>4. CASE DaemonRestart
      <4>1. service.cuts + 1 \in 0 .. MaxCuts
        BY <3>1, <3>4 DEF DaemonRestart
      <4>. QED BY <3>1, <3>4, <4>1 DEF DaemonRestart, Ceases, ServiceOK
    <3>. QED BY <1>27, <3>2, <3>3, <3>4 DEF Daemon
  <2>. QED BY <1>1, <1>2, <1>27, <2>1, <2>2 DEF Daemon, DaemonStart, DaemonStop, DaemonRestart
<1>29. CASE UNCHANGED vars
  BY <1>1, <1>2, <1>29 DEF vars, ProcsOK, ServiceOK
<1>. QED BY <1>5, <1>6, <1>7, <1>8, <1>9, <1>10, <1>11, <1>12, <1>13, <1>14, <1>15, <1>16, <1>18, <1>19,
            <1>20, <1>22, <1>23, <1>24, <1>25, <1>26, <1>27, <1>29
         DEF Next, Advance, Operator

LEMMA TypedInit == Init => TypedSteps
<1> SUFFICES ASSUME Init PROVE TypedSteps
  OBVIOUS
<1>1. config \in ConfigRec /\ ~config.relay
  <2>1. config \in {NoConfig, Template}
    BY DEF Init
  <2>. QED BY <2>1, WholeFile DEF ConfigRec
<1>2. procs \in [Proc -> ProcRec] /\ \A k \in Proc : ProcOK(procs[k])
  <2>1. ProcOK(Idle)
    BY DEF ProcOK, Idle, StepsOf, NoConfig, Config
  <2>. QED BY <2>1, IdleType DEF Init
<1>3. 0 \in 0 .. MaxCuts
  BY WorkspaceBounds
<1>4. ServiceOK
  BY <1>3 DEF Init, ServiceOK
<1>5. config \in {TornConfig} \cup [file : {"whole", "missing"}, domain : Domain, relay : BOOLEAN]
  BY <1>1 DEF ConfigRec, FileRec
<1>. QED BY <1>1, <1>2, <1>4, <1>5 DEF Init, TypedSteps, TypeOK, StepsOK, ServiceOK, ProcRec, Kinds

\* The types of TypeOK hold for any numbers of personas and processes and any
\* domains: no command, gateway or service writes anything else.
THEOREM TypeCorrect == Spec => []TypeOK
<1>1. TypedSteps /\ [Next]_vars => TypedSteps'
  BY TypedStep
<1>2. TypedSteps => TypeOK
  BY DEF TypedSteps
<1>. QED BY TypedInit, <1>1, <1>2, PTL DEF Spec

-----------------------------------------------------------------------------
(* The gateways that live. *)

\* A gateway lives after the step only if it did before, and is known to the
\* pid file or to systemd if it was.
NoneNew ==
  /\ "beside" \in causes => "beside" \in causes'
  /\ \A k \in Proc : Live(k)' =>
       /\ Live(k)
       /\ pidFile = k => pidFile' = k
       /\ k = Main /\ service.state = "active" => service'.state = "active"

LEMMA MovesOn ==
  ASSUME NEW n \in Proc, NEW kind, NEW step, NEW persona, NEW todo,
         Becomes(n, kind, step, persona, todo), kind = "gateway" /\ step # "dying" => Live(n),
         UNCHANGED <<pidFile, service>>, causes \ {"partial"} \subseteq causes'
  PROVE  NoneNew
BY DEF NoneNew, Becomes, Live

LEMMA EndsNow ==
  ASSUME NEW n \in Proc, Gone(n), pidFile # n => pidFile' = pidFile, n # Main => service' = service,
         causes \ {"partial"} \subseteq causes'
  PROVE  NoneNew
BY DEF NoneNew, Gone, Becomes, Live

LEMMA ToldToEnd ==
  ASSUME NEW m, Told(procs, procs', m), pidFile' = pidFile \/ m = pidFile,
         m # Main => service' = service, UNCHANGED causes
  PROVE  NoneNew
BY DEF NoneNew, Told, Ended, Live

\* The gateways of a step: one starts, or none does.
LEMMA GatewaySteps ==
  ASSUME TypedSteps, [Next]_vars
  PROVE  NoneNew \/ \E n \in Proc : \E m : Begins(n, m)
<1>1. TypeOK /\ StepsOK
  BY DEF TypedSteps
<1>2. ASSUME NEW n \in Proc, Create(n) \/ Delete(n) \/ Bootstrap(n) \/ Setup(n) PROVE NoneNew
  <2>1. UNCHANGED <<pidFile, service>> /\ causes \ {"partial"} \subseteq causes'
    BY <1>2 DEF Create, Delete, Bootstrap, Setup, Raced
  <2>2. \E kind \in {"create", "delete", "bootstrap", "setup"} : \E step, persona, todo :
          Becomes(n, kind, step, persona, todo)
    BY <1>1, <1>2, CreateEffect, DeleteEffect, BootstrapEffect, SetupEffect DEF Making
  <2>. QED BY <2>1, <2>2, MovesOn
<1>3. ASSUME NEW n \in Proc, Fill(n) \/ Removed(n) \/ UpdatesEnd(n) PROVE NoneNew
  <2>1. UNCHANGED <<pidFile, service, causes>>
    BY <1>3 DEF Fill, Removed, UpdatesEnd
  <2>2. CASE Gone(n)
    BY <2>1, <2>2, EndsNow
  <2>3. CASE Becomes(n, "bootstrap", "configure", 0, {})
    BY <2>1, <2>3, MovesOn
  <2>4. CASE UpdatesEnd(n) /\ procs[n].kind = "gateway" /\ Becomes(n, "gateway", "listen", procs[n].persona, {})
    BY <2>1, <2>4, MovesOn DEF UpdatesEnd, Live
  <2>. QED BY <1>1, <1>3, <2>2, <2>3, <2>4, FillEffect, UpdatesEndEffect, EndsIdle DEF Removed
<1>4. ASSUME NEW n \in Proc, Configure(n) \/ Configured(n) PROVE NoneNew
  <2>1. UNCHANGED <<pidFile, service, causes>> /\ procs[n].kind # "gateway"
    BY <1>4, KindSteps DEF Configure, Configured, Writing
  <2>2. CASE Gone(n)
    BY <2>1, <2>2, EndsNow
  <2>3. CASE \E step, persona, todo : Becomes(n, procs[n].kind, step, persona, todo)
    BY <2>1, <2>3, MovesOn
  <2>. QED BY <1>1, <1>4, <2>2, <2>3, ConfigureEffect, ConfiguredEffect
<1>5. ASSUME NEW n \in Proc, List(n) PROVE NoneNew
  <2>1. UNCHANGED <<pidFile, service>> /\ causes \subseteq causes' /\ procs[n].kind # "gateway"
    BY <1>5, KindSteps DEF List, Writing
  <2>2. CASE Gone(n)
    BY <2>1, <2>2, EndsNow
  <2>3. CASE Making(n, "setup", procs[n].config.domain)
    BY <2>1, <2>3, MovesOn DEF Making
  <2>4. CASE Listed(n)
    BY <2>1, <2>4, MovesOn DEF Listed
  <2>. QED BY <1>1, <1>5, <2>2, <2>3, <2>4, ListEffect
<1>6. ASSUME NEW n \in Proc, Update(n) \/ Updated(n) \/ Boot(n) \/ Listen(n) PROVE NoneNew
  <2>1. causes \ {"partial"} \subseteq causes' /\ (procs[n].kind = "gateway" => Live(n))
    BY <1>6 DEF Update, Updated, Boot, Listen, Live
  <2>2. CASE Thrown(n)
    BY <2>1, <2>2, EndsNow DEF Thrown
  <2>3. CASE /\ UNCHANGED <<pidFile, service>>
             /\ \E step, persona, todo : Becomes(n, procs[n].kind, step, persona, todo)
    BY <2>1, <2>3, MovesOn
  <2>4. Thrown(n) \/ UNCHANGED <<pidFile, service>>
    BY <1>1, <1>6, UpdateEffect, BootEffect, ListenEffect DEF Updated
  <2>5. Thrown(n) \/ \E step, persona, todo : Becomes(n, procs[n].kind, step, persona, todo)
    BY <1>1, <1>6, UpdateEffect, UpdatedEffect, BootEffect, ListenEffect
  <2>. QED BY <2>2, <2>3, <2>4, <2>5
<1>7. ASSUME NEW n \in Proc, Dies(n) \/ Cut(n) PROVE NoneNew
  <2>1. Thrown(n) /\ causes \subseteq causes'
    BY <1>1, <1>7, ExitsGone, CutEffect DEF Dies, Cut, Thrown, ServiceOK
  <2>. QED BY <2>1, EndsNow DEF Thrown
<1>8. ASSUME NEW n \in Proc, Installs(n) PROVE NoneNew
  <2>1. UNCHANGED <<pidFile, causes>> /\ service'.state = service.state
    BY <1>1, <1>8 DEF Installs, TypeOK
  <2>2. procs' = procs \/ Gone(n)
    BY <1>1, <1>8, EndsIdle DEF Installs
  <2>. QED BY <2>1, <2>2 DEF NoneNew, Gone, Becomes, Live
<1>9. ASSUME NEW n \in Proc, Uninstall(n) PROVE NoneNew
  <2>1. UNCHANGED <<pidFile, causes>>
    BY <1>9 DEF Uninstall
  <2>2. CASE Halts
    BY <2>1, <2>2, ToldToEnd DEF Halts
  <2>3. CASE /\ n # Main /\ \A k \in Proc \ {n} : Ended(procs[k], procs'[k], k = Main)
             /\ procs'[n].kind = "reinstall"
    BY <2>1, <2>3 DEF NoneNew, Ended, Live
  <2>. QED BY <1>1, <1>9, <2>2, <2>3, UninstallEffect
<1>10. CASE Stop
  <2>1. Told(procs, procs', pidFile) /\ UNCHANGED <<service, causes>>
    BY <1>1, <1>10, TerminatedFacts, ProcTypes DEF Stop
  <2>. QED BY <2>1, ToldToEnd
<1>11. CASE Daemon
  <2>1. UNCHANGED <<pidFile, causes>>
    BY <1>11 DEF Daemon, DaemonStart, DaemonStop, DaemonRestart
  <2>2. CASE DaemonStart
    BY <2>1, <2>2 DEF DaemonStart, NoneNew, Live
  <2>3. CASE DaemonStop \/ DaemonRestart
    BY <1>1, <2>1, <2>3, CeasesEffect, ToldToEnd DEF DaemonStop, DaemonRestart, Halts
  <2>. QED BY <1>11, <2>2, <2>3 DEF Daemon
<1>12. CASE Spawn
  <2>1. CASE UNCHANGED <<procs, pidFile, causes>> /\ service.state # "active"
    BY <2>1 DEF NoneNew, Live
  <2>. QED BY <1>1, <1>12, <2>1, SpawnEffect, MainIsProc
<1>13. ASSUME NEW n \in Proc, Start(n) \/ Restart(n) PROVE \E m : Begins(n, m)
  BY <1>1, <1>13, StartEffect, RestartEffect
<1>14. CASE InitWorkspace \/ UNCHANGED vars
  <2>1. UNCHANGED <<procs, pidFile, causes>> /\ service'.state = service.state
    BY <1>1, <1>14 DEF InitWorkspace, vars, TypeOK
  <2>. QED BY <2>1 DEF NoneNew, Live
<1>. QED BY <1>2, <1>3, <1>4, <1>5, <1>6, <1>7, <1>8, <1>9, <1>10, <1>11, <1>12, <1>13, <1>14
         DEF Next, Advance, Operator

\* Every gateway that lives is the one of the pid file or of systemd, unless
\* one was started beside another (startGatewayCommand, stop, the unit).
THEOREM GatewaysReachableHolds == Spec => []GatewaysReachable
<1>1. Init => TypedSteps /\ GatewaysReachable
  <2> SUFFICES ASSUME Init PROVE GatewaysReachable
    BY TypedInit
  <2>1. \A n \in Proc : ~Live(n)
    BY DEF Init, Live, Idle
  <2>. QED BY <2>1 DEF GatewaysReachable
<1>2. TypedSteps /\ GatewaysReachable /\ [Next]_vars => (TypedSteps /\ GatewaysReachable)'
  <2> SUFFICES ASSUME TypedSteps, GatewaysReachable, [Next]_vars PROVE GatewaysReachable'
    BY TypedStep
  <2>1. CASE NoneNew
    BY <2>1 DEF NoneNew, GatewaysReachable
  <2>2. ASSUME NEW n \in Proc, NEW m, Begins(n, m) PROVE GatewaysReachable'
    <3>1. "beside" \notin causes' => \A k \in Proc : Live(k)' => k = n
      BY <2>2 DEF Begins
    <3>2. pidFile' = n
      BY <2>2 DEF Begins
    <3>. QED BY <3>1, <3>2 DEF GatewaysReachable
  <2>. QED BY <2>1, <2>2, GatewaySteps
<1>. QED BY <1>1, <1>2, PTL DEF Spec

-----------------------------------------------------------------------------
(* The processes that write, and the personas they hold. *)

LEMMA NotDomains == "absent" \notin Domain /\ "torn" \notin Domain
BY LocalDomain

LEMMA AloneStep == TypedSteps /\ Alone /\ [Next]_vars => Alone'
<1> SUFFICES ASSUME TypedSteps, Alone, [Next]_vars PROVE Alone'
  OBVIOUS
<1>0. TypeOK /\ StepsOK
  BY DEF TypedSteps
<1>1. "beside" \notin causes' => \A j, k \in Proc : Live(j)' /\ Live(k)' => j = k
  <2>1. CASE NoneNew
    BY <2>1 DEF NoneNew, Alone
  <2>2. ASSUME NEW n \in Proc, NEW m, Begins(n, m)
        PROVE "beside" \notin causes' => \A k \in Proc : Live(k)' => k = n
    BY <2>2 DEF Begins
  <2>. QED BY <2>1, <2>2, GatewaySteps
<1> DEFINE Done == "partial" \notin causes' => \A j, k \in Proc : Writing(j)' /\ Writing(k)' => j = k
           Calm == /\ "partial" \in causes => "partial" \in causes'
                   /\ \A k \in Proc : Writing(k)' => Writing(k)
<1>2. ASSUME Calm PROVE Done
  BY <1>2 DEF Alone
<1>3. ASSUME NEW n \in Proc, Bootstrap(n) \/ Setup(n) PROVE Done
  <2>1. causes' = Raced(n)
    BY <1>3 DEF Bootstrap, Setup
  <2>2. \E kind, step, persona, todo : Becomes(n, kind, step, persona, todo)
    BY <1>0, <1>3, BootstrapEffect, SetupEffect DEF Making
  <2>3. \A k \in Proc : k # n => (Writing(k)' <=> Writing(k))
    BY <2>2 DEF Becomes, Writing
  <2>. QED BY <2>1, <2>3 DEF Raced, Others
<1>4. ASSUME NEW n \in Proc, Boot(n) PROVE Done
  <2>1. procs[n].kind = "gateway"
    BY <1>4, KindSteps DEF Boot
  <2>2. ~Writing(n)' /\ \A k \in Proc : k # n => (Writing(k)' <=> Writing(k))
    BY <1>0, <1>4, <2>1, BootEffect DEF Thrown, Gone, Becomes, Writing
  <2>3. CASE Others(n)
    BY <1>4, <2>3 DEF Boot
  <2>4. CASE ~Others(n)
    BY <2>2, <2>4 DEF Others
  <2>. QED BY <2>3, <2>4
<1>5. ASSUME NEW n \in Proc,
             \E kind, step, persona, todo :
               Becomes(n, kind, step, persona, todo) /\ (kind \in {"bootstrap", "setup"} => Writing(n)),
             causes \subseteq causes'
      PROVE Calm
  BY <1>5 DEF Becomes, Writing
<1>6. ASSUME NEW n \in Proc, Create(n) \/ Delete(n) PROVE Calm
  <2>1. UNCHANGED causes
    BY <1>6 DEF Create, Delete
  <2>2. \E kind \in {"create", "delete"} : \E step, persona, todo : Becomes(n, kind, step, persona, todo)
    BY <1>0, <1>6, CreateEffect, DeleteEffect DEF Making
  <2>. QED BY <1>5, <2>1, <2>2
<1>7. ASSUME NEW n \in Proc, Fill(n) \/ Removed(n) \/ Configure(n) \/ Configured(n) \/ UpdatesEnd(n)
      PROVE Calm
  <2>1. UNCHANGED causes
    BY <1>7 DEF Fill, Removed, Configure, Configured, UpdatesEnd
  <2>2. CASE Gone(n)
    <3>1. Becomes(n, "none", "idle", 0, {}) /\ ("none" \in {"bootstrap", "setup"} => Writing(n))
      BY <2>2 DEF Gone
    <3>. QED BY <1>5, <2>1, <3>1
  <2>3. CASE \E step, persona, todo : Becomes(n, procs[n].kind, step, persona, todo)
    <3>1. procs[n].kind \in {"bootstrap", "setup"} => Writing(n)
      BY DEF Writing
    <3>. QED BY <1>5, <2>1, <2>3, <3>1
  <2> HIDE DEF Calm
  <2>4. CASE Fill(n) \/ Removed(n)
    <3>1. Gone(n) \/ Becomes(n, procs[n].kind, "configure", 0, {})
      BY <1>0, <2>4, FillEffect, EndsIdle DEF Removed
    <3>. QED BY <2>2, <2>3, <3>1
  <2>5. CASE Configure(n) \/ Configured(n)
    BY <1>0, <2>2, <2>3, <2>5, ConfigureEffect, ConfiguredEffect
  <2>6. CASE UpdatesEnd(n)
    BY <1>0, <2>2, <2>3, <2>6, UpdatesEndEffect
  <2>. QED BY <1>7, <2>4, <2>5, <2>6
<1>8. ASSUME NEW n \in Proc, List(n) PROVE Calm
  <2>1. causes \subseteq causes' /\ Writing(n)
    BY <1>8, KindSteps DEF List
  <2>2. \E kind, step, persona, todo : Becomes(n, kind, step, persona, todo)
    BY <1>0, <1>8, ListEffect DEF Gone, Making, Listed
  <2>. QED BY <1>5, <2>1, <2>2
<1>9. ASSUME NEW n \in Proc, Update(n) \/ Updated(n) \/ Listen(n) \/ Dies(n) \/ Cut(n) PROVE Calm
  <2>1. causes \subseteq causes'
    BY <1>9 DEF Update, Updated, Listen, Dies, Cut
  <2>2. CASE Gone(n)
    <3>1. Becomes(n, "none", "idle", 0, {}) /\ ("none" \in {"bootstrap", "setup"} => Writing(n))
      BY <2>2 DEF Gone
    <3>. QED BY <1>5, <2>1, <3>1
  <2>3. CASE \E step, persona, todo : Becomes(n, procs[n].kind, step, persona, todo)
    <3>1. procs[n].kind \in {"bootstrap", "setup"} => Writing(n)
      BY DEF Writing
    <3>. QED BY <1>5, <2>1, <2>3, <3>1
  <2> HIDE DEF Calm
  <2>4. CASE Dies(n) \/ Cut(n)
    BY <1>0, <2>2, <2>4, ExitsGone, CutEffect DEF Dies, Thrown
  <2>5. CASE Update(n) \/ Updated(n)
    BY <1>0, <2>2, <2>3, <2>5, UpdateEffect, UpdatedEffect DEF Thrown
  <2>6. CASE Listen(n)
    BY <1>0, <2>2, <2>3, <2>6, ListenEffect DEF Thrown
  <2>. QED BY <1>9, <2>4, <2>5, <2>6
<1>10. ASSUME NEW n \in Proc, NEW m, Begins(n, m) PROVE Calm
  <2>1. "partial" \in causes => "partial" \in causes'
    BY <1>10 DEF Begins
  <2>2. \A k \in Proc : Writing(k)' => Writing(k)
    BY <1>10 DEF Begins, Booting, Ended, Writing
  <2>. QED BY <2>1, <2>2
<1>11. ASSUME NEW m, \A k \in Proc : Ended(procs[k], procs'[k], k = m) \/ procs'[k].kind \in {"none", "reinstall"},
              UNCHANGED causes
       PROVE Calm
  BY <1>11 DEF Ended, Writing
<1>12. ASSUME NEW n \in Proc, Start(n) \/ Restart(n) \/ Installs(n) \/ Uninstall(n) PROVE Calm
  <2>1. CASE Start(n) \/ Restart(n)
    BY <1>0, <1>10, <2>1, StartEffect, RestartEffect
  <2>2. CASE Installs(n)
    <3>1. UNCHANGED causes /\ (Gone(n) \/ UNCHANGED procs)
      BY <1>0, <2>2, EndsIdle DEF Installs
    <3>. QED BY <3>1 DEF Gone, Becomes, Writing
  <2>3. CASE Uninstall(n)
    <3>1. UNCHANGED causes
      BY <2>3 DEF Uninstall
    <3>. QED BY <1>0, <1>11, <2>3, <3>1, UninstallEffect DEF Halts, Told
  <2>. QED BY <1>12, <2>1, <2>2, <2>3
<1>13. CASE Stop \/ Daemon
  <2>1. UNCHANGED causes
    BY <1>13 DEF Stop, Daemon, DaemonStart, DaemonStop, DaemonRestart
  <2>2. \E m : Told(procs, procs', m)
    BY <1>0, <1>13, TerminatedFacts, ProcTypes, NobodyTold
       DEF Stop, Daemon, DaemonStart, DaemonStop, DaemonRestart, Ceases
  <2>3. Calm
    BY <1>11, <2>1, <2>2 DEF Told
  <2>. QED BY <1>1, <1>2, <2>3 DEF Alone
<1>14. CASE Spawn
  <2>1. Calm
    BY <1>0, <1>10, <1>14, SpawnEffect, MainIsProc DEF Writing
  <2>. QED BY <1>1, <1>2, <2>1 DEF Alone
<1>15. CASE InitWorkspace \/ UNCHANGED vars
  <2>1. Calm
    BY <1>15 DEF InitWorkspace, vars, Writing
  <2>. QED BY <1>1, <1>2, <2>1 DEF Alone
<1>16. ASSUME NEW n \in Proc, Advance(n) \/ Operator(n) \/ Cut(n) PROVE Done
  <2> HIDE DEF Done, Calm
  <2>. QED BY <1>2, <1>3, <1>4, <1>6, <1>7, <1>8, <1>9, <1>12, <1>16 DEF Advance, Operator
<1>. QED BY <1>1, <1>13, <1>14, <1>15, <1>16 DEF Next, Alone

\* A process moves on: what it leaves and what it takes hold of.
LEMMA HoldsKept ==
  ASSUME HoldsOK, NEW n \in Proc, NEW kind, NEW step, NEW persona, NEW todo,
         Becomes(n, kind, step, persona, todo),
         \A p \in Persona : personas'[p] \in Domain =>
           personas[p] \in Domain \/ (Holds(n) /\ p = procs[n].persona),
         step \in {"fill", "updating"} =>
           /\ persona \in Persona /\ personas'[persona] \notin Domain
           /\ \A k \in Proc \ {n} : Holds(k) => procs[k].persona # persona
  PROVE  HoldsOK'
<1>1. \A k \in Proc \ {n} : Holds(k)' = Holds(k) /\ procs'[k] = procs[k]
  BY DEF Becomes, Holds
<1>2. Holds(n)' => step \in {"fill", "updating"}
  BY DEF Becomes, Holds
<1>3. procs'[n].persona = persona
  BY DEF Becomes
<1>. QED BY <1>1, <1>2, <1>3 DEF HoldsOK

LEMMA HoldsMaking ==
  ASSUME TypedSteps, HoldsOK, NEW n \in Proc, NEW kind, NEW given, Making(n, kind, given)
  PROVE  HoldsOK'
<1>1. PICK p \in Persona :
        /\ personas[p] = "absent" /\ \A k \in Proc : procs[k].persona # p
        /\ personas' = [personas EXCEPT ![p] = "torn"]
        /\ Becomes(n, kind, "fill", p, {})
  BY DEF Making
<1>2. \A q \in Persona : personas'[q] \in Domain => personas[q] \in Domain
  BY <1>1, NotDomains DEF TypedSteps, TypeOK
<1>3. personas'[p] \notin Domain
  BY <1>1, NotDomains DEF TypedSteps, TypeOK
<1>. QED BY <1>1, <1>2, <1>3, HoldsKept

LEMMA HoldsStep == TypedSteps /\ HoldsOK /\ [Next]_vars => HoldsOK'
<1> SUFFICES ASSUME TypedSteps, HoldsOK, [Next]_vars PROVE HoldsOK'
  OBVIOUS
<1>0. /\ TypeOK /\ StepsOK
      /\ personas \in [Persona -> Domain \cup {"absent", "torn"}]
  BY DEF TypedSteps, TypeOK
<1>1. ASSUME NEW n \in Proc, NEW kind, NEW step, NEW persona, NEW todo,
             Becomes(n, kind, step, persona, todo), step \notin {"fill", "updating"},
             \A p \in Persona : personas'[p] \in Domain =>
               personas[p] \in Domain \/ (Holds(n) /\ p = procs[n].persona)
      PROVE HoldsOK'
  BY <1>1, HoldsKept
<1>2. ASSUME NEW n \in Proc, Create(n) \/ Bootstrap(n) PROVE HoldsOK'
  <2>1. CASE Becomes(n, "bootstrap", "configure", 0, {}) /\ personas' = personas
    BY <1>1, <2>1
  <2>. QED BY <1>0, <1>2, <2>1, CreateEffect, BootstrapEffect, HoldsMaking
<1>3. ASSUME NEW n \in Proc, Fill(n) \/ Updated(n) PROVE HoldsOK'
  <2>1. Holds(n)
    BY <1>3 DEF Fill, Updated, Holds
  <2>2. \A p \in Persona : p # procs[n].persona => personas'[p] = personas[p]
    BY <1>0, <1>3 DEF Fill, Updated
  <2>3. \E kind, persona, todo : \E step \in {"idle", "configure", "update"} :
          Becomes(n, kind, step, persona, todo)
    BY <1>0, <1>3, FillEffect, UpdatedEffect DEF Gone
  <2>. QED BY <1>1, <2>1, <2>2, <2>3
<1>4. ASSUME NEW n \in Proc, Delete(n) \/ Removed(n) PROVE HoldsOK'
  <2>1. \A p \in Persona : personas'[p] \in Domain => personas[p] \in Domain
    BY <1>0, <1>4, NotDomains DEF Delete, Removed
  <2>2. \E kind, persona, todo : \E step \in {"idle", "remove"} :
          Becomes(n, kind, step, persona, todo)
    BY <1>0, <1>4, DeleteEffect, EndsIdle DEF Removed, Gone
  <2>. QED BY <1>1, <2>1, <2>2
<1>5. ASSUME NEW n \in Proc, Update(n) PROVE HoldsOK'
  <2>1. PICK p \in procs[n].todo :
          \/ personas' = personas /\ Gone(n)
          \/ /\ personas[p] \in Domain /\ personas' = [personas EXCEPT ![p] = "torn"]
             /\ Becomes(n, procs[n].kind, "updating", p, procs[n].todo)
    BY <1>0, <1>5, UpdateEffect DEF Thrown
  <2>2. CASE personas' = personas /\ Gone(n)
    BY <1>1, <2>2 DEF Gone
  <2>3. CASE /\ personas[p] \in Domain /\ personas' = [personas EXCEPT ![p] = "torn"]
             /\ Becomes(n, procs[n].kind, "updating", p, procs[n].todo)
    <3>1. p \in Persona
      BY KindSteps DEF ProcRec
    <3>2. \A q \in Persona : personas'[q] \in Domain => personas[q] \in Domain
      BY <1>0, <2>3, NotDomains
    <3>3. personas'[p] \notin Domain
      BY <1>0, <2>3, <3>1, NotDomains
    <3>4. \A k \in Proc \ {n} : Holds(k) => procs[k].persona # p
      BY <2>3 DEF HoldsOK
    <3>. QED BY <2>3, <3>1, <3>2, <3>3, <3>4, HoldsKept
  <2>. QED BY <2>1, <2>2, <2>3
<1>6. ASSUME NEW n \in Proc, Setup(n) \/ Configure(n) \/ Configured(n) \/ UpdatesEnd(n) \/ Boot(n)
                             \/ Listen(n) \/ Dies(n) \/ Cut(n)
      PROVE HoldsOK'
  <2>1. personas' = personas
    BY <1>6 DEF Setup, Configure, Configured, UpdatesEnd, Boot, Listen, Dies, Cut
  <2>2. Dies(n) \/ Cut(n) => Gone(n)
    BY <1>0, ExitsGone, CutEffect DEF Dies, Thrown
  <2>3. CASE Gone(n)
    BY <1>1, <2>1, <2>3 DEF Gone
  <2>4. CASE \E kind, persona, todo :
               \E step \in {"configuring", "list", "listen", "update", "half", "serving"} :
                 Becomes(n, kind, step, persona, todo)
    BY <1>1, <2>1, <2>4
  <2>5. CASE Setup(n) \/ Configure(n) \/ Configured(n)
    BY <1>0, <2>3, <2>4, <2>5, SetupEffect, ConfigureEffect, ConfiguredEffect
  <2>6. CASE UpdatesEnd(n) \/ Boot(n)
    BY <1>0, <2>3, <2>4, <2>6, UpdatesEndEffect, BootEffect DEF Thrown
  <2>7. CASE Listen(n)
    <3>1. Gone(n) \/ \E step \in {"half", "serving"} :
                       Becomes(n, procs[n].kind, step, procs[n].persona, procs[n].todo)
      BY <1>0, <2>7, ListenEffect DEF Thrown
    <3>. QED BY <2>3, <2>4, <3>1
  <2>. QED BY <1>6, <2>2, <2>3, <2>5, <2>6, <2>7
<1>7. ASSUME NEW n \in Proc, List(n) PROVE HoldsOK'
  <2>1. CASE Gone(n) /\ personas' = personas
    BY <1>1, <2>1 DEF Gone
  <2>2. CASE Listed(n) /\ personas' = personas
    BY <1>1, <2>2 DEF Listed
  <2>. QED BY <1>0, <1>7, <2>1, <2>2, ListEffect, HoldsMaking
\* Nobody takes hold of a persona.
<1>8. ASSUME personas' = personas,
             \A k \in Proc : Holds(k)' => Holds(k) /\ procs'[k].persona = procs[k].persona
      PROVE HoldsOK'
  BY <1>8 DEF HoldsOK
<1>9. ASSUME NEW n \in Proc, NEW m, Begins(n, m), personas' = personas PROVE HoldsOK'
  <2>1. \A k \in Proc \ {n} : Ended(procs[k], procs'[k], k = m)
    BY <1>9 DEF Begins
  <2>2. procs'[n].step = "boot"
    BY <1>9 DEF Begins, Booting
  <2>3. \A k \in Proc : Holds(k)' => Holds(k) /\ procs'[k].persona = procs[k].persona
    BY <2>1, <2>2 DEF Ended, Holds
  <2>. QED BY <1>8, <1>9, <2>3
<1>10. ASSUME NEW n \in Proc, Start(n) \/ Restart(n) \/ Installs(n) \/ Uninstall(n) PROVE HoldsOK'
  <2>1. personas' = personas
    BY <1>10 DEF Start, Restart, Installs, Uninstall
  <2>2. CASE Installs(n)
    <3>1. Gone(n) \/ UNCHANGED procs
      BY <1>0, <2>2, EndsIdle DEF Installs
    <3>. QED BY <1>1, <1>8, <2>1, <3>1 DEF Gone, Holds
  <2>3. CASE Uninstall(n)
    <3>1. \A k \in Proc : Ended(procs[k], procs'[k], k = Main) \/ procs'[k].step = "install"
      BY <1>0, <2>3, UninstallEffect DEF Halts, Told
    <3>. QED BY <1>8, <2>1, <3>1 DEF Ended, Holds
  <2>. QED BY <1>0, <1>9, <1>10, <2>1, <2>2, <2>3, StartEffect, RestartEffect
<1>11. CASE Stop \/ Daemon
  <2>1. personas' = personas
    BY <1>11 DEF Stop, Daemon, DaemonStart, DaemonStop, DaemonRestart
  <2>2. \E m : Told(procs, procs', m)
    BY <1>0, <1>11, TerminatedFacts, ProcTypes, NobodyTold
       DEF Stop, Daemon, DaemonStart, DaemonStop, DaemonRestart, Ceases
  <2>. QED BY <1>8, <2>1, <2>2 DEF Told, Ended, Holds
<1>12. CASE Spawn
  <2>1. CASE UNCHANGED procs
    BY <1>8, <1>12, <2>1 DEF Spawn, Holds
  <2>. QED BY <1>0, <1>9, <1>12, <2>1, SpawnEffect, MainIsProc DEF Spawn
<1>13. CASE InitWorkspace \/ UNCHANGED vars
  BY <1>8, <1>13 DEF InitWorkspace, vars, Holds
<1>. QED BY <1>2, <1>3, <1>4, <1>5, <1>6, <1>7, <1>10, <1>11, <1>12, <1>13 DEF Next, Advance, Operator

-----------------------------------------------------------------------------
(* The domain of the configuration and those of the personas. *)

\* A persona that is not made yet is torn already when another is.
LEMMA TornStays ==
  ASSUME TypedSteps, HoldsOK, NEW p \in Persona, personas' = [personas EXCEPT ![p] = "torn"],
         personas[p] # "absent", NEW k \in Proc, procs[k].step = "fill",
         personas'[procs[k].persona] = "torn"
  PROVE  personas[procs[k].persona] = "torn"
<1>1. /\ personas \in [Persona -> Domain \cup {"absent", "torn"}]
      /\ procs[k].persona \in Persona /\ personas[procs[k].persona] \notin Domain
  BY DEF TypedSteps, TypeOK, HoldsOK, Holds
<1>. QED BY <1>1

\* The part of a step of one process that keeps the personas in agreement.
Keeps(n, g) ==
  /\ \A p \in Persona : personas'[p] \in Domain =>
       personas'[p] = personas[p] \/ personas'[p] = config.domain
  /\ \A p \in procs[n].todo : personas'[p] \in Domain /\ (Writing(n) \/ n = g) =>
       personas'[p] = config.domain \/ (p \in procs'[n].todo /\ (Writing(n)' \/ n = g))
  /\ \A k \in Proc \ {n} : procs[k].step = "fill" /\ personas'[procs[k].persona] = "torn" =>
       personas[procs[k].persona] = "torn"
  /\ procs'[n].step = "fill" /\ personas'[procs'[n].persona] = "torn" =>
       procs'[n].config.domain = config.domain
  /\ Writing(n)' =>
       /\ procs'[n].step # "configuring"
       /\ procs'[n].step \in {"list", "update", "updating"} => procs'[n].config = config

LEMMA AgreementKept ==
  ASSUME NEW g \in Proc, NEW n \in Proc, AgreesWith(g), config' = config,
         NEW kind, NEW step, NEW persona, NEW todo, Becomes(n, kind, step, persona, todo),
         procs[n].step # "list", Keeps(n, g)
  PROVE  AgreesWith(g)'
<1>1. \A k \in Proc \ {n} : procs'[k] = procs[k] /\ (Writing(k)' <=> Writing(k))
  BY DEF Becomes, Writing
<1>2. \A k \in Proc : Writing(k)' =>
        /\ procs'[k].step # "configuring"
        /\ procs'[k].step \in {"list", "update", "updating"} => procs'[k].config = config'
  BY <1>1 DEF AgreesWith, Keeps
<1>3. CASE \E k \in Proc : procs[k].step = "list"
  <2>1. \E k \in Proc : procs'[k].step = "list"
    BY <1>1, <1>3
  <2>. QED BY <1>2, <2>1 DEF AgreesWith
<1>4. CASE Consistent(g)
  <2>1. ASSUME NEW p \in Persona, personas'[p] \in Domain, personas'[p] # config.domain
        PROVE p \in Pending(g)'
    <3>1. personas'[p] = personas[p]
      BY <2>1 DEF Keeps
    <3>2. PICK k \in Proc : (Writing(k) \/ k = g) /\ p \in procs[k].todo
      BY <1>4, <2>1, <3>1 DEF Consistent, Pending
    <3>3. p \in procs'[k].todo /\ (Writing(k)' \/ k = g)
      BY <1>1, <2>1, <3>2 DEF Keeps
    <3>. QED BY <3>3 DEF Pending
  <2>2. ASSUME NEW k \in Proc, procs'[k].step = "fill", personas'[procs'[k].persona] = "torn"
        PROVE procs'[k].config.domain = config.domain
    BY <1>1, <1>4, <2>2 DEF Keeps, Consistent
  <2>3. Consistent(g)'
    BY <2>1, <2>2 DEF Consistent
  <2>. QED BY <1>2, <2>3 DEF AgreesWith
<1>. QED BY <1>3, <1>4 DEF AgreesWith

\* Nobody who writes or makes a persona changes, nor does the gateway.
LEMMA AgreementStays ==
  ASSUME NEW g \in Proc, AgreesWith(g), UNCHANGED <<config, personas>>, procs'[g] = procs[g],
         \A k \in Proc : procs'[k] = procs[k] \/
           /\ ~Writing(k) /\ ~Writing(k)' /\ procs[k].step # "list"
           /\ procs'[k].step # "fill"
  PROVE  AgreesWith(g)'
<1>1. \A k \in Proc : Writing(k)' => Writing(k) /\ procs'[k] = procs[k]
  BY DEF Writing
<1>2. \A k \in Proc : Writing(k) => Writing(k)' /\ procs'[k] = procs[k]
  BY DEF Writing
<1>3. Pending(g)' = Pending(g)
  BY <1>1, <1>2 DEF Pending
<1>4. \A k \in Proc : procs[k].step = "list" => procs'[k].step = "list"
  OBVIOUS
<1>5. Consistent(g) => Consistent(g)'
  BY <1>3 DEF Consistent
<1>. QED BY <1>1, <1>4, <1>5 DEF AgreesWith

LEMMA AgreeStep == DomInv /\ [Next]_vars => Agree'
<1> SUFFICES ASSUME DomInv, [Next]_vars, causes' = {}, NEW g \in Proc, Works(g)'
             PROVE  AgreesWith(g)'
  BY DEF Agree
<1>0. /\ TypedSteps /\ TypeOK /\ StepsOK /\ HoldsOK /\ Alone /\ Agree
      /\ personas \in [Persona -> Domain \cup {"absent", "torn"}]
  BY DEF DomInv, TypedSteps, TypeOK
<1>1. TypedSteps' /\ HoldsOK' /\ Alone'
  BY <1>0, TypedStep, HoldsStep, AloneStep
<1>2. /\ config' = procs'[g].config /\ config'.relay /\ config'.file = "whole"
      /\ procs'[g].kind = "gateway" /\ procs'[g].step \notin {"boot", "dying"}
  BY <1>1 DEF Works, Live, TypedSteps, StepsOK
<1>3. /\ \A k \in Proc : Live(k)' => k = g
      /\ \A j, k \in Proc : Writing(j)' /\ Writing(k)' => j = k
  BY <1>1, <1>2 DEF Alone, Works
<1>4. ~ \E n \in Proc : \E m : Begins(n, m)
  <2> SUFFICES ASSUME NEW n \in Proc, NEW m, Begins(n, m) PROVE FALSE
    OBVIOUS
  <2>1. procs'[n].kind = "gateway" /\ procs'[n].step = "boot"
    BY DEF Begins, Booting
  <2>. QED BY <1>2, <1>3, <2>1 DEF Live
<1>5. Live(g)
  BY <1>0, <1>4, GatewaySteps DEF NoneNew, Works
\* A step that leaves the configuration and begins with no cause.
<1>6. ASSUME config' = config, causes = {}, procs'[g].config = procs[g].config, procs[g].step # "boot"
      PROVE Works(g) /\ AgreesWith(g)
  BY <1>0, <1>2, <1>5, <1>6 DEF Works, Agree
<1>7. ASSUME NEW n \in Proc, NEW kind, NEW step, NEW persona, NEW todo, Becomes(n, kind, step, persona, todo),
             config' = config, causes = {}, procs'[n].config = procs[n].config \/ n # g,
             procs[n].step \notin {"boot", "list"}, Keeps(n, g)
      PROVE AgreesWith(g)'
  <2>1. procs'[g].config = procs[g].config /\ (n # g => procs'[g] = procs[g])
    BY <1>7 DEF Becomes
  <2>2. procs[g].step # "boot"
    BY <1>2, <1>7, <2>1
  <2>. QED BY <1>6, <1>7, <2>1, <2>2, AgreementKept
<1>8. ASSUME NEW n \in Proc, NEW kind \in {"create", "bootstrap"}, Making(n, kind, DefaultDomain(config)),
             config' = config, causes = {}, procs[n] = Idle
      PROVE AgreesWith(g)'
  <2>1. PICK p \in Persona :
          /\ personas[p] = "absent" /\ \A k \in Proc : procs[k].persona # p
          /\ personas' = [personas EXCEPT ![p] = "torn"]
          /\ Becomes(n, kind, "fill", p, {})
          /\ procs'[n].config.domain = DefaultDomain(config)
    BY <1>8 DEF Making
  <2>2. n # g /\ procs[n].step = "idle" /\ procs[n].todo = {}
    BY <1>5, <1>8 DEF Idle, Live
  <2>3. procs'[n].config.domain = config.domain
    BY <1>2, <1>8, <2>1 DEF DefaultDomain
  <2>4. \A q \in Persona : personas'[q] \in Domain => personas'[q] = personas[q]
    BY <1>0, <2>1, NotDomains
  <2>5. \A k \in Proc : procs[k].step = "fill" /\ personas'[procs[k].persona] = "torn" =>
          personas[procs[k].persona] = "torn"
    BY <1>0, <2>1
  <2>6. procs'[n].step = "fill"
    BY <2>1 DEF Becomes
  <2>7. Keeps(n, g)
    BY <2>2, <2>3, <2>4, <2>5, <2>6 DEF Keeps
  <2>. QED BY <1>7, <1>8, <2>1, <2>2, <2>7
<1>9. ASSUME NEW n \in Proc, Create(n) PROVE AgreesWith(g)'
  BY <1>0, <1>8, <1>9, CreateEffect DEF Create
<1>10. ASSUME NEW n \in Proc, Bootstrap(n) PROVE AgreesWith(g)'
  <2>1. config' = config /\ causes = {} /\ procs[n] = Idle
    BY <1>10 DEF Bootstrap, Raced, Free
  <2>2. CASE Becomes(n, "bootstrap", "configure", 0, {}) /\ personas' = personas
    <3>1. n # g /\ procs[n].step = "idle" /\ procs[n].todo = {}
      BY <1>5, <2>1 DEF Idle, Live
    <3>2. procs'[n].step = "configure"
      BY <2>2 DEF Becomes
    <3>3. Keeps(n, g)
      BY <2>2, <3>1, <3>2 DEF Keeps
    <3>. QED BY <1>7, <2>1, <2>2, <3>1, <3>3
  <2>. QED BY <1>0, <1>8, <1>10, <2>1, <2>2, BootstrapEffect
\* A process that is gone had nothing left to do.
<1>11. ASSUME NEW n \in Proc, Gone(n), UNCHANGED <<config, personas>>, causes = {}, n # g,
              procs[n].step \notin {"boot", "list"}, Writing(n) => procs[n].todo = {}
       PROVE AgreesWith(g)'
  <2>1. Becomes(n, "none", "idle", 0, {}) /\ procs'[n].step = "idle" /\ procs'[n].kind = "none"
    BY <1>11 DEF Gone, Becomes
  <2>2. Keeps(n, g)
    BY <1>11, <2>1 DEF Keeps, Writing
  <2>. QED BY <1>7, <1>11, <2>1, <2>2
<1>12. ASSUME NEW n \in Proc, Fill(n) PROVE AgreesWith(g)'
  <2>1. /\ UNCHANGED <<config, causes>> /\ procs[n].step = "fill" /\ procs[n].todo = {}
        /\ personas' = [personas EXCEPT ![procs[n].persona] =
                          IF @ = "torn" THEN procs[n].config.domain ELSE @]
    BY <1>12, KindSteps, <1>0 DEF Fill, ProcOK
  <2>2. n # g
    BY <1>0, <1>5, <2>1, KindSteps DEF Live
  <2>3. \E kind, persona : \E step \in {"idle", "configure"} :
          Becomes(n, kind, step, persona, {})
    BY <1>0, <1>12, FillEffect DEF Gone
  <2>4. procs'[n].step \in {"idle", "configure"}
    BY <2>3 DEF Becomes
  <2>5. AgreesWith(g) /\ procs'[g] = procs[g]
    <3>1. procs'[g] = procs[g]
      BY <2>2, <2>3 DEF Becomes
    <3>. QED BY <1>2, <1>6, <2>1, <3>1
  <2>6. CASE \E k \in Proc : procs[k].step = "list"
    <3>1. PICK k \in Proc : procs[k].step = "list"
      BY <2>6
    <3>2. Writing(k) /\ k # n
      BY <1>0, <2>1, <3>1, KindSteps
    <3>3. procs'[k] = procs[k]
      BY <2>3, <3>2 DEF Becomes
    <3>4. \A j \in Proc : Writing(j)' => j = k
      BY <1>3, <3>2, <3>3 DEF Writing
    <3>5. procs[k].config = config
      BY <2>5, <3>1, <3>2 DEF AgreesWith
    <3>. QED BY <2>1, <3>1, <3>3, <3>4, <3>5 DEF AgreesWith
  <2>7. CASE ~ \E k \in Proc : procs[k].step = "list"
    <3>1. personas[procs[n].persona] = "torn" => procs[n].config.domain = config.domain
      BY <2>1, <2>5, <2>7 DEF AgreesWith, Consistent
    <3>2. \A p \in Persona : personas'[p] \in Domain =>
            personas'[p] = personas[p] \/ personas'[p] = config.domain
      BY <1>0, <2>1, <3>1
    <3>3. \A k \in Proc : procs[k].step = "fill" /\ personas'[procs[k].persona] = "torn" =>
            personas[procs[k].persona] = "torn"
      <4> SUFFICES ASSUME NEW k \in Proc, procs[k].step = "fill", personas'[procs[k].persona] = "torn"
                   PROVE  personas[procs[k].persona] = "torn"
        OBVIOUS
      <4>1. procs[n].config.domain \in Domain /\ procs[k].persona \in Persona
        BY <1>0, KindSteps DEF ProcRec, HoldsOK, Holds
      <4>. QED BY <1>0, <2>1, <4>1, NotDomains
    <3>4. Keeps(n, g)
      BY <2>1, <2>4, <3>2, <3>3 DEF Keeps
    <3>. QED BY <1>7, <2>1, <2>2, <2>3, <3>4
  <2>. QED BY <2>6, <2>7
<1>13. ASSUME NEW n \in Proc, Delete(n) PROVE AgreesWith(g)'
  <2>1. PICK p \in Present :
          /\ personas' = [personas EXCEPT ![p] = "torn"]
          /\ Becomes(n, "delete", "remove", p, {})
    BY <1>0, <1>13, DeleteEffect
  <2>2. p \in Persona /\ personas[p] # "absent"
    BY DEF Present
  <2>3. /\ UNCHANGED <<config, causes>> /\ n # g /\ procs[n].step = "idle" /\ procs[n].todo = {}
    BY <1>5, <1>13 DEF Delete, Free, Idle, Live
  <2>4. procs'[n].step = "remove" /\ procs'[n].kind = "delete"
    BY <2>1 DEF Becomes
  <2>5. \A q \in Persona : personas'[q] \in Domain => personas'[q] = personas[q]
    BY <1>0, <2>1, NotDomains
  <2>6. Keeps(n, g)
    BY <1>0, <2>1, <2>2, <2>3, <2>4, <2>5, TornStays DEF Keeps, Writing
  <2>. QED BY <1>7, <2>1, <2>3, <2>6
<1>14. ASSUME NEW n \in Proc, Removed(n) PROVE AgreesWith(g)'
  <2>1. /\ UNCHANGED <<config, causes>> /\ procs[n].step = "remove" /\ procs[n].todo = {}
        /\ personas' = [personas EXCEPT ![procs[n].persona] = "absent"]
        /\ Becomes(n, "none", "idle", 0, {})
    BY <1>0, <1>14, KindSteps, EndsIdle DEF Removed, ProcOK, Gone
  <2>2. procs'[n].step = "idle" /\ procs'[n].kind = "none"
    BY <2>1 DEF Becomes
  <2>3. n # g
    BY <1>2, <2>2
  <2>4. \A q \in Persona : personas'[q] \in Domain => personas'[q] = personas[q]
    BY <1>0, <2>1, NotDomains
  <2>5. \A k \in Proc : procs[k].step = "fill" /\ personas'[procs[k].persona] = "torn" =>
          personas[procs[k].persona] = "torn"
    BY <1>0, <2>1
  <2>6. Keeps(n, g)
    BY <2>1, <2>2, <2>4, <2>5 DEF Keeps, Writing
  <2>. QED BY <1>7, <2>1, <2>3, <2>6
<1>15. CASE InitWorkspace
  <2>1. config' = config
    BY <1>2, <1>15, ConfigTypes DEF InitWorkspace
  <2>2. UNCHANGED <<personas, procs, causes>>
    BY <1>15 DEF InitWorkspace
  <2>. QED BY <1>2, <1>6, <2>1, <2>2, AgreementStays
<1>16. ASSUME NEW n \in Proc, Setup(n) \/ Configure(n) PROVE FALSE
  <2>1. config' = TornConfig \/ (config' = config /\ config.file = "torn")
    BY <1>0, <1>16, ConfigureEffect DEF Setup
  <2>. QED BY <1>2, <2>1, ConfigTypes
<1>17. ASSUME NEW n \in Proc, Configured(n) PROVE AgreesWith(g)'
  <2>1. /\ config' = procs[n].config /\ procs'[n].config = procs[n].config
        /\ procs'[n].step = "list" /\ procs'[n].kind = procs[n].kind /\ Writing(n)
    BY <1>0, <1>17, ConfiguredEffect, KindSteps DEF Configured, Becomes
  <2>2. \A k \in Proc : Writing(k)' => k = n
    BY <1>3, <2>1 DEF Writing
  <2>. QED BY <2>1, <2>2 DEF AgreesWith
\* A command that has listed the personas.
<1>18. ASSUME NEW n \in Proc, List(n) PROVE AgreesWith(g)'
  <2>1. /\ config' = config /\ Writing(n) /\ procs[n].step = "list" /\ procs[n].todo = {}
    BY <1>0, <1>18, KindSteps DEF List, ProcOK
  <2>2. causes = {} /\ causes' # causes \cup {"partial"}
    BY <1>18 DEF List
  <2>3. \E kind, step, persona, todo : Becomes(n, kind, step, persona, todo)
    BY <1>0, <1>18, ListEffect DEF Gone, Making, Listed
  <2>4. n # g /\ procs'[g] = procs[g] /\ \A k \in Proc \ {n} : procs'[k] = procs[k]
    BY <1>5, <2>1, <2>3 DEF Becomes, Live, Writing
  <2>5. AgreesWith(g)
    BY <1>2, <1>6, <2>1, <2>2, <2>4
  <2>6. procs[n].config = config
    BY <2>1, <2>5 DEF AgreesWith
  <2>7. \A k \in Proc \ {n} : ~Writing(k)
    BY <1>0, <2>1, <2>2 DEF Alone
  <2>8. \A k \in Proc \ {n} : ~Writing(k)'
    BY <2>4, <2>7 DEF Writing
  <2>9. CASE Gone(n) /\ personas' = personas /\ Present = {}
    <3>1. procs'[n].kind = "none" /\ procs'[n].step = "idle"
      BY <2>9 DEF Gone, Becomes
    <3>2. \A p \in Persona : personas'[p] = "absent"
      BY <2>9 DEF Present
    <3>3. \A k \in Proc : procs'[k].step = "fill" => procs'[k].persona \in Persona
      BY <1>1 DEF HoldsOK, Holds
    <3>4. Consistent(g)'
      BY <3>2, <3>3, NotDomains DEF Consistent
    <3>. QED BY <2>8, <3>1, <3>4 DEF AgreesWith, Writing
  <2>10. CASE Present = {} /\ Making(n, "setup", procs[n].config.domain)
    <3>1. PICK p \in Persona :
            /\ personas' = [personas EXCEPT ![p] = "torn"]
            /\ \A k \in Proc : procs[k].persona # p
            /\ Becomes(n, "setup", "fill", p, {})
            /\ procs'[n].config.domain = config.domain
      BY <2>6, <2>10 DEF Making
    <3>2. procs'[n].step = "fill"
      BY <3>1 DEF Becomes
    <3>3. \A q \in Persona : personas'[q] \notin Domain /\ (q # p => personas'[q] # "torn")
      <4>1. \A q \in Persona : personas[q] = "absent"
        BY <2>10 DEF Present
      <4>. QED BY <1>0, <3>1, <4>1, NotDomains
    <3>4. \A k \in Proc \ {n} : procs'[k].step = "fill" => procs'[k].persona \in Persona /\ procs'[k].persona # p
      BY <1>1, <2>4, <3>1 DEF HoldsOK, Holds
    <3>5. Consistent(g)'
      BY <2>1, <3>1, <3>3, <3>4 DEF Consistent
    <3>. QED BY <2>8, <3>2, <3>5 DEF AgreesWith
  <2>11. CASE /\ Listed(n) /\ personas' = personas
              /\ \A p \in Present \ Targets(procs[n]) : personas[p] = procs[n].config.domain
    <3>1. /\ procs'[n].step = "update" /\ procs'[n].kind = procs[n].kind
          /\ procs'[n].todo = Targets(procs[n]) /\ procs'[n].config = config
      BY <2>6, <2>11 DEF Listed, Becomes
    <3>2. \A p \in Persona : personas'[p] \in Domain => p \in Present
      BY <2>11, NotDomains DEF Present
    <3>3. \A p \in Persona : personas'[p] # "torn"
      BY <2>11, NotDomains DEF Listed, Lists, Present
    <3>4. Targets(procs[n]) \subseteq Pending(g)'
      BY <2>1, <3>1 DEF Pending, Writing
    <3>5. \A k \in Proc : procs'[k].step = "fill" => procs'[k].persona \in Persona
      BY <1>1 DEF HoldsOK, Holds
    <3>6. Consistent(g)'
      BY <2>1, <2>6, <2>11, <3>2, <3>3, <3>4, <3>5 DEF Consistent
    <3>. QED BY <2>1, <2>8, <3>1, <3>6 DEF AgreesWith
  <2>. QED BY <1>0, <1>18, <2>2, <2>9, <2>10, <2>11, ListEffect
\* Nobody but the gateway and one command updates addresses.
<1>19. ASSUME NEW n \in Proc, procs[n].step \in {"update", "updating"}, n # g,
              \E kind, step, persona, todo : Becomes(n, kind, step, persona, todo),
              config' = config, causes = {}
       PROVE Writing(n) /\ procs[n].config = config
  <2>1. procs'[g] = procs[g] /\ procs[g].step # "boot"
    BY <1>2, <1>19 DEF Becomes
  <2>2. Writing(n)
    <3>1. ~Live(n)
      BY <1>0, <1>5, <1>19 DEF Alone
    <3>. QED BY <1>0, <1>19, <3>1, KindSteps DEF Live
  <2>. QED BY <1>6, <1>19, <2>1, <2>2 DEF AgreesWith
<1>20. ASSUME NEW n \in Proc, Update(n) PROVE AgreesWith(g)'
  <2>1. config' = config /\ procs[n].step = "update" /\ causes = {}
    BY <1>20 DEF Update
  <2>2. PICK p \in procs[n].todo :
          \/ Gone(n) /\ personas' = personas /\ (Writing(n) => causes' = causes \cup {"partial"})
          \/ /\ personas[p] \in Domain /\ personas' = [personas EXCEPT ![p] = "torn"]
             /\ Becomes(n, procs[n].kind, "updating", p, procs[n].todo)
             /\ procs'[n].config = procs[n].config
    BY <1>0, <1>20, UpdateEffect DEF Thrown
  <2>3. CASE Gone(n) /\ personas' = personas /\ (Writing(n) => causes' = causes \cup {"partial"})
    <3>1. ~Writing(n)
      BY <2>3
    <3>2. n # g
      BY <1>2, <2>3 DEF Gone, Becomes
    <3>. QED BY <1>11, <2>1, <2>3, <3>1, <3>2
  <2>4. CASE /\ personas[p] \in Domain /\ personas' = [personas EXCEPT ![p] = "torn"]
             /\ Becomes(n, procs[n].kind, "updating", p, procs[n].todo)
             /\ procs'[n].config = procs[n].config
    <3>1. procs'[n].kind = procs[n].kind /\ procs'[n].step = "updating" /\ procs'[n].todo = procs[n].todo
      BY <2>4 DEF Becomes
    <3>2. p \in Persona /\ personas[p] # "absent"
      BY <1>0, <2>4, KindSteps, NotDomains DEF ProcRec
    <3>3. \A q \in Persona : personas'[q] \in Domain => personas'[q] = personas[q]
      BY <1>0, <2>4, NotDomains
    <3>4. n # g => procs[n].config = config
      BY <1>19, <2>1, <2>4
    <3>5. Writing(n) => n # g
      BY <1>5 DEF Writing, Live
    <3>6. Keeps(n, g)
      BY <1>0, <2>4, <3>1, <3>2, <3>3, <3>4, <3>5, TornStays DEF Keeps, Writing
    <3>. QED BY <1>7, <2>1, <2>4, <3>6
  <2>. QED BY <2>2, <2>3, <2>4
<1>21. ASSUME NEW n \in Proc, Updated(n) PROVE AgreesWith(g)'
  <2>1. /\ UNCHANGED <<config, causes>> /\ procs[n].step = "updating"
        /\ personas' = [personas EXCEPT ![procs[n].persona] =
                          IF @ = "torn" THEN procs[n].config.domain ELSE @]
    BY <1>21 DEF Updated
  <2>2. /\ Becomes(n, procs[n].kind, "update", 0, procs[n].todo \ {procs[n].persona})
        /\ procs'[n].config = procs[n].config
    BY <1>0, <1>21, UpdatedEffect
  <2>3. /\ procs'[n].kind = procs[n].kind /\ procs'[n].step = "update"
        /\ procs'[n].todo = procs[n].todo \ {procs[n].persona}
    BY <2>2 DEF Becomes
  <2>4. procs[n].config = config
    <3>1. CASE n = g
      BY <1>2, <2>1, <2>2, <3>1
    <3>2. CASE n # g
      BY <1>19, <2>1, <2>2, <3>2
    <3>. QED BY <3>1, <3>2
  <2>5. procs[n].persona \in Persona /\ personas[procs[n].persona] \notin Domain /\ config.domain \in Domain
    <3>1. procs[n].persona \in Persona /\ personas[procs[n].persona] \notin Domain
      BY <1>0, <2>1 DEF HoldsOK, Holds, TypeOK
    <3>2. config.domain \in Domain
      BY <1>0, <2>4, ProcTypes DEF ProcRec
    <3>. QED BY <3>1, <3>2
  <2>6. \A p \in Persona : personas'[p] \in Domain =>
          personas'[p] = personas[p] \/ personas'[p] = config.domain
    BY <1>0, <2>1, <2>4
  <2>7. personas'[procs[n].persona] \in Domain => personas'[procs[n].persona] = config.domain
    BY <1>0, <2>1, <2>4, <2>5
  <2>8. \A k \in Proc : procs[k].step = "fill" /\ personas'[procs[k].persona] = "torn" =>
          personas[procs[k].persona] = "torn"
    <3> SUFFICES ASSUME NEW k \in Proc, procs[k].step = "fill", personas'[procs[k].persona] = "torn"
                 PROVE  personas[procs[k].persona] = "torn"
      OBVIOUS
    <3>1. procs[k].persona \in Persona
      BY <1>0 DEF HoldsOK, Holds
    <3>. QED BY <1>0, <2>1, <2>4, <2>5, <3>1, NotDomains
  <2>9. Writing(n) => n # g
    BY <1>5 DEF Writing, Live
  <2>10. Keeps(n, g)
    BY <2>2, <2>3, <2>4, <2>6, <2>7, <2>8 DEF Keeps, Writing
  <2>. QED BY <1>7, <2>1, <2>2, <2>10
<1>22. ASSUME NEW n \in Proc, UpdatesEnd(n) PROVE AgreesWith(g)'
  <2>1. UNCHANGED <<config, personas, causes>> /\ procs[n].step = "update" /\ procs[n].todo = {}
    BY <1>22 DEF UpdatesEnd
  <2>2. CASE procs[n].kind # "gateway" /\ Gone(n)
    <3>1. n # g
      BY <1>5, <2>2 DEF Live
    <3>. QED BY <1>11, <2>1, <2>2, <3>1
  <2>3. CASE /\ procs[n].kind = "gateway"
             /\ Becomes(n, "gateway", "listen", procs[n].persona, {})
             /\ procs'[n].config = procs[n].config
    <3>1. procs'[n].kind = "gateway" /\ procs'[n].step = "listen"
      BY <2>3 DEF Becomes
    <3>2. Keeps(n, g)
      BY <2>1, <3>1 DEF Keeps, Writing
    <3>. QED BY <1>7, <2>1, <2>3, <3>2
  <2>. QED BY <1>0, <1>22, <2>2, <2>3, UpdatesEndEffect
\* The gateway begins its reconciliation.
<1>23. ASSUME NEW n \in Proc, Boot(n) PROVE AgreesWith(g)'
  <2>1. UNCHANGED <<config, personas>> /\ procs[n].step = "boot" /\ procs[n].kind = "gateway" /\ ~Others(n)
    BY <1>0, <1>23, KindSteps DEF Boot
  <2>2. n = g
    <3>1. Live(n) /\ "beside" \notin causes
      BY <1>23, <2>1 DEF Boot, Live
    <3>. QED BY <1>0, <1>5, <3>1 DEF Alone
  <2>3. ~Gone(n)
    BY <1>2, <2>2 DEF Gone, Becomes
  <2>4. /\ Lists /\ procs'[g].config = procs[g].config /\ procs[g].config.relay
        /\ Becomes(g, "gateway", "update", procs[g].persona, Targets(procs[g]))
    <3>1. /\ Lists /\ procs'[n].config = procs[n].config
          /\ procs[n].config.relay => Becomes(n, procs[n].kind, "update", procs[n].persona, Targets(procs[n]))
      BY <1>0, <1>23, <2>3, BootEffect DEF Thrown
    <3>2. procs[g].config.relay
      BY <1>2, <2>2, <3>1
    <3>. QED BY <2>1, <2>2, <3>1, <3>2
  <2>5. \A k \in Proc : ~Writing(k)'
    <3>1. \A k \in Proc \ {g} : ~Writing(k) /\ procs'[k] = procs[k]
      BY <2>1, <2>2, <2>4 DEF Others, Becomes
    <3>. QED BY <1>2, <3>1 DEF Writing
  <2>6. procs'[g].todo = {p \in Present : personas[p] # config.domain}
    <3>1. procs'[g].todo = Targets(procs[g])
      BY <2>4 DEF Becomes
    <3>2. procs[g].config = config
      BY <1>2, <2>1, <2>4
    <3>. QED BY <2>1, <2>2, <3>1, <3>2 DEF Targets
  <2>7. \A p \in Persona : personas'[p] # "torn"
    BY <2>1, <2>4, NotDomains DEF Lists, Present
  <2>8. \A k \in Proc : procs'[k].step = "fill" => procs'[k].persona \in Persona
    BY <1>1 DEF HoldsOK, Holds
  <2>9. procs'[g].todo \subseteq Pending(g)'
    BY DEF Pending
  <2>10. Consistent(g)'
    BY <2>1, <2>6, <2>7, <2>8, <2>9, NotDomains DEF Consistent, Present
  <2>. QED BY <2>5, <2>10 DEF AgreesWith
<1>24. ASSUME NEW n \in Proc, Listen(n) PROVE AgreesWith(g)'
  <2>1. UNCHANGED <<config, personas, causes>> /\ procs[n].step = "listen" /\ procs[n].kind = "gateway"
        /\ procs[n].todo = {}
    BY <1>0, <1>24, KindSteps DEF Listen, ProcOK
  <2>2. CASE Gone(n)
    <3>1. n # g
      BY <1>2, <2>2 DEF Gone, Becomes
    <3>. QED BY <1>11, <2>1, <2>2, <3>1
  <2>3. ASSUME NEW step \in {"half", "serving"},
               Becomes(n, procs[n].kind, step, procs[n].persona, procs[n].todo),
               procs'[n].config = procs[n].config
        PROVE AgreesWith(g)'
    <3>1. procs'[n].kind = "gateway" /\ procs'[n].step = step
      BY <2>1, <2>3 DEF Becomes
    <3>2. Keeps(n, g)
      BY <2>1, <3>1 DEF Keeps, Writing
    <3>. QED BY <1>7, <2>1, <2>3, <3>2
  <2>. QED BY <1>0, <1>24, <2>2, <2>3, ListenEffect DEF Thrown
<1>25. ASSUME NEW n \in Proc, Dies(n) \/ Cut(n) PROVE AgreesWith(g)'
  <2>1. Gone(n) /\ UNCHANGED <<config, personas>>
    BY <1>0, <1>25, ExitsGone, CutEffect DEF Dies, Cut, Thrown
  <2>2. ~Writing(n) /\ causes = {}
    BY <1>0, <1>25, KindSteps DEF Dies, Cut, Writing
  <2>3. n # g
    BY <1>2, <2>1 DEF Gone, Becomes
  <2>4. procs'[g] = procs[g] /\ \A k \in Proc \ {n} : procs'[k] = procs[k]
    BY <2>1, <2>3 DEF Gone, Becomes
  <2>5. procs'[n].kind = "none" /\ procs'[n].step = "idle"
    BY <2>1 DEF Gone, Becomes
  <2>6. procs[n].step # "list"
    BY <1>0, <2>2, KindSteps
  <2>7. AgreesWith(g)
    BY <1>2, <1>6, <2>1, <2>2, <2>4
  <2>. QED BY <2>1, <2>2, <2>4, <2>5, <2>6, <2>7, AgreementStays DEF Writing
<1>26. ASSUME NEW n \in Proc, Start(n) \/ Restart(n) PROVE FALSE
  BY <1>0, <1>4, <1>26, StartEffect, RestartEffect
\* Gateways are told to end, and the reinstallation begins.
<1>27. ASSUME UNCHANGED <<config, personas, causes>>, NEW m,
              \A k \in Proc : \/ Ended(procs[k], procs'[k], k = m)
                              \/ procs[k] = Idle /\ procs'[k].kind = "reinstall" /\ procs'[k].step = "install"
       PROVE AgreesWith(g)'
  <2>1. procs'[g] = procs[g]
    BY <1>2, <1>27 DEF Ended
  <2>2. \A k \in Proc : procs'[k] = procs[k] \/
          /\ ~Writing(k) /\ ~Writing(k)' /\ procs[k].step # "list" /\ procs'[k].step # "fill"
    <3> SUFFICES ASSUME NEW k \in Proc, procs'[k] # procs[k]
                 PROVE  ~Writing(k) /\ ~Writing(k)' /\ procs[k].step # "list" /\ procs'[k].step # "fill"
      OBVIOUS
    <3>1. CASE Ended(procs[k], procs'[k], k = m)
      <4>1. procs[k].kind = "gateway" /\ procs'[k].kind = "gateway" /\ procs'[k].step = "dying"
        BY <3>1 DEF Ended
      <4>. QED BY <1>0, <4>1, KindSteps DEF Writing
    <3>2. CASE procs[k] = Idle /\ procs'[k].kind = "reinstall" /\ procs'[k].step = "install"
      BY <3>2 DEF Idle, Writing
    <3>. QED BY <1>27, <3>1, <3>2
  <2>3. AgreesWith(g)
    BY <1>2, <1>6, <1>27, <2>1
  <2>. QED BY <1>27, <2>1, <2>2, <2>3, AgreementStays
<1>28. ASSUME NEW n \in Proc, Installs(n) PROVE AgreesWith(g)'
  <2>1. UNCHANGED <<config, personas, causes>>
    BY <1>28 DEF Installs
  <2>2. CASE UNCHANGED procs
    <3>1. \A k \in Proc : Ended(procs[k], procs'[k], k = 0)
      BY <2>2 DEF Ended, Proc
    <3>. QED BY <1>27, <2>1, <3>1
  <2>3. CASE procs[n].step = "install" /\ Ends(n)
    <3>1. procs[n].kind = "reinstall" /\ Gone(n)
      BY <1>0, <2>3, KindSteps, EndsIdle DEF StepsOf, ProcRec, Kinds
    <3>2. n # g
      BY <1>5, <3>1 DEF Live
    <3>. QED BY <1>11, <2>1, <2>3, <3>1, <3>2 DEF Writing
  <2>. QED BY <1>28, <2>2, <2>3 DEF Installs
<1>29. ASSUME NEW n \in Proc, Uninstall(n) PROVE AgreesWith(g)'
  <2>1. UNCHANGED <<config, personas, causes>>
    BY <1>29 DEF Uninstall
  <2>2. \A k \in Proc : \/ Ended(procs[k], procs'[k], k = Main)
                        \/ procs[k] = Idle /\ procs'[k].kind = "reinstall" /\ procs'[k].step = "install"
    BY <1>0, <1>29, UninstallEffect DEF Halts, Told
  <2>. QED BY <1>27, <2>1, <2>2
<1>30. CASE Stop \/ Daemon
  <2>1. UNCHANGED <<config, personas, causes>>
    BY <1>30 DEF Stop, Daemon, DaemonStart, DaemonStop, DaemonRestart
  <2>2. \E m : Told(procs, procs', m)
    BY <1>0, <1>30, TerminatedFacts, ProcTypes, NobodyTold
       DEF Stop, Daemon, DaemonStart, DaemonStop, DaemonRestart, Ceases
  <2>. QED BY <1>27, <2>1, <2>2 DEF Told
<1>31. CASE Spawn \/ UNCHANGED vars
  <2>1. UNCHANGED <<config, personas, causes, procs>>
    BY <1>0, <1>4, <1>31, SpawnEffect, MainIsProc DEF Spawn, vars
  <2>2. \A k \in Proc : Ended(procs[k], procs'[k], k = 0)
    BY <2>1 DEF Ended, Proc
  <2>. QED BY <1>27, <2>1, <2>2
<1>32. ASSUME NEW n \in Proc, Advance(n) PROVE AgreesWith(g)'
  BY <1>12, <1>14, <1>16, <1>17, <1>18, <1>20, <1>21, <1>22, <1>23, <1>24, <1>25, <1>32 DEF Advance
<1>33. ASSUME NEW n \in Proc, Operator(n) PROVE AgreesWith(g)'
  BY <1>9, <1>10, <1>13, <1>16, <1>26, <1>28, <1>29, <1>33 DEF Operator
<1>. QED BY <1>15, <1>25, <1>30, <1>31, <1>32, <1>33 DEF Next

\* While a gateway with a relay serves under the present configuration, every
\* persona that can be read has its domain, unless a command that writes
\* addresses is under way or one of the causes applies
\* (reconcilePersonaEmailDomains, relay bootstrap, setup, persona create).
THEOREM DomainsAgreeHolds == Spec => []DomainsAgree
<1>1. Init => DomInv
  <2> SUFFICES ASSUME Init PROVE HoldsOK /\ Alone /\ Agree
    BY TypedInit DEF DomInv
  <2>1. \A n \in Proc : procs[n] = Idle
    BY DEF Init
  <2>2. \A n \in Proc : ~Holds(n) /\ ~Live(n) /\ ~Writing(n)
    BY <2>1 DEF Holds, Live, Writing, Idle
  <2>. QED BY <2>2 DEF HoldsOK, Alone, Agree, Works
<1>2. DomInv /\ [Next]_vars => DomInv'
  BY TypedStep, HoldsStep, AloneStep, AgreeStep DEF DomInv
<1>3. DomInv => DomainsAgree
  <2> SUFFICES ASSUME DomInv, NEW n \in Proc, procs[n].step = "serving", procs[n].config.relay,
                      config = procs[n].config, \A k \in Proc : ~Writing(k), causes = {}
               PROVE  \A p \in Persona : personas[p] \in Domain => personas[p] = procs[n].config.domain
    BY DEF DomainsAgree
  <2>1. TypedSteps
    BY DEF DomInv
  <2>2. Works(n) /\ procs[n].todo = {}
    BY <2>1, KindSteps DEF Works, Live, ProcOK
  <2>3. \A k \in Proc : procs[k].step # "list"
    BY <2>1, KindSteps
  <2>4. Consistent(n)
    BY <2>2, <2>3 DEF DomInv, Agree, AgreesWith
  <2>5. Pending(n) = {}
    BY <2>2 DEF Pending
  <2>. QED BY <2>4, <2>5 DEF Consistent
<1>. QED BY <1>1, <1>2, <1>3, PTL DEF Spec
=============================================================================
