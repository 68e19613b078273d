--------------------------- MODULE FederationJoin ---------------------------
(* Joining, leaving and creating a wasteland (internal/federation,            *)
(* `wl join`, `wl leave`, `wl create`, the hosted fork registrar).  A join is *)
(* a chain of steps over a fork, a clone on disk, a registration branch, a    *)
(* pull request and a configuration file; each may fail, or the process may   *)
(* be killed, and the user runs it again, perhaps with other arguments.  The  *)
(* steps are idempotent one by one; what a second run finds of the first is   *)
(* what this module is about.                                                 *)
(*                                                                            *)
(* The rig's handle is its organization's name, as it is by default.          *)
EXTENDS Naturals, FiniteSets

CONSTANTS
    Orgs,          \* organizations that may own the fork
    Commands,      \* subset of [kind : Ways, org : Orgs] the user may run
    Missing,
    MaxCommands, MaxStepFaults   \* bounds of the model

Up == "upstream"
Trunk == "main"
Ways == {"fork", "direct", "remote", "hosted", "create"}

\* The branch wl/register/<handle>, by its handle.
RegisterBranch(o) == o

Tips == {Trunk} \cup {RegisterBranch(o) : o \in Orgs}

(* What a database, a clone and a configuration are.                          *)
Refs == UNION {[heads -> SUBSET Orgs] : heads \in {h \in SUBSET Tips : Trunk \in h}}
Directory ==
    [origin : Orgs \cup {Up, Missing}, upstream : BOOLEAN, head : Tips, refs : Refs,
     whole : BOOLEAN, by : {"fork", "direct", "create"} \X Orgs, mixed : BOOLEAN]
Configuration == [kind : Ways, org : Orgs, mixed : BOOLEAN]

ASSUME JoinAssumption ==
    /\ Commands \subseteq [kind : Ways, org : Orgs]
    /\ {Up, Trunk} \cap Orgs = {} /\ Missing \notin Orgs \cup {Up}
    /\ Missing \notin Directory /\ Missing \notin Configuration

VARIABLES
    sites,     \* organization or upstream -> [state, refs]; refs: branch -> rigs registered on it
    clone,     \* Missing, or the directory [origin, upstream, head, refs, whole, by, mixed]
    config,    \* Missing, or the saved configuration [kind, org, mixed]
    pulls,     \* organizations with a registration pull request
    command,   \* what runs: [kind, org, step, faulty], step "idle" between commands
    outcome,   \* of the last command: "none", "ok", "failed" or "failed cleanly"
    commands, stepFaults

joinVars == <<sites, clone, config, pulls, command, outcome, commands, stepFaults>>

Only(rigs) == [b \in {Trunk} |-> rigs]

NoSite == [state |-> "no", refs |-> Only({})]

JoinInit ==
    /\ sites \in {[s \in Orgs \cup {Up} |->
                     IF s = Up THEN [state |-> up, refs |-> Only({})] ELSE NoSite] :
                    up \in {"yes", "no"}}
    /\ clone = Missing /\ config = Missing /\ pulls = {}
    /\ \E o \in Orgs : command = [kind |-> "fork", org |-> o, step |-> "idle", faulty |-> FALSE]
    /\ outcome = "none" /\ commands = 0 /\ stepFaults = 0

Running(kinds) == command.kind \in kinds
Me == command.org
Step(s) == command.step = s
Put(refs, b, rigs) == [x \in DOMAIN refs \cup {b} |-> IF x = b THEN rigs ELSE refs[x]]

Proceed(s) == /\ command' = [command EXCEPT !.step = s]
           /\ UNCHANGED <<outcome, commands, stepFaults>>

Finish(result) == /\ command' = [command EXCEPT !.step = "idle"]
                  /\ outcome' = result
                  /\ UNCHANGED <<commands, stepFaults>>

\* A step that cannot succeed in this state ends the command.
TurnedAway == Finish(IF command.faulty THEN "failed" ELSE "failed cleanly")

\* A step may fail for reasons of its own, MaxStepFaults times.
Fault == /\ stepFaults < MaxStepFaults
         /\ stepFaults' = stepFaults + 1
         /\ command' = [command EXCEPT !.step = "idle", !.faulty = TRUE]
         /\ outcome' = "failed"
         /\ UNCHANGED commands

Fails == Fault /\ UNCHANGED <<sites, clone, config, pulls>>

-----------------------------------------------------------------------------
Start(c) ==
    /\ Step("idle") /\ commands < MaxCommands
    /\ commands' = commands + 1
    /\ command' = [kind |-> c.kind, org |-> c.org, step |-> "load", faulty |-> FALSE]
    /\ outcome' = "none"
    /\ UNCHANGED <<sites, clone, config, pulls, stepFaults>>

\* A configuration means joined already.  `wl create` refuses a directory that
\* has a database before it looks; the hosted registrar has no configuration.
LoadConfig ==
    /\ Step("load")
    /\ IF Running({"create"}) /\ clone # Missing THEN TurnedAway
       ELSE IF config # Missing /\ ~Running({"hosted"}) THEN Finish("ok")
       ELSE Proceed(CASE Running({"fork", "remote", "hosted"}) -> "fork"
                      [] Running({"direct"}) -> "clone"
                      [] Running({"create"}) -> "init")
    /\ UNCHANGED <<sites, clone, config, pulls>>

\* A fork has main as upstream has it.  Those of files and of git are a
\* directory that is made before the data is pushed into it; one half made stays.
Copied == [state |-> "yes", refs |-> Only(sites[Up].refs[Trunk])]
HalfCopied == [sites[Me] EXCEPT !.state = "empty"]

\* Fork: a fork that is there counts, whatever its state.
Fork ==
    /\ Step("fork")
    /\ UNCHANGED <<clone, config, pulls>>
    /\ \/ /\ sites[Me].state # "no" \/ sites[Up].state = "yes"
          /\ sites' = IF sites[Me].state # "no" THEN sites
                      ELSE [sites EXCEPT ![Me] = Copied]
          /\ Proceed(IF Running({"fork"}) THEN "clone" ELSE "exec")
       \/ sites[Me].state = "no" /\ sites[Up].state = "no" /\ TurnedAway /\ UNCHANGED sites
       \/ /\ sites[Me].state = "no" /\ sites[Up].state = "yes"
          /\ Fault
          /\ \E half \in BOOLEAN :
                sites' = IF half THEN [sites EXCEPT ![Me] = HalfCopied] ELSE sites

\* Clone: a directory with a database is taken for the clone, whoever made it.
\* One whose clone was cut off has a database without contents.
Source == IF Running({"direct"}) THEN Up ELSE Me
Cloned(whole) ==
    [origin |-> Source, upstream |-> FALSE, head |-> Trunk,
     refs |-> IF whole THEN Only(sites[Source].refs[Trunk]) ELSE Only({}),
     whole |-> whole, by |-> <<command.kind, Me>>, mixed |-> FALSE]

Clone ==
    /\ Step("clone")
    /\ UNCHANGED <<sites, config, pulls>>
    /\ \/ /\ clone # Missing
          /\ clone' = [clone EXCEPT !.mixed = @ \/ clone.by # <<command.kind, Me>>]
          /\ Proceed(IF Running({"fork"}) THEN "add upstream" ELSE "register")
       \/ /\ clone = Missing /\ sites[Source].state = "yes"
          /\ clone' = Cloned(TRUE)
          /\ Proceed(IF Running({"fork"}) THEN "add upstream" ELSE "register")
       \/ clone = Missing /\ sites[Source].state # "yes" /\ TurnedAway /\ UNCHANGED clone
       \/ clone = Missing /\ sites[Source].state = "yes" /\ Fault /\ clone' \in {Missing, Cloned(FALSE)}

AddUpstreamRemote ==
    /\ Step("add upstream")
    /\ \/ /\ clone' = [clone EXCEPT !.upstream = TRUE] /\ Proceed("branch")
          /\ UNCHANGED <<sites, config, pulls>>
       \/ Fails

\* Faulty: a branch that an earlier run made is an error.
CheckoutNewBranch ==
    /\ Step("branch")
    /\ \/ /\ clone.whole /\ RegisterBranch(Me) \notin DOMAIN clone.refs
          /\ clone' = [clone EXCEPT !.refs = Put(@, RegisterBranch(Me), @[clone.head]),
                                    !.head = RegisterBranch(Me)]
          /\ Proceed("register")
       \/ (~clone.whole \/ RegisterBranch(Me) \in DOMAIN clone.refs) /\ TurnedAway /\ UNCHANGED clone
       \/ Fault /\ UNCHANGED clone
    /\ UNCHANGED <<sites, config, pulls>>

\* CheckoutBranch makes the branch from whatever is checked out; one that
\* exists is taken as it is.
CheckoutBranch ==
    /\ Step("branch")
    /\ \/ /\ clone.whole
          /\ clone' = [clone EXCEPT
                         !.refs = IF RegisterBranch(Me) \in DOMAIN @ THEN @
                                  ELSE Put(@, RegisterBranch(Me), @[clone.head]),
                         !.head = RegisterBranch(Me)]
          /\ Proceed("register")
       \/ ~clone.whole /\ TurnedAway /\ UNCHANGED clone
       \/ Fault /\ UNCHANGED clone
    /\ UNCHANGED <<sites, config, pulls>>

\* RegisterRig commits the rig on what is checked out; "nothing to commit" is fine.
RegisterRig ==
    /\ Step("register")
    /\ \/ /\ clone.whole
          /\ clone' = [clone EXCEPT !.refs = Put(@, clone.head, @[clone.head] \cup {Me})]
          /\ Proceed(CASE Running({"fork"}) -> "push" [] Running({"direct"}) -> "push main"
                    [] Running({"create"}) -> "add origin")
       \/ ~clone.whole /\ TurnedAway /\ UNCHANGED clone
       \/ Fault /\ UNCHANGED clone
    /\ UNCHANGED <<sites, config, pulls>>

\* Faulty: an error of the push is taken for a warning.
PushWarned ==
    /\ Step("push")
    /\ Proceed("main")
    /\ \/ /\ clone.origin # Missing
          /\ sites' = [sites EXCEPT ![clone.origin].refs =
                         Put(@, RegisterBranch(Me), clone.refs[RegisterBranch(Me)])]
       \/ UNCHANGED sites
    /\ UNCHANGED <<clone, config, pulls>>

\* PushBranch --force to the clone's origin.
Push ==
    /\ Step("push")
    /\ \/ /\ clone.origin # Missing
          /\ sites' = [sites EXCEPT ![clone.origin].refs =
                         Put(@, RegisterBranch(Me), clone.refs[RegisterBranch(Me)])]
          /\ Proceed("main")
       \/ clone.origin = Missing /\ TurnedAway /\ UNCHANGED sites
       \/ Fault /\ UNCHANGED sites
    /\ UNCHANGED <<clone, config, pulls>>

CheckoutMain ==
    /\ Step("main")
    /\ \/ /\ clone' = [clone EXCEPT !.head = Trunk] /\ Proceed("pull request")
          /\ UNCHANGED <<sites, config, pulls>>
       \/ Fails

\* An error of CreatePR is a warning.  There is nothing to offer when the
\* branch is not on the fork.
CreatePR ==
    /\ Step("pull request")
    /\ pulls' \in {pulls, IF RegisterBranch(Me) \in DOMAIN sites[Me].refs
                          THEN pulls \cup {Me} ELSE pulls}
    /\ IF Running({"hosted"}) THEN Finish("ok") ELSE Proceed("save")
    /\ UNCHANGED <<sites, clone, config>>

\* `dolt push origin main`, without force, whatever is checked out.
PushMain ==
    /\ Step("push main")
    /\ LET site == clone.origin
           forward == site # Missing /\ sites[site].refs[Trunk] \subseteq clone.refs[Trunk]
       IN  \/ /\ forward
              /\ sites' = [sites EXCEPT ![site] =
                             [state |-> "yes", refs |-> Put(@.refs, Trunk, clone.refs[Trunk])]]
              /\ Proceed("save")
           \/ ~forward /\ TurnedAway /\ UNCHANGED sites
           \/ Fault /\ UNCHANGED sites
    /\ UNCHANGED <<clone, config, pulls>>

\* Joining without a clone, and the hosted registrar: the API writes the row on
\* the fork's branch.  A write whose outcome is not learnt is an error.
Exec ==
    /\ Step("exec")
    /\ LET from == IF RegisterBranch(Me) \in DOMAIN sites[Me].refs THEN RegisterBranch(Me) ELSE Trunk
           written == [sites EXCEPT ![Me].refs = Put(@, RegisterBranch(Me), @[from] \cup {Me})]
       IN  \/ sites[Me].state = "yes" /\ sites' = written /\ Proceed("pull request")
           \/ sites[Me].state # "yes" /\ TurnedAway /\ UNCHANGED sites
           \/ Fault /\ sites' \in {sites, IF sites[Me].state = "yes" THEN written ELSE sites}
    /\ UNCHANGED <<clone, config, pulls>>

SaveConfig ==
    /\ Step("save")
    /\ \/ /\ config' = [kind |-> command.kind, org |-> Me,
                        mixed |-> ~Running({"remote"}) /\ clone.mixed]
          /\ Finish("ok") /\ UNCHANGED <<sites, clone, pulls>>
       \/ Fails

\* Create: a database of its own, its schema committed, then as above.
InitDatabase ==
    /\ Step("init")
    /\ \/ /\ clone' = [origin |-> Missing, upstream |-> FALSE, head |-> Trunk, refs |-> Only({}),
                       whole |-> TRUE, by |-> <<command.kind, Me>>, mixed |-> FALSE]
          /\ Proceed("schema") /\ UNCHANGED <<sites, config, pulls>>
       \/ Fails

ApplySchema ==
    /\ Step("schema")
    /\ \/ Proceed("register") /\ UNCHANGED <<sites, clone, config, pulls>>
       \/ Fails

AddOrigin ==
    /\ Step("add origin")
    /\ \/ /\ clone' = [clone EXCEPT !.origin = Up] /\ Proceed("push main")
          /\ UNCHANGED <<sites, config, pulls>>
       \/ Fails

-----------------------------------------------------------------------------
\* The process is killed between two steps.
Killed == ~Step("idle") /\ Fails

\* `wl leave` deletes the configuration and keeps the clone; removing that is
\* left to the user.
Leave ==
    /\ Step("idle") /\ config # Missing
    /\ config' = Missing
    /\ UNCHANGED <<sites, clone, pulls, command, outcome, commands, stepFaults>>

RemoveClone ==
    /\ Step("idle") /\ config = Missing /\ clone # Missing
    /\ clone' = Missing /\ outcome' = "none"
    /\ UNCHANGED <<sites, config, pulls, command, commands, stepFaults>>

\* A maintainer merges a registration.
MergeRegistration(o) ==
    /\ o \in pulls
    /\ sites' = [sites EXCEPT ![Up].refs = Put(@, Trunk, @[Trunk] \cup sites[o].refs[RegisterBranch(o)])]
    /\ pulls' = pulls \ {o}
    /\ UNCHANGED <<clone, config, command, outcome, commands, stepFaults>>

\* `wl join` with a clone, `wl join` without, the hosted registrar, `wl create`.
ServiceJoin ==
    /\ Running({"fork", "direct"})
    /\ \/ LoadConfig \/ Fork \/ Clone \/ AddUpstreamRemote \/ CheckoutBranch \/ RegisterRig
       \/ Push \/ CheckoutMain \/ CreatePR \/ PushMain \/ SaveConfig

runJoinRemote == Running({"remote"}) /\ (LoadConfig \/ Fork \/ Exec \/ CreatePR \/ SaveConfig)

EnsureForkAndRegister == Running({"hosted"}) /\ (LoadConfig \/ Fork \/ Exec \/ CreatePR)

ServiceCreate ==
    /\ Running({"create"})
    /\ \/ LoadConfig \/ InitDatabase \/ ApplySchema \/ RegisterRig \/ AddOrigin
       \/ PushMain \/ SaveConfig

JoinNext ==
    \/ \E c \in Commands : Start(c)
    \/ ServiceJoin \/ runJoinRemote \/ EnsureForkAndRegister \/ ServiceCreate
    \/ Killed \/ Leave \/ RemoveClone
    \/ \E o \in Orgs : MergeRegistration(o)

JoinSpec == JoinInit /\ [][JoinNext]_joinVars

-----------------------------------------------------------------------------
(* What is claimed. *)

Registered(c) ==
    IF c.kind \in {"fork", "remote"}
    THEN /\ RegisterBranch(c.org) \in DOMAIN sites[c.org].refs
         /\ c.org \in sites[c.org].refs[RegisterBranch(c.org)]
    ELSE c.org \in sites[Up].refs[Trunk]

\* A saved configuration tells every later `wl join` that nothing is left to do
\* (federation.go:233), so it may only be there when the registration has
\* reached the remote it names, whatever failed and was run again before - if
\* the clone was made by the same command.  Clone takes any directory for the
\* clone (federation.go:464): after a leave, or a failed try with another
\* organization or mode, the registration goes to the old origin, or a direct
\* join pushes a main that has not got it, and is saved all the same.
ConfiguredIsRegistered ==
    config # Missing => config.mixed \/ Registered(config)

\* Running the command again heals a failure: a run in which no step fails by
\* itself is refused only for a reason that lies in what it found - no
\* upstream, a fork or a clone that an earlier failure left half made, a
\* directory left by another command, or a main that upstream's has overtaken,
\* which a direct join never pulls.
RetryHeals ==
    outcome = "failed cleanly" =>
        \/ sites[Up].state = "no"
        \/ sites[Me].state = "empty"
        \/ clone # Missing /\ (~clone.whole \/ clone.mixed \/ Running({"create"}))
        \/ Running({"direct"}) /\ clone # Missing /\ ~(sites[Up].refs[Trunk] \subseteq clone.refs[Trunk])
=============================================================================
