---------------------------- MODULE WaveManager ----------------------------
(* rick_wave_manager (internal/mcp/tools_wave.go): the children of a Jira  *)
(* epic or a GitHub parent are sorted into waves by what blocks them, and  *)
(* a wave is launched by starting one workflow for each of its children.   *)
(*                                                                         *)
(* Nothing is stored: every call reads the tracker and plans again, so the *)
(* numbers of the waves and what is in them change between two calls.  The *)
(* tracker and the people who close issues are the environment.            *)
EXTENDS Naturals, Sequences, FiniteSets, FiniteSetsExt

CONSTANTS
    Child,      \* the children of the epic or the parent
    Links,      \* the ways in which they may block one another
    Operator,   \* who calls the tool
    MaxLive,    \* bound: workflows under way for one child
    MaxFaults   \* bound: requests that fail

ASSUME WaveAssumption ==
    /\ IsFiniteSet(Child)
    /\ Links \subseteq [Child -> SUBSET Child]
    /\ MaxLive \in Nat \ {0}
    /\ MaxFaults \in Nat

VARIABLES
    kind,       \* the tracker: "jira" or "github"
    blockers,   \* whom each child waits for, as the tracker has it
    issue,      \* "open", "delivered" (a workflow has completed) or "closed"
    live,       \* how many workflows are under way for a child
    call,       \* for each operator, the children a launch has yet to start
    faults      \* requests that have failed

vars == <<kind, blockers, issue, live, call, faults>>

Idle == [todo |-> {}, next |-> FALSE]

TypeOK ==
    /\ kind \in {"jira", "github"}
    /\ blockers \in [Child -> SUBSET Child]
    /\ issue \in [Child -> {"open", "delivered", "closed"}]
    /\ live \in [Child -> 0..MaxLive]
    /\ call \in [Operator -> [todo : SUBSET Child, next : BOOLEAN]]
    /\ faults \in 0..MaxFaults

Init ==
    /\ kind \in {"jira", "github"}
    /\ blockers \in Links
    /\ issue = [c \in Child |-> "open"]
    /\ live = [c \in Child |-> 0]
    /\ call = [o \in Operator |-> Idle]
    /\ faults = 0

-----------------------------------------------------------------------------
(* The plan. *)

\* Jira lists closed children too; GitHub's are skipped while discovered.
Planned == IF kind = "jira" THEN Child ELSE {c \in Child : issue[c] # "closed"}

\* Mutant: a blocker that is not in the plan is kept.
KnownAnywhere(unread) ==
    [c \in Planned |-> IF c \in unread THEN {} ELSE blockers[c]]

\* Whom a planned child waits for.  A child whose links cannot be read waits
\* for nobody, and one outside the plan is "treated as satisfied".
Known(unread) ==
    [c \in Planned |-> IF c \in unread THEN {} ELSE blockers[c] \cap Planned]

\* Mutant: whoever waits for one of them is ready with them.
FrontOfOne(preds, assigned) ==
    {c \in DOMAIN preds \ assigned : preds[c] = {} \/ preds[c] \cap assigned # {}}

\* One round of Kahn's algorithm: who waits for nobody that is unassigned.
Front(preds, assigned) ==
    {c \in DOMAIN preds \ assigned : preds[c] \subseteq assigned}

Members(waves) == UNION {waves[w] : w \in DOMAIN waves}

\* Adds fronts to the waves until one is empty.
KahnWaves(preds) ==
    LET from[waves \in Seq(SUBSET DOMAIN preds)] ==
            IF Front(preds, Members(waves)) = {} THEN waves
            ELSE from[Append(waves, Front(preds, Members(waves)))]
    IN  from[<<>>]

\* What is on a cycle or behind one is in no front: the plan of a GitHub
\* parent fails then, that of a Jira epic makes it a last wave.
Plan(preds) ==
    LET waves == KahnWaves(preds)
        rest  == DOMAIN preds \ Members(waves)
    IN  IF rest = {} THEN waves
        ELSE IF kind = "jira" THEN Append(waves, rest) ELSE <<>>

\* Mutant: a closed blocker is as good as all of them.
ReadyForOne(preds, wave) ==
    kind = "jira" =>
        \A c \in wave : preds[c] # {} => \E b \in preds[c] : issue[b] = "closed"

\* A Jira wave is ready when what blocks it is closed, a GitHub wave always.
Ready(preds, wave) ==
    kind = "jira" => \A c \in wave : \A b \in preds[c] : issue[b] = "closed"

-----------------------------------------------------------------------------
(* The tool. *)

Pending(todo, next) == [todo |-> todo, next |-> next /\ todo # {}]

\* Requests for the links of unread fail and the plan is made without them;
\* the children of todo will be started.
Launch(o, unread, todo, next) ==
    /\ call' = [call EXCEPT ![o] = Pending(todo, next)]
    /\ faults' = faults + Cardinality(unread)
    /\ UNCHANGED <<kind, blockers, issue, live>>

\* toolWaveLaunch with a wave, perhaps for some of its children only: nobody
\* asks whether the wave is ready.
LaunchWave(o, unread) ==
    /\ call[o].todo = {}
    /\ faults + Cardinality(unread) <= MaxFaults
    /\ LET plan == Plan(Known(unread))
       IN  \E w \in DOMAIN plan : \E todo \in SUBSET plan[w] :
                Launch(o, unread, todo, FALSE)

\* toolWaveLaunch without a wave: the first that is ready.
LaunchNext(o, unread) ==
    /\ call[o].todo = {}
    /\ faults + Cardinality(unread) <= MaxFaults
    /\ LET preds == Known(unread)
           plan  == Plan(preds)
           ready == {w \in DOMAIN plan : Ready(preds, plan[w])}
       IN  /\ ready # {}
           /\ \E todo \in SUBSET plan[Min(ready)] : Launch(o, unread, todo, TRUE)

\* toolRunWorkflow for one child of the wave; nobody asks whether the child
\* is closed by now or has a workflow already.
Start(o, c) ==
    /\ c \in call[o].todo
    /\ live[c] < MaxLive
    /\ live' = [live EXCEPT ![c] = @ + 1]
    /\ call' = [call EXCEPT ![o] = Pending(@.todo \ {c}, @.next)]
    /\ UNCHANGED <<kind, blockers, issue, faults>>

\* It cannot be started: the error is noted and the loop goes on.
StartFails(o, c) ==
    /\ c \in call[o].todo
    /\ faults < MaxFaults
    /\ faults' = faults + 1
    /\ call' = [call EXCEPT ![o] = Pending(@.todo \ {c}, @.next)]
    /\ UNCHANGED <<kind, blockers, issue, live>>

-----------------------------------------------------------------------------
(* The environment. *)

\* A workflow for c completes ...
Completes(c) ==
    /\ live[c] > 0
    /\ live' = [live EXCEPT ![c] = @ - 1]
    /\ issue' = [issue EXCEPT ![c] = IF @ = "open" THEN "delivered" ELSE @]
    /\ UNCHANGED <<kind, blockers, call, faults>>

\* ... or fails.
Fails(c) ==
    /\ live[c] > 0
    /\ live' = [live EXCEPT ![c] = @ - 1]
    /\ UNCHANGED <<kind, blockers, issue, call, faults>>

\* Somebody closes the issue, whatever was done about it.
Close(c) ==
    /\ issue[c] # "closed"
    /\ issue' = [issue EXCEPT ![c] = "closed"]
    /\ UNCHANGED <<kind, blockers, live, call, faults>>

Next ==
    \/ \E o \in Operator, unread \in SUBSET Child : LaunchWave(o, unread)
    \/ \E o \in Operator, unread \in SUBSET Child : LaunchNext(o, unread)
    \/ \E o \in Operator, c \in Child : Start(o, c)
    \/ \E o \in Operator, c \in Child : StartFails(o, c)
    \/ \E c \in Child : Completes(c)
    \/ \E c \in Child : Fails(c)
    \/ \E c \in Child : Close(c)

Spec == Init /\ [][Next]_vars

\* A careful operator: launches the first ready wave that still has an open
\* child, by its number.
Advance(o) ==
    /\ call[o].todo = {}
    /\ \E preds \in {Known({})} : \E plan \in {Plan(preds)} :
        LET left == {w \in DOMAIN plan : /\ Ready(preds, plan[w])
                                         /\ \E c \in plan[w] : issue[c] # "closed"}
        IN  left # {} /\ Launch(o, {}, plan[Min(left)], FALSE)

\* Somebody looks at what was delivered.
Accept(c) == issue[c] = "delivered" /\ Close(c)

\* Launches go on, the loop over a wave's children comes to its end, a
\* workflow repeated often enough completes, and what it delivers is accepted.
Fairness ==
    /\ \A o \in Operator : SF_vars(Advance(o))
    /\ \A o \in Operator : SF_vars(\E c \in Child : Start(o, c))
    /\ \A c \in Child : SF_vars(Completes(c))
    /\ WF_vars(\E c \in Child : Accept(c))

FairSpec == Spec /\ Fairness

-----------------------------------------------------------------------------
(* Properties. *)

\* The lists of distinct children, each blocking the next, that end in c.
Chains(preds, c) ==
    {s \in UNION {[1..n -> DOMAIN preds] : n \in 1..Cardinality(DOMAIN preds)} :
        /\ s[Len(s)] = c
        /\ \A i, j \in DOMAIN s : i # j => s[i] # s[j]
        /\ \A i \in DOMAIN s : i > 1 => s[i - 1] \in preds[s[i]]}

Longest(preds, c) == Max({Len(s) : s \in Chains(preds, c)})

\* The children that wait for a cycle, or are on one.
Stuck(preds) ==
    LET circular == {c \in DOMAIN preds : \E s \in Chains(preds, c) : c \in preds[s[1]]}
    IN  {c \in DOMAIN preds : \E s \in Chains(preds, c) : s[1] \in circular}

\* The plan agrees with its definition: a child's wave is the length of the
\* longest chain of blockers that ends in it, and what a cycle blocks shares
\* the wave after all others (kahnWaves, computeJiraWavePlan), or fails it.
PlanIsLayered ==
    LET preds == Known({})
        plan  == Plan(preds)
        stuck == Stuck(preds)
    IN  IF kind = "github" /\ stuck # {} THEN plan = <<>>
        ELSE \A w \in 1..Cardinality(Child) :
                \/ /\ w \in DOMAIN plan
                   /\ plan[w] = {c \in Planned \ stuck : Longest(preds, c) = w}
                   /\ plan[w] # {}
                \/ /\ w = Len(plan)
                   /\ plan[w] = stuck
                   /\ stuck # {}
                \/ /\ w > Len(plan)
                   /\ \A c \in Planned \ stuck : Longest(preds, c) # w

\* A launch of "the next ready wave" starts a child only when all that blocks
\* it is closed, whatever was closed, launched or completed between the plan
\* and the start; a failed request for links voids the promise.
BlockersFirst ==
    [][faults' = 0 =>
        \A o \in Operator, c \in Child :
            Start(o, c) /\ call[o].next =>
                \A b \in blockers[c] : issue[b] = "closed"]_vars

\* An epic without cycles comes to its end.
EpicFinishes ==
    Members(KahnWaves(blockers)) = Child => <>(\A c \in Child : issue[c] = "closed")
=============================================================================
