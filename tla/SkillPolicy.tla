----------------------------- MODULE SkillPolicy -----------------------------
(***************************************************************************)
(* What an agent may read of the skills (skills/registry.ts, control.ts,   *)
(* policy.ts, session.ts, scripts.ts and the commands of skills/admin.ts): *)
(* the user decides in several windows what is installed, approved,        *)
(* selected and switched on, while agents that have loaded skills work.    *)
(*                                                                         *)
(* One workspace and one goal.  A command of the user is one step, except  *)
(* where it awaits.  skills.lock.json, which nothing reads back, texts and *)
(* their sizes, teams, privacy and capabilities (constant during a goal)   *)
(* are left out; what denies a skill in the settings is a set of skills.   *)
(***************************************************************************)
EXTENDS Naturals, FiniteSets

CONSTANTS
    Skills, Releases,
    SkillOf,        \* the skill of each release
    Needs,          \* all the skills a skill depends on
    Builtin,        \* releases that come with the program, one of each skill
    Agents,         \* places for a run of an agent
    Deniable,       \* skills that the settings may deny
    Editors,        \* windows of the user
    MaxActive,      \* skills.maxActive
    MaxEpoch        \* bound: decisions

ASSUME SkillPolicyAssumption ==
    /\ IsFiniteSet(Skills) /\ IsFiniteSet(Releases)
    /\ SkillOf \in [Releases -> Skills]
    /\ Needs \in [Skills -> SUBSET Skills]
    /\ \A s \in Skills : s \notin Needs[s] /\ \A d \in Needs[s] : Needs[d] \subseteq Needs[s]
    /\ Builtin \subseteq Releases
    /\ \A s \in Skills : \E b \in Builtin : \A c \in Builtin : SkillOf[c] = s <=> c = b
    /\ Deniable \subseteq Skills
    /\ MaxActive \in Nat /\ MaxEpoch \in Nat

VARIABLES
    (* SQLite *)
    master,         \* the switch for all workspaces
    config,         \* the settings of the workspace, known by their hash
    epochs,         \* decisions so far: everywhere, and in the workspace
    known,          \* releases in the workspace, quarantined ones included
    inspected,      \* releases the user has looked into
    selection,      \* the release of each skill, and whether it is enabled
    manual,         \* releases selected by hand
    goal,           \* state, request to pause, snapshot of the settings
    (* a window of the user *)
    draft,          \* settings about to be saved, while the model is looked up
    (* the process of the controller *)
    agent,          \* what each run remembers
    (* for the properties *)
    late            \* how much each run started after a decision

policyRecords == <<master, config, epochs, known, inspected, selection, manual>>
policyVars == <<policyRecords, goal, draft, agent, late>>

Modes == {"off", "manual", "auto"}
Config == [mode : Modes, denied : SUBSET Deniable]
NoDraft == [mode |-> "none", denied |-> {}]
Epochs == [all : 0 .. MaxEpoch, here : 0 .. MaxEpoch]
Live == {"ready", "consent", "staging"}
NoLate == [guarded |-> 0, consented |-> 0]

EnabledReleases == {selection[s].release : s \in {t \in Skills : selection[t].enabled}}

Snapshot == [config |-> config, lock |-> EnabledReleases, manual |-> manual]

Idle == [at |-> "none", config |-> NoDraft, epochs |-> [all |-> 0, here |-> 0], loaded |-> {},
         aborted |-> FALSE]
NewAgent == [Idle EXCEPT !.config = config, !.epochs = epochs]

PolicyInit ==
    /\ master = TRUE
    /\ config = [mode |-> "auto", denied |-> {}]
    /\ epochs = [all |-> 0, here |-> 0]
    /\ known = Builtin /\ inspected = {}
    /\ selection = [s \in Skills |-> [release |-> CHOOSE b \in Builtin : SkillOf[b] = s,
                                      enabled |-> TRUE]]
    /\ manual = {}
    /\ goal = [state |-> "PAUSED", pause |-> FALSE, snapshot |-> Snapshot]
    /\ draft = [u \in Editors |-> NoDraft]
    /\ agent = [a \in Agents |-> Idle]
    /\ late = [a \in Agents |-> NoLate]

(* skillAccess: what settings c say of release r.                          *)
Access(c, r) ==
    /\ c.mode # "off"
    /\ SkillOf[r] \notin c.denied
    /\ selection[SkillOf[r]] = [release |-> r, enabled |-> TRUE]

(* What a run of the goal may read: allowed by the frozen and by the live  *)
(* settings, at the frozen version.                                        *)
Allowed(r) ==
    /\ master
    /\ "manual" \in {goal.snapshot.config.mode, config.mode} =>
          r \in goal.snapshot.manual \cap manual
    /\ r \in goal.snapshot.lock
    /\ Access(goal.snapshot.config, r) /\ Access(config, r)

Candidates == {r \in known : Allowed(r)}

-----------------------------------------------------------------------------
(* Decisions of the user.                                                  *)

(* Bound: what prepares a decision is of no interest after the last one.   *)
MayDecide == epochs.all + epochs.here < MaxEpoch

Asked(g) == [g EXCEPT !.pause = (g.state # "PAUSED") \/ @]

(* Every decision in the workspace moves its epoch, and asks the goals at  *)
(* work to pause.                                                          *)
PauseAffected ==
    /\ MayDecide
    /\ epochs' = [epochs EXCEPT !.here = @ + 1]
    /\ goal' = Asked(goal)

SetMaster(on) ==
    /\ MayDecide
    /\ master' = on
    /\ epochs' = [epochs EXCEPT !.all = @ + 1]
    /\ goal' = IF on THEN goal ELSE Asked(goal)
    /\ UNCHANGED <<config, known, inspected, selection, manual, draft, agent, late>>

(* update: the settings are saved if they still are those the user saw     *)
(* (expected); a window may show settings of any age.                      *)
Save(expected, new) ==
    /\ config = expected
    /\ PauseAffected
    /\ config' = new

(* skill-mode, package, assign, set: from record to record without await.  *)
ChangeSettings(expected) ==
    /\ \/ \E m \in Modes : Save(expected, [config EXCEPT !.mode = m])
       \/ \E s \in Deniable : Save(expected, [config EXCEPT !.denied = (@ \cup {s}) \ (@ \cap {s})])
    /\ UNCHANGED <<master, known, inspected, selection, manual, draft, agent, late>>

(* profile, binding: the model is looked up between the read and the save. *)
EditProfile(u) ==
    /\ MayDecide
    /\ draft[u] = NoDraft
    /\ draft' = [draft EXCEPT ![u] = config]
    /\ UNCHANGED <<policyRecords, goal, agent, late>>

SaveProfile(u, expected) ==
    /\ draft[u] # NoDraft
    /\ draft' = [draft EXCEPT ![u] = NoDraft]
    /\ \/ Save(expected, draft[u])
       \/ config # expected /\ UNCHANGED <<config, epochs, goal>>
    /\ UNCHANGED <<master, known, inspected, selection, manual, agent, late>>

(* Variant: the settings are the same, so nothing else is saved.           *)
EnableSkillQuietly(s, on) ==
    /\ selection' = [selection EXCEPT ![s].enabled = on]
    /\ UNCHANGED <<epochs, goal>>
    /\ UNCHANGED <<master, config, known, inspected, manual, draft, agent, late>>

(* selection: an approved version is switched on or off.                   *)
EnableSkill(s, on) ==
    /\ selection' = [selection EXCEPT ![s].enabled = on]
    /\ PauseAffected
    /\ UNCHANGED <<master, config, known, inspected, manual, draft, agent, late>>

(* import-local, import-github, collect-draft: into quarantine.            *)
Import(r) ==
    /\ MayDecide
    /\ known' = known \cup {r}
    /\ UNCHANGED <<master, config, epochs, inspected, selection, manual, goal, draft, agent, late>>

Inspect(r) ==
    /\ MayDecide
    /\ r \in known
    /\ inspected' = inspected \cup {r}
    /\ UNCHANGED <<master, config, epochs, known, selection, manual, goal, draft, agent, late>>

(* Variant: any imported version can be approved.                          *)
ApproveUnseen(r) ==
    /\ r \in known
    /\ selection' = [selection EXCEPT ![SkillOf[r]] = [release |-> r, enabled |-> TRUE]]
    /\ PauseAffected
    /\ UNCHANGED <<master, config, known, inspected, manual, draft, agent, late>>

(* The version replaces the one that was selected.                         *)
Approve(r) ==
    /\ r \in known /\ r \in inspected
    /\ selection' = [selection EXCEPT ![SkillOf[r]] = [release |-> r, enabled |-> TRUE]]
    /\ PauseAffected
    /\ UNCHANGED <<master, config, known, inspected, manual, draft, agent, late>>

(* selectionClosure: the release with those its skill needs, all enabled.  *)
Closure(r) == {r} \cup {selection[d].release : d \in Needs[SkillOf[r]]}

SelectManual(r, expectedEpoch) ==
    /\ expectedEpoch = epochs.here
    /\ Closure(r) \subseteq EnabledReleases
    /\ \A q \in Closure(r) : SkillOf[q] \notin config.denied
    /\ manual' = {p \in manual : \A q \in Closure(r) : SkillOf[p] # SkillOf[q]} \cup Closure(r)
    /\ PauseAffected
    /\ UNCHANGED <<master, config, known, inspected, selection, draft, agent, late>>

DeselectManual(r, expectedEpoch) ==
    /\ expectedEpoch = epochs.here
    /\ manual' = {p \in manual : SkillOf[p] # SkillOf[r]}
    /\ PauseAffected
    /\ UNCHANGED <<master, config, known, inspected, selection, draft, agent, late>>

Resting == goal.state = "PAUSED" /\ \A a \in Agents : agent[a].at \notin Live

(* A paused goal takes the settings of today.                              *)
Adopt(expected) ==
    /\ Resting
    /\ config = expected
    /\ goal' = [goal EXCEPT !.snapshot = Snapshot]
    /\ UNCHANGED <<policyRecords, draft, agent, late>>

-----------------------------------------------------------------------------
(* The controller and its agents.                                          *)

ResumeGoal ==
    /\ Resting
    /\ goal' = [goal EXCEPT !.state = "EXECUTING", !.pause = FALSE]
    /\ UNCHANGED <<policyRecords, draft, agent, late>>

Stale(a) == agent[a].epochs # epochs

(* Closed under dependencies, each at a version that may be read.          *)
Loadable(set) ==
    /\ set \subseteq Candidates
    /\ Cardinality(set) <= MaxActive
    /\ \A r \in set : \A d \in Needs[SkillOf[r]] : \E q \in set : SkillOf[q] = d

Pinned == {r \in Candidates : r \in goal.snapshot.manual \cap manual}

(* A run remembers the settings and the epoch.  What it loads at once is   *)
(* what was selected by hand and what matches the task (any of the         *)
(* candidates), or nothing for a planner.                                  *)
StartAgent(a) ==
    /\ goal.state = "EXECUTING" /\ agent[a].at \notin Live
    /\ \E set \in SUBSET Candidates :
          /\ set = {} \/ (Pinned \subseteq set /\ Loadable(set))
          /\ set # {} => \/ goal.snapshot.config.mode = "auto"
                         \/ \A r \in set : \E p \in Pinned :
                               r = p \/ SkillOf[r] \in Needs[SkillOf[p]]
          /\ agent' = [agent EXCEPT ![a] = [NewAgent EXCEPT !.at = "ready", !.loaded = set]]
    /\ late' = [late EXCEPT ![a] = NoLate]
    /\ UNCHANGED <<policyRecords, goal, draft>>

(* Variant: the hash of the settings is all that is compared.              *)
GuardByHash(a) ==
    /\ ~agent[a].aborted
    /\ config = agent[a].config
    /\ agent[a].loaded # {} => master
    /\ \A r \in agent[a].loaded : Allowed(r)

(* SkillSession.guard, before anything the run does with what it read.     *)
Guard(a) ==
    /\ ~agent[a].aborted
    /\ config = agent[a].config
    /\ agent[a].loaded # {} => master
    /\ ~Stale(a)
    /\ \A r \in agent[a].loaded : Allowed(r)

Move(a, from, to) ==
    /\ agent[a].at = from
    /\ agent' = [agent EXCEPT ![a].at = to]
    /\ UNCHANGED <<policyRecords, goal, draft>>

(* Something begins with what the run has read: a request or a script.     *)
Begins(a, how) ==
    late' = [late EXCEPT ![a][how] = @ + (IF Stale(a) /\ @ < 2 THEN 1 ELSE 0)]

(* load, with the dependencies that are missing.                           *)
LoadSkill(a) ==
    /\ agent[a].at = "ready" /\ Guard(a)
    /\ \E r \in Candidates :
          LET set == agent[a].loaded \cup {r}
                     \cup {q \in Candidates : SkillOf[q] \in Needs[SkillOf[r]]}
          IN  Loadable(set) /\ agent' = [agent EXCEPT ![a].loaded = set]
    /\ UNCHANGED <<policyRecords, goal, draft, late>>

(* beforeRequest; on the route of a contributor the consent is read from   *)
(* disk after the guard.                                                   *)
Ask(a) ==
    /\ Guard(a)
    /\ \/ Move(a, "ready", "ready") /\ Begins(a, "guarded")
       \/ Move(a, "ready", "consent") /\ UNCHANGED late

AskWithConsent(a) == Move(a, "consent", "ready") /\ Begins(a, "consented")

(* A script of a loaded skill: copied to a clean place, guarded again.     *)
StageScript(a) ==
    /\ agent[a].loaded # {} /\ Guard(a)
    /\ Move(a, "ready", "staging") /\ UNCHANGED late

RunScript(a) == Guard(a) /\ Move(a, "staging", "ready") /\ Begins(a, "guarded")

Leaves(a) ==
    /\ agent' = [agent EXCEPT ![a] = Idle]
    /\ late' = [late EXCEPT ![a] = NoLate]
    /\ UNCHANGED <<policyRecords, goal, draft>>

(* An error of the guard, of the provider or of the consent, or the end.   *)
AgentEnds(a) ==
    /\ agent[a].at \in Live
    /\ Leaves(a)

AbortRuns(set) == [a \in Agents |-> IF a \in set THEN [agent[a] EXCEPT !.aborted = TRUE] ELSE agent[a]]

(* Variant: only the workspace's own epoch is compared.                    *)
PollHere(a) ==
    /\ agent[a].at \in Live /\ agent[a].epochs.here # epochs.here
    /\ agent' = AbortRuns({a})
    /\ UNCHANGED <<policyRecords, goal, draft, late>>

(* policyLease, every 75 ms.                                               *)
Poll(a) ==
    /\ agent[a].at \in Live /\ Stale(a)
    /\ agent' = AbortRuns({a})
    /\ UNCHANGED <<policyRecords, goal, draft, late>>

(* The signal ends requests, scripts and the run.                          *)
AgentAborts(a) ==
    /\ agent[a].at \in Live /\ agent[a].aborted
    /\ Leaves(a)

(* The controller's own timer, and the pause when its agents are done.     *)
SeePause ==
    /\ goal.state = "EXECUTING" /\ goal.pause
    /\ agent' = AbortRuns({a \in Agents : agent[a].at \in Live})
    /\ goal' = [goal EXCEPT !.state = "STOPPING"]
    /\ UNCHANGED <<policyRecords, draft, late>>

Paused ==
    /\ goal.state = "STOPPING" /\ \A a \in Agents : agent[a].at \notin Live
    /\ goal' = [goal EXCEPT !.state = "PAUSED", !.pause = FALSE]
    /\ UNCHANGED <<policyRecords, draft, agent, late>>

-----------------------------------------------------------------------------
Decision ==
    \/ \E on \in BOOLEAN : SetMaster(on) \/ \E s \in Skills : EnableSkill(s, on)
    \/ \E u \in Editors : EditProfile(u) \/ \E expected \in Config : SaveProfile(u, expected)
    \/ \E expected \in Config : ChangeSettings(expected) \/ Adopt(expected)
    \/ \E r \in Releases : Import(r) \/ Inspect(r) \/ Approve(r)
    \/ \E r \in Releases, expectedEpoch \in 0 .. MaxEpoch :
          SelectManual(r, expectedEpoch) \/ DeselectManual(r, expectedEpoch)

AgentStep(a) ==
    \/ StartAgent(a) \/ LoadSkill(a) \/ Ask(a) \/ AskWithConsent(a)
    \/ StageScript(a) \/ RunScript(a) \/ AgentEnds(a)

PolicyNext ==
    \/ Decision \/ ResumeGoal \/ SeePause \/ Paused
    \/ \E a \in Agents : AgentStep(a) \/ Poll(a) \/ AgentAborts(a)

PolicySpec == PolicyInit /\ [][PolicyNext]_policyVars

(* The timers run, and an aborted run unwinds.                             *)
PolicyFairness ==
    \A a \in Agents : WF_policyVars(Poll(a)) /\ WF_policyVars(AgentAborts(a))

PolicyFairSpec == PolicySpec /\ PolicyFairness

-----------------------------------------------------------------------------
PolicyTypeOK ==
    /\ master \in BOOLEAN /\ config \in Config /\ epochs \in Epochs
    /\ known \subseteq Releases /\ inspected \subseteq known
    /\ selection \in [Skills -> [release : Releases, enabled : BOOLEAN]]
    /\ manual \subseteq Releases
    /\ goal \in [state : {"PAUSED", "EXECUTING", "STOPPING"}, pause : BOOLEAN,
                 snapshot : [config : Config, lock : SUBSET Releases, manual : SUBSET Releases]]
    /\ draft \in [Editors -> Config \cup {NoDraft}]
    /\ agent \in [Agents -> [at : Live \cup {"none"}, config : Config \cup {NoDraft}, epochs : Epochs,
                             loaded : SUBSET Releases, aborted : BOOLEAN]]
    /\ late \in [Agents -> [guarded : 0 .. 2, consented : 0 .. 2]]

(* A run starts no request and no script after a decision, even one that   *)
(* was undone at once (docs/v4-user-guide.md:11); on a route that needs    *)
(* consent, at most the request that had passed the guard.                 *)
NothingAfterDecision ==
    \A a \in Agents : late[a].guarded = 0 /\ late[a].consented <= 1

(* While nothing was decided since a run started, all it has loaded may    *)
(* still be read, with everything it depends on: no command withdraws a    *)
(* permission without moving the epoch.                                    *)
LoadedMayBeRead ==
    \A a \in Agents : agent[a].at \in Live /\ ~Stale(a) => Loadable(agent[a].loaded)

(* What an agent reads came with the program, or was imported, looked into *)
(* and approved, and is the version of the goal's snapshot.                *)
OnlyReviewedVersions ==
    \A a \in Agents : agent[a].at \in Live =>
        /\ agent[a].loaded \subseteq Builtin \cup inspected
        /\ agent[a].loaded \subseteq goal.snapshot.lock

(* The policy is obeyed at every moment of a run: by its requests and      *)
(* scripts, by what it may still read and by the versions it was given.    *)
PolicyInv == NothingAfterDecision /\ LoadedMayBeRead /\ OnlyReviewedVersions

(* A decision ends the runs it found at work, whichever window it came     *)
(* from and although no provider answers.                                  *)
DecisionEndsRun ==
    \A a \in Agents : (agent[a].at \in Live /\ Stale(a)) ~> agent[a].at \notin Live

-----------------------------------------------------------------------------
(* The inductive invariant behind PolicyInv.                               *)

(* What is selected has been looked into, or came with the program.        *)
SelectedReviewed == \A s \in Skills : selection[s].release \in Builtin \cup inspected

(* A run never knows more decisions than there are; what it asked for      *)
(* after one, it asked in the last step that had passed the guard.         *)
AgentInv(a) ==
    /\ agent[a].at \in Live =>
          agent[a].epochs.all <= epochs.all /\ agent[a].epochs.here <= epochs.here
    /\ late[a].consented > 0 => agent[a].at # "consent" /\ (agent[a].at \in Live => Stale(a))

PolicyIInv ==
    /\ PolicyTypeOK /\ PolicyInv /\ SelectedReviewed
    /\ \A a \in Agents : AgentInv(a)
===============================================================================
