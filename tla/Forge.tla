------------------------------- MODULE Forge -------------------------------
(***************************************************************************)
(* The skill forge: a bounded child loop writes a skill under a staging    *)
(* directory that all tasks share, compiles it through a scratch member of *)
(* the daemon's cargo workspace, and parks a grant question; a "yes" moves *)
(* staging into skills/, registers the crate and compiles it for good.     *)
(*                                                                         *)
(* Forge loops of several tasks run on several threads without a lock: the *)
(* file system is the shared state, and a step is one operation on it.     *)
(* Reading Cargo.toml and writing it back are two steps.                   *)
(***************************************************************************)
EXTENDS Integers, FiniteSets

CONSTANTS
  Tasks,
  Skills,
  Contents,    \* what a skill's directory may hold: manifest and source
  Manifests,
  Drafts,      \* bound: the contents a child may write for each skill
  Man,         \* the manifest of each content
  Pkg,         \* its [package] name; None when cargo refuses its Cargo.toml
  Lib,         \* its [lib] name
  Own,         \* the name of its directory's crate, or of its package
  Dlt,         \* manifests that request hedera_pay or x402_pay
  Misnamed,    \* manifests whose name is not that of their directory
  Common,      \* the crate of two skills whose names map to one
  MaxWrites,   \* bound: forge_write calls
  MaxEvents,   \* bound: forge tasks, forge_build calls, loads and crashes
  None

ASSUME ForgeAssumption ==
  /\ Drafts \subseteq Skills \X Contents
  /\ Man \in [Contents -> Manifests]
  /\ Dlt \subseteq Manifests /\ Misnamed \subseteq Manifests
  /\ MaxWrites \in Nat /\ MaxEvents \in Nat
  /\ Pkg \in [Contents -> Skills \cup {Common, Own, None}]
  /\ Lib \in [Contents -> Skills \cup {Common, Own}]
  /\ Own \notin Skills \cup {Common}
  /\ None \notin Contents \cup Manifests \cup Skills \cup Tasks \cup {Common, Own}

VARIABLES
  staging,    \* ~/.aria/forge-staging: the content of each skill's directory
  skillsDir,  \* skills/: the installed directories
  installed,  \* what they hold; None for a directory that stayed empty
  scratch,    \* target/forge-build: the content of each crate's directory
  members,    \* the [workspace] members of Cargo.toml
  wasm,       \* the release artifact of each crate: what it was compiled from
  live,       \* skills reported as installed and reloaded
  modules,    \* SkillManager.modules: the compiled module of each skill that ran
  loading,    \* a call between reading the artifact and caching it
  pc,         \* what the forge code of each task does next
  skill,      \* the skill it works on
  written,    \* the child's top-level staging directories
  then,       \* where a scratch build returns to
  text,       \* its copy of the members, between reading and writing
  noted,      \* what was staged when its question was drawn up
  built,      \* what its last build compiled; None when it failed
  grant,      \* tasks.pending_action_json: the parked grant
  agreed,     \* history: the manifest the user's "yes" was about
  collide,    \* the skills share a crate name
  lost,       \* history: the members that a write on an older copy was wrong about
  odd,        \* history: the anomalies met so far
  writes, events

files == <<staging, skillsDir, installed, scratch, wasm>>
cache == <<live, modules, loading>>
child == <<skill, written, then, noted, built>>
question == <<grant, agreed>>
edits == <<text, lost>>
bounds == <<collide, writes, events>>
vars == <<files, cache, members, pc, child, edits, question, odd, bounds>>

\* crate_name_for: dots become underscores, so a_b.c and a.b_c are one crate.
Crate(s) == IF collide THEN Common ELSE s
Crates == Skills \cup {Common}

InScratch(k) == <<"target/forge-build", k>>
InSkills(s) == <<"skills", s>>
Members == {InScratch(k) : k \in Crates} \cup {InSkills(s) : s \in Skills}

Grants == [skill : Skills, man : Manifests, ok : BOOLEAN]
Building == {"copy", "list", "listed", "cargo", "unlist", "unlisted", "wipe"}
Installing == {"check", "move", "register", "registered", "release", "verify"}
Discarding == {"delist", "delisted", "delete"}
PCs == {"idle", "child", "ask", "parked", "approve"} \cup Building \cup Installing \cup Discarding
Anomalies == {"raced", "shared", "late", "crash"}

TypeOK ==
  /\ staging \in [Skills -> Contents \cup {None}]
  /\ skillsDir \subseteq Skills
  /\ installed \in [Skills -> Contents \cup {None}]
  /\ scratch \in [Crates -> Contents \cup {None}]
  /\ members \subseteq Members
  /\ wasm \in [Crates -> Contents \cup {None}]
  /\ live \subseteq Skills
  /\ modules \in [Skills -> Contents \cup {None}]
  /\ loading \in [skill : Skills, of : Contents] \cup {None}
  /\ collide \in BOOLEAN
  /\ pc \in [Tasks -> PCs]
  /\ skill \in [Tasks -> Skills \cup {None}]
  /\ written \in [Tasks -> SUBSET Skills]
  /\ then \in [Tasks -> {"child", "ask"}]
  /\ text \in [Tasks -> SUBSET Members]
  /\ noted \in [Tasks -> Contents \cup {None}]
  /\ built \in [Tasks -> Contents \cup {None}]
  /\ grant \in [Tasks -> Grants \cup {None}]
  /\ agreed \in [Tasks -> Manifests \cup {None}]
  /\ lost \subseteq Members /\ odd \subseteq Anomalies
  /\ writes \in 0..MaxWrites /\ events \in 0..MaxEvents
  /\ \A s \in live : s \in skillsDir
  /\ \A t \in Tasks : pc[t] \notin {"idle", "child"} => skill[t] \in Skills
  /\ \A t \in Tasks : pc[t] \in {"parked", "approve"} \cup Discarding => grant[t] \in Grants

Init ==
  /\ staging = [s \in Skills |-> None]
  /\ skillsDir = {} /\ installed = [s \in Skills |-> None]
  /\ scratch = [k \in Crates |-> None]
  /\ members = {}
  /\ wasm = [k \in Crates |-> None]
  /\ live = {} /\ modules = [s \in Skills |-> None] /\ loading = None
  /\ collide \in BOOLEAN
  /\ pc = [t \in Tasks |-> "idle"]
  /\ skill = [t \in Tasks |-> None]
  /\ written = [t \in Tasks |-> {}]
  /\ then = [t \in Tasks |-> "child"]
  /\ text = [t \in Tasks |-> {}]
  /\ noted = [t \in Tasks |-> None]
  /\ built = [t \in Tasks |-> None]
  /\ grant = [t \in Tasks |-> None]
  /\ agreed = [t \in Tasks |-> None]
  /\ lost = {} /\ odd = {} /\ writes = 0 /\ events = 0

Goto(t, place) == pc' = [pc EXCEPT ![t] = place]

\* The child's ForgeResult is used up.
Report(t) ==
  /\ written' = [written EXCEPT ![t] = {}]
  /\ then' = [then EXCEPT ![t] = "child"]
  /\ noted' = [noted EXCEPT ![t] = None]
  /\ built' = [built EXCEPT ![t] = None]

\* The task ends, or goes on without the forge; a later one uses its place.
End(t) ==
  /\ Goto(t, "idle")
  /\ skill' = [skill EXCEPT ![t] = None]
  /\ agreed' = [agreed EXCEPT ![t] = None]
  /\ Report(t)

\* What changes under another task, when t changes the staging of s.
Races(t, s) ==
  {a \in {"raced", "shared"} : \E u \in Tasks \ {t} :
     /\ skill[u] = s
     /\ pc[u] \in (IF a = "raced" THEN {"check", "move"} ELSE {"copy"})}

\* Another task uses the scratch directory of crate k.
Clashes(t, k) ==
  {a \in {"shared"} : \E u \in Tasks \ {t} :
     /\ pc[u] \in (Building \ {"copy"}) \cup Discarding
     /\ Crate(skill[u]) = k}

-----------------------------------------------------------------------------
(***************************************************************************)
(* The child loop: run_forge_subagent and dispatch_forge_action.           *)
(***************************************************************************)
Trigger(t) ==
  /\ pc[t] = "idle" /\ grant[t] = None
  /\ events < MaxEvents
  /\ events' = events + 1
  /\ Goto(t, "child")
  /\ UNCHANGED <<files, cache, members, child, edits, question, odd, collide, writes>>

ForgeWrite(t, s, c) ==
  /\ pc[t] = "child"
  /\ writes < MaxWrites /\ <<s, c>> \in Drafts
  /\ writes' = writes + 1
  /\ staging' = [staging EXCEPT ![s] = c]
  /\ written' = [written EXCEPT ![t] = @ \cup {s}]
  /\ odd' = odd \cup Races(t, s)
  /\ UNCHANGED <<skillsDir, installed, scratch, wasm, cache, members, pc, skill, then,
                 noted, built, edits, question, collide, events>>

\* forge_build on what is staged; its outcome is only told to the child.
ForgeBuild(t, s) ==
  /\ pc[t] = "child"
  /\ staging[s] # None
  /\ events < MaxEvents
  /\ events' = events + 1
  /\ Goto(t, "copy")
  /\ skill' = [skill EXCEPT ![t] = s]
  /\ then' = [then EXCEPT ![t] = "child"]
  /\ UNCHANGED <<files, cache, members, written, noted, built, edits, question, odd,
                 collide, writes>>

\* finalize_forge: what the child wrote, or else what any child left staged.
Candidates(t) == IF written[t] # {} THEN written[t] ELSE {s \in Skills : staging[s] # None}

\* Mutant: the outcome of the child's own last forge_build is shown.
FinalizeUnbuilt(t) ==
  /\ pc[t] = "child"
  /\ \E s \in Skills :
       /\ Candidates(t) = {s} /\ staging[s] # None
       /\ Goto(t, "ask")
       /\ skill' = [skill EXCEPT ![t] = s]
       /\ noted' = [noted EXCEPT ![t] = staging[s]]
  /\ UNCHANGED <<files, cache, members, written, then, built, edits, question, odd, bounds>>

Finalize(t) ==
  /\ pc[t] = "child"
  /\ \E s \in Skills :
       /\ Candidates(t) = {s} /\ staging[s] # None
       /\ Goto(t, "copy")
       /\ skill' = [skill EXCEPT ![t] = s]
       /\ then' = [then EXCEPT ![t] = "ask"]
       /\ noted' = [noted EXCEPT ![t] = staging[s]]
  /\ UNCHANGED <<files, cache, members, written, built, edits, question, odd, bounds>>

\* No single candidate, or its manifest is gone: an Error and no question.
FinalizeFails(t) ==
  /\ pc[t] = "child"
  /\ \/ Cardinality(Candidates(t)) # 1
     \/ \E s \in Candidates(t) : staging[s] = None
  /\ End(t)
  /\ UNCHANGED <<files, cache, members, edits, grant, odd, bounds>>

-----------------------------------------------------------------------------
(***************************************************************************)
(* build_staged_skill: staging is copied to a scratch directory that is a  *)
(* workspace member for as long as cargo runs.                             *)
(***************************************************************************)
Copy(t) ==
  LET s == skill[t] k == Crate(skill[t]) IN
  /\ pc[t] = "copy" /\ staging[s] # None
  /\ Goto(t, "list")
  /\ scratch' = [scratch EXCEPT ![k] = staging[s]]
  /\ odd' = odd \cup Clashes(t, k)
  /\ UNCHANGED <<staging, skillsDir, installed, wasm, cache, members, skill, written,
                 then, noted, built, edits, question, bounds>>

\* "Nothing staged": build_ok is false.
CopyFails(t) ==
  /\ pc[t] = "copy" /\ staging[skill[t]] = None
  /\ Goto(t, then[t])
  /\ built' = [built EXCEPT ![t] = None]
  /\ UNCHANGED <<files, cache, members, skill, written, then, noted, edits, question,
                 odd, bounds>>

\* read_to_string(Cargo.toml)
ReadMembers(t, from, to) ==
  /\ pc[t] = from
  /\ Goto(t, to)
  /\ text' = [text EXCEPT ![t] = members]
  /\ UNCHANGED <<files, cache, members, child, lost, question, odd, bounds>>

\* write(Cargo.toml): what others wrote since the read is lost.  Nothing is
\* written when the copy already is as it should be.
WriteMembers(t, from, new, to) ==
  /\ pc[t] = from
  /\ Goto(t, to)
  /\ members' = IF new = text[t] THEN members ELSE new
  /\ lost' = lost \cup (members \ text[t]) \cup (text[t] \ members)
  /\ odd' = odd \cup UNION {Clashes(t, k) : k \in {j \in Crates : InScratch(j) \in text[t] \ new}}
  /\ text' = [text EXCEPT ![t] = {}]
  /\ UNCHANGED <<files, cache, child, question, bounds>>

List(t) ==
  \/ ReadMembers(t, "list", "listed")
  \/ WriteMembers(t, "listed", text[t] \cup {InScratch(Crate(skill[t]))}, "cargo")

\* Mutant: the scratch member is kept after the build.
UnlistKeeping(t) ==
  \/ ReadMembers(t, "unlist", "unlisted")
  \/ WriteMembers(t, "unlisted", text[t], "wipe")

Unlist(t) ==
  \/ ReadMembers(t, "unlist", "unlisted")
  \/ WriteMembers(t, "unlisted", text[t] \ {InScratch(Crate(skill[t]))}, "wipe")

\* Nothing compares a Cargo.toml with the skill whose directory it lies in.
Content(m) == IF m[1] = "skills" THEN installed[m[2]] ELSE scratch[m[2]]
Dir(m) == IF m[1] = "skills" THEN Crate(m[2]) ELSE m[2]
Package(m) == IF Pkg[Content(m)] = Own THEN Dir(m) ELSE Pkg[Content(m)]
Artifact(m) == IF Lib[Content(m)] = Own THEN Package(m) ELSE Lib[Content(m)]

\* Cargo loads every member before it builds one: each needs a directory with
\* a Cargo.toml, and no two may have one name.
Exists(m) == Content(m) # None /\ Pkg[Content(m)] # None

\* Mutant: two members of one name are accepted, and either is built.
LoadsTwice == \A m \in members : Exists(m)

Loads == /\ \A m \in members : Exists(m)
         /\ \A m, n \in members : Package(m) = Package(n) => m = n

\* run_cargo_build of a package that compiles, in time: it is found by its
\* name, wherever it is, and its artifact has the name of its library.
CargoBuilds(k, m) ==
  /\ Loads
  /\ m \in members /\ Package(m) = k
  /\ wasm' = [wasm EXCEPT ![Artifact(m)] = Content(m)]

\* On any content it may fail, or exceed FORGE_BUILD_TIMEOUT.
BuildScratch(t) ==
  /\ pc[t] = "cargo"
  /\ Goto(t, "unlist")
  /\ \/ \E m \in members :
          CargoBuilds(Crate(skill[t]), m) /\ built' = [built EXCEPT ![t] = Content(m)]
     \/ built' = [built EXCEPT ![t] = None] /\ UNCHANGED wasm
  /\ UNCHANGED <<staging, skillsDir, installed, scratch, cache, members, skill, written,
                 then, noted, edits, question, odd, bounds>>

Wipe(t) ==
  /\ pc[t] = "wipe"
  /\ Goto(t, then[t])
  /\ scratch' = [scratch EXCEPT ![Crate(skill[t])] = None]
  /\ UNCHANGED <<staging, skillsDir, installed, wasm, cache, members, child, edits,
                 question, odd, bounds>>

-----------------------------------------------------------------------------
(***************************************************************************)
(* The question: forge_request_flow parks it, a reply resumes the task.    *)
(***************************************************************************)
Park(t) ==
  /\ pc[t] = "ask"
  /\ Goto(t, "parked")
  /\ grant' = [grant EXCEPT ![t] =
       [skill |-> skill[t], man |-> Man[noted[t]], ok |-> built[t] # None]]
  /\ Report(t)
  /\ UNCHANGED <<files, cache, members, skill, edits, agreed, odd, bounds>>

Yes(t) ==
  /\ pc[t] = "parked"
  /\ Goto(t, "approve")
  /\ agreed' = [agreed EXCEPT ![t] = grant[t].man]
  /\ UNCHANGED <<files, cache, members, child, edits, grant, odd, bounds>>

No(t) ==
  /\ pc[t] = "parked"
  /\ Goto(t, "delist")
  /\ UNCHANGED <<files, cache, members, child, edits, question, odd, bounds>>

\* Any other reply leaves the grant parked, but the turn it starts may park a
\* payment over it.
Overwrite(t) ==
  /\ pc[t] = "parked"
  /\ grant' = [grant EXCEPT ![t] = None]
  /\ End(t)
  /\ UNCHANGED <<files, cache, members, edits, odd, bounds>>

\* dlt_enabled_live: any client may have changed the flag, or the environment
\* may hold it whatever they set.
DltReads == BOOLEAN

Gated(m, dlt) == m \in Dlt /\ ~dlt

\* Mutant: the staged manifest is not compared with the one that was shown.
ApproveUnread(t) ==
  LET s == grant[t].skill IN
  /\ pc[t] = "approve"
  /\ staging[s] # None
  /\ grant' = [grant EXCEPT ![t] = None]
  /\ Goto(t, "check")
  /\ UNCHANGED <<files, cache, members, child, edits, agreed, odd, bounds>>

\* approve_skill_grant: the staged manifest is the one the question showed.
Approve(t) ==
  LET s == grant[t].skill IN
  /\ pc[t] = "approve"
  /\ staging[s] # None
  /\ Man[staging[s]] = grant[t].man
  /\ \E dlt \in DltReads : ~Gated(grant[t].man, dlt)
  /\ grant' = [grant EXCEPT ![t] = None]
  /\ Goto(t, "check")
  /\ UNCHANGED <<files, cache, members, child, edits, agreed, odd, bounds>>

\* FingerprintChanged asks again with the staged manifest; Refused keeps the
\* question parked until DLT is on.
AskAgain(t) ==
  LET s == grant[t].skill IN
  /\ pc[t] = "approve"
  /\ staging[s] # None
  /\ Man[staging[s]] # grant[t].man \/ \E dlt \in DltReads : Gated(grant[t].man, dlt)
  /\ Goto(t, "parked")
  /\ grant' = [grant EXCEPT ![t] = [skill |-> s, man |-> Man[staging[s]], ok |-> grant[t].ok]]
  /\ agreed' = [agreed EXCEPT ![t] = None]
  /\ UNCHANGED <<files, cache, members, child, edits, odd, bounds>>

\* Mutant: the grant is cleared, and its question left open.
NothingStagedParked(t) ==
  /\ pc[t] = "approve"
  /\ staging[grant[t].skill] = None
  /\ grant' = [grant EXCEPT ![t] = None]
  /\ Goto(t, "parked")
  /\ UNCHANGED <<files, cache, members, child, edits, agreed, odd, bounds>>

NothingStaged(t) ==
  /\ pc[t] = "approve"
  /\ staging[grant[t].skill] = None
  /\ grant' = [grant EXCEPT ![t] = None]
  /\ End(t)
  /\ UNCHANGED <<files, cache, members, edits, odd, bounds>>

-----------------------------------------------------------------------------
(***************************************************************************)
(* install_staged_skill                                                    *)
(***************************************************************************)
\* Mutant: an existing destination is not refused.
InstallableOver(s, dlt) ==
  /\ staging[s] # None
  /\ Man[staging[s]] \notin Misnamed
  /\ ~Gated(Man[staging[s]], dlt)

Installable(s, dlt) ==
  /\ staging[s] # None
  /\ Man[staging[s]] \notin Misnamed
  /\ ~Gated(Man[staging[s]], dlt)
  /\ s \notin skillsDir

Check(t) ==
  /\ pc[t] = "check"
  /\ \E dlt \in DltReads : Installable(skill[t], dlt)
  /\ Goto(t, "move")
  /\ UNCHANGED <<files, cache, members, child, edits, question, odd, bounds>>

CheckFails(t) ==
  /\ pc[t] = "check"
  /\ \E dlt \in DltReads : ~Installable(skill[t], dlt)
  /\ End(t)
  /\ UNCHANGED <<files, cache, members, edits, grant, odd, bounds>>

\* move_dir: a rename, or a copy over what is there when the rename fails; a
\* source that is gone leaves an empty directory and an error.
Move(t) ==
  LET s == skill[t] IN
  /\ pc[t] = "move"
  /\ skillsDir' = skillsDir \cup {s}
  /\ IF staging[s] # None
     THEN /\ installed' = [installed EXCEPT ![s] = staging[s]]
          /\ staging' = [staging EXCEPT ![s] = None]
          /\ odd' = odd \cup Races(t, s)
          /\ Goto(t, "register")
          /\ agreed' = [agreed EXCEPT ![t] = None]
          /\ UNCHANGED child
     ELSE End(t) /\ UNCHANGED <<installed, staging, odd>>
  /\ UNCHANGED <<scratch, wasm, cache, members, edits, grant, bounds>>

Register(t) ==
  \/ ReadMembers(t, "register", "registered")
  \/ WriteMembers(t, "registered", text[t] \cup {InSkills(skill[t])}, "release")

BuildRelease(t) ==
  /\ pc[t] = "release"
  /\ \E m \in members : CargoBuilds(Crate(skill[t]), m)
  /\ Goto(t, "verify")
  /\ UNCHANGED <<staging, skillsDir, installed, scratch, cache, members, child, edits,
                 question, odd, bounds>>

\* The skill stays in skills/, and a member.
ReleaseFails(t) ==
  /\ pc[t] = "release"
  /\ End(t)
  /\ UNCHANGED <<files, cache, members, edits, grant, odd, bounds>>

\* Invalidate the cached module, load the manifest, and see that an artifact of
\* the skill's name exists.
Verify(t) ==
  LET s == skill[t] IN
  /\ pc[t] = "verify"
  /\ live' = IF wasm[Crate(s)] # None THEN live \cup {s} ELSE live
  /\ modules' = [modules EXCEPT ![s] = None]
  /\ odd' = odd \cup {o \in {"late"} : loading # None /\ loading.skill = s}
  /\ End(t)
  /\ UNCHANGED <<files, loading, members, edits, grant, bounds>>

\* get_module of another task's call: a skill that has a manifest and an
\* artifact is loaded, and cached by its name in a second step.
Load(s) ==
  /\ loading = None /\ modules[s] = None
  /\ installed[s] # None /\ wasm[Crate(s)] # None
  /\ events < MaxEvents
  /\ events' = events + 1
  /\ loading' = [skill |-> s, of |-> wasm[Crate(s)]]
  /\ UNCHANGED <<files, live, modules, members, pc, child, edits, question, odd, collide, writes>>

Insert ==
  /\ loading # None
  /\ modules' = [modules EXCEPT ![loading.skill] = loading.of]
  /\ loading' = None
  /\ UNCHANGED <<files, live, members, pc, child, edits, question, odd, bounds>>

\* discard_staged_skill, then clear_pending_action.
Discard(t) ==
  \/ ReadMembers(t, "delist", "delisted")
  \/ WriteMembers(t, "delisted", text[t] \ {InScratch(Crate(skill[t]))}, "delete")

Delete(t) ==
  /\ pc[t] = "delete"
  /\ scratch' = [scratch EXCEPT ![Crate(skill[t])] = None]
  /\ staging' = [staging EXCEPT ![skill[t]] = None]
  /\ grant' = [grant EXCEPT ![t] = None]
  /\ odd' = odd \cup Races(t, skill[t]) \cup Clashes(t, Crate(skill[t]))
  /\ End(t)
  /\ UNCHANGED <<skillsDir, installed, wasm, cache, members, edits, bounds>>

-----------------------------------------------------------------------------
\* Parked grants survive a crash, and so do scratch directories and members.
Crash ==
  /\ events < MaxEvents
  /\ events' = events + 1
  /\ odd' = odd \cup {"crash"}
  /\ pc' = [t \in Tasks |-> IF grant[t] = None THEN "idle" ELSE "parked"]
  /\ skill' = [t \in Tasks |-> IF grant[t] = None THEN None ELSE skill[t]]
  /\ written' = [t \in Tasks |-> {}]
  /\ then' = [t \in Tasks |-> "child"]
  /\ text' = [t \in Tasks |-> {}]
  /\ noted' = [t \in Tasks |-> None]
  /\ built' = [t \in Tasks |-> None]
  /\ agreed' = [t \in Tasks |-> None]
  /\ modules' = [s \in Skills |-> None] /\ loading' = None
  /\ UNCHANGED <<files, live, members, lost, grant, collide, writes>>

Child(t) == \/ Trigger(t) \/ Finalize(t) \/ FinalizeFails(t)
            \/ \E s \in Skills : ForgeBuild(t, s) \/ \E c \in Contents : ForgeWrite(t, s, c)
Build(t) == Copy(t) \/ CopyFails(t) \/ List(t) \/ BuildScratch(t) \/ Unlist(t) \/ Wipe(t)
Grant(t) == \/ Park(t) \/ Yes(t) \/ No(t) \/ Overwrite(t)
            \/ Approve(t) \/ AskAgain(t) \/ NothingStaged(t)
Install(t) == \/ Check(t) \/ CheckFails(t) \/ Move(t) \/ Register(t) \/ BuildRelease(t)
              \/ ReleaseFails(t) \/ Verify(t) \/ Discard(t) \/ Delete(t)

Next == (\E t \in Tasks : Child(t) \/ Build(t) \/ Grant(t) \/ Install(t)) \/ Crash \/ Insert
        \/ \E s \in Skills : Load(s)

Spec == Init /\ [][Next]_vars

-----------------------------------------------------------------------------
(***************************************************************************)
(* What a "yes" installs has the manifest, and so the capabilities, that   *)
(* its question showed (forge_fingerprint at approval), unless another     *)
(* task rewrote the shared staging directory between the check of          *)
(* approve_skill_grant and the rename of move_dir.  The source is not in   *)
(* the fingerprint.                                                        *)
(***************************************************************************)
InstallsWhatWasAgreed ==
  [][\A t \in Tasks : pc[t] = "move" /\ pc'[t] = "register" =>
       Man[installed'[skill[t]]] = agreed[t] \/ "raced" \in odd]_vars

(***************************************************************************)
(* "Forge never overwrites": an installed directory keeps its content,     *)
(* unless staging was rewritten while an install was past the test of its  *)
(* destination (move_dir then copies over it).                             *)
(***************************************************************************)
NeverOverwrites ==
  [][\A s \in Skills : installed[s] # None =>
       installed'[s] = installed[s] \/ "raced" \in odd]_vars

Quiet == \A t \in Tasks : pc[t] \in {"idle", "child", "ask", "parked", "approve", "check"}

\* The Cargo.toml of an installed skill names its crate, and no other library.
Proper(s) ==
  /\ Pkg[installed[s]] \in {Own, Crate(s)}
  /\ Lib[installed[s]] \in {Own, Crate(s)}

(***************************************************************************)
(* When no forge code is at work, and none was cut short by a crash,       *)
(* Cargo.toml lists the installed skills and no scratch crate, whatever    *)
(* build failed or was denied: build_staged_skill and discard_staged_skill *)
(* take their members out again.  Two edits that overlap spoil only the    *)
(* lines that one of them changed after the other had read the file.       *)
(* Cargo can load it, unless a line is spoilt, two skills have one crate   *)
(* name, or a "yes" installed a source whose Cargo.toml is missing, broken *)
(* or another package's: a failed build does not keep it from being        *)
(* registered, and then every later build fails.                           *)
(***************************************************************************)
CargoTomlAgrees ==
  Quiet /\ "crash" \notin odd =>
    /\ \A s \in Skills : InSkills(s) \notin lost => (InSkills(s) \in members <=> installed[s] # None)
    /\ \A k \in Crates : InScratch(k) \in members => InScratch(k) \in lost
    /\ \/ Loads \/ lost # {} \/ collide
       \/ \E s \in Skills : installed[s] # None /\ ~Proper(s)

\* A source that was compiled as the skill's, or that names its library so.
Passes(c, s) == c = installed[s] \/ (c # None /\ Lib[c] = Crate(s))

(***************************************************************************)
(* The artifact that runs under the name of an installed skill was         *)
(* compiled from its installed directory, although every forge_build       *)
(* writes to the same target directory: while the skill is a member, cargo *)
(* refuses another crate of its name.  So was the module a call uses,      *)
(* unless get_module read the artifact before, and cached it after, the    *)
(* invalidate of the install.  The one other source an artifact may come   *)
(* from is one whose [lib] name is that of the skill's crate: nothing      *)
(* forbids it, and no consent comes before it is built.  Nothing is said   *)
(* of a skill whose own Cargo.toml is of another name, or whose line in    *)
(* the workspace an overlapping edit spoilt.                               *)
(***************************************************************************)
ArtifactIsInstalled ==
  "raced" \notin odd =>
    \A s \in live : Proper(s) /\ InSkills(s) \notin lost =>
      /\ Passes(wasm[Crate(s)], s)
      /\ Passes(modules[s], s) \/ modules[s] = None \/ "late" \in odd

(***************************************************************************)
(* A question that says the build is OK speaks of a build of what was      *)
(* staged when it was drawn up, unless another task used the same staging  *)
(* or scratch directory, an overlapping edit spoilt the scratch member, or *)
(* the staged Cargo.toml names another package: cargo then builds whatever *)
(* member has the skill's crate name.                                      *)
(***************************************************************************)
QuestionTellsBuild ==
  "shared" \notin odd =>
    \A t \in Tasks :
      /\ pc[t] = "ask" /\ built[t] # None
      /\ Pkg[noted[t]] \in {Own, Crate(skill[t])}
      /\ InScratch(Crate(skill[t])) \notin lost
      => built[t] = noted[t]
=============================================================================
