----------------------------- MODULE Forge_proofs -----------------------------
(***************************************************************************)
(* What holds of Forge for any number of tasks, skills, contents and       *)
(* manifests, any crate names, and any interleaving of builds, grants,     *)
(* installs and crashes: its types, what a "yes" installs, that nothing is *)
(* overwritten, what Cargo.toml lists, what the artifacts were compiled    *)
(* from, and what a question says of its build.                            *)
(***************************************************************************)
EXTENDS Forge, TLAPS

\* Where a task has an installed directory in hand.
Placing == {"register", "registered", "release", "verify"}

\* A question on its way has its manifest, and a parked one is about the task's skill.
Posed(t) ==
  /\ pc[t] = "ask" \/ (pc[t] \in Building /\ then[t] = "ask") => noted[t] \in Contents
  /\ grant[t] # None => pc[t] \in {"parked", "approve"} \cup Discarding
  /\ pc[t] \in {"parked", "approve"} \cup Discarding => grant[t].skill = skill[t]
  /\ pc[t] = "approve" => agreed[t] = grant[t].man

\* What is installed has a directory, and the skills being registered are installed.
Placed ==
  /\ \A s \in Skills : installed[s] # None => s \in skillsDir
  /\ \A t \in Tasks : pc[t] \in Placing => installed[skill[t]] # None

\* TypeOK is inductive only with what a task has at hand in each place.
BasicInv == TypeOK /\ Placed /\ \A t \in Tasks : Posed(t)

\* Past the approval, staging holds what was agreed, and past the test the place is free.
Fresh(t) ==
  /\ pc[t] \in {"check", "move"} =>
       staging[skill[t]] # None /\ Man[staging[skill[t]]] = agreed[t]
  /\ pc[t] = "move" => skill[t] \notin skillsDir

\* Nothing is known of a staging directory that two tasks used at once.
InstallInv == BasicInv /\ ("raced" \notin odd => \A t \in Tasks : Fresh(t))

\* Cargo.toml has a scratch crate only for a build, and an installed skill but for a moment,
\* wherever no edit was lost.
Listed ==
  /\ \A k \in Crates : InScratch(k) \in members \ lost =>
       \E t \in Tasks : pc[t] \in {"cargo", "unlist", "unlisted"} /\ Crate(skill[t]) = k
  /\ \A s \in Skills : InSkills(s) \in members \ lost => installed[s] # None
  /\ \A s \in Skills : installed[s] # None =>
       \/ InSkills(s) \in members \cup lost
       \/ \E t \in Tasks : pc[t] \in {"register", "registered"} /\ skill[t] = s

\* Nothing is known of Cargo.toml once a crash left an edit half done.
CargoInv == BasicInv /\ ("crash" \notin odd => Listed)

\* A skill that is live, or compiled for good, is a member: no other crate has its name.
Compiled(s) == s \in live \/ \E t \in Tasks : pc[t] = "verify" /\ skill[t] = s

\* Its line in Cargo.toml is not spoilt, and its Cargo.toml is that of its crate.
Sound(s) == Proper(s) /\ InSkills(s) \notin lost

\* A live skill is compiled from what is installed, and cached as that.
Pure ==
  /\ \A t \in Tasks : pc[t] = "release" => InSkills(skill[t]) \in members \cup lost
  /\ \A s \in Skills : Compiled(s) => InSkills(s) \in members \cup lost /\ installed[s] # None
  /\ \A s \in Skills : Compiled(s) /\ Sound(s) => Passes(wasm[Crate(s)], s)
  /\ \A s \in live : Sound(s) /\ "late" \notin odd =>
       /\ Passes(modules[s], s) \/ modules[s] = None
       /\ loading # None /\ loading.skill = s => Passes(loading.of, s)

\* It rests on InstallInv: what is installed never changes.
ArtifactInv == InstallInv /\ ("raced" \notin odd => Pure)

\* Where a task uses the scratch directory of its crate.
Compiling == Building \ {"copy"}

\* Alone with its directories, a task builds what its question will show, if that names the
\* package it builds.
BuildsShown(t) ==
  /\ pc[t] = "copy" /\ then[t] = "ask" /\ staging[skill[t]] # None => staging[skill[t]] = noted[t]
  /\ pc[t] \in {"list", "listed", "cargo"} /\ then[t] = "ask" => scratch[Crate(skill[t])] = noted[t]
  /\ pc[t] = "cargo" => InScratch(Crate(skill[t])) \in members \cup lost
  /\ pc[t] = "ask" \/ (pc[t] \in {"unlist", "unlisted", "wipe"} /\ then[t] = "ask") =>
       \/ built[t] \in {None, noted[t]}
       \/ Pkg[noted[t]] \notin {Own, Crate(skill[t])}
       \/ InScratch(Crate(skill[t])) \in lost

\* No two tasks build in the scratch directory of one crate.
ScratchAlone ==
  \A t, u \in Tasks : pc[t] \in Compiling /\ pc[u] \in Compiling /\ Crate(skill[t]) = Crate(skill[u]) => t = u

\* The question is true of a build that nothing else wrote to.
QuestionInv ==
  BasicInv /\ ("shared" \notin odd => ScratchAlone /\ \A t \in Tasks : BuildsShown(t))

-----------------------------------------------------------------------------
(***************************************************************************)
(* What the operations are built from.                                     *)
(***************************************************************************)

\* The crate of a skill is one, and every edit of Cargo.toml is of a member.
LEMMA CrateOf ==
  ASSUME NEW s \in Skills
  PROVE  Crate(s) \in Crates /\ InScratch(Crate(s)) \in Members /\ InSkills(s) \in Members
  BY DEF Crate, Crates, Members

\* A member is a scratch crate or an installed skill, never both.
LEMMA MemberKinds ==
  /\ \A k, j : InScratch(k) = InScratch(j) => k = j
  /\ \A s, r : InSkills(s) = InSkills(r) => s = r
  /\ \A k, s : InScratch(k) # InSkills(s)
  /\ \A k : Content(InScratch(k)) = scratch[k] /\ Dir(InScratch(k)) = k
  /\ \A s : Content(InSkills(s)) = installed[s] /\ Dir(InSkills(s)) = Crate(s)
<1>1. "skills" # "target/forge-build"
  OBVIOUS
<1> QED BY <1>1 DEF InScratch, InSkills, Content, Dir

\* Cargo compiles the one member of that package name, and its artifact passes for a skill
\* that is a member only if it is the skill's, or says so itself.
LEMMA BuildIs ==
  ASSUME TypeOK, NEW k \in Crates, NEW m \in members, CargoBuilds(k, m)
  PROVE  /\ Content(m) \in Contents /\ Artifact(m) \in Crates
         /\ wasm' = [wasm EXCEPT ![Artifact(m)] = Content(m)]
         /\ \A s \in Skills : InSkills(s) \in members /\ Proper(s) =>
              /\ Artifact(m) = Crate(s) => Passes(Content(m), s)
              /\ Crate(s) = k => Artifact(m) = Crate(s)
         /\ InScratch(k) \in members /\ Pkg[scratch[k]] \in {Own, k} => Content(m) = scratch[k]
<1>1. Loads /\ wasm' = [wasm EXCEPT ![Artifact(m)] = Content(m)] /\ members \subseteq Members /\ Package(m) = k
  BY DEF CargoBuilds, TypeOK
<1>2. Content(m) \in Contents
  <2>1. Content(m) # None
    BY <1>1 DEF Loads, Exists
  <2>2. CASE \E j \in Crates : m = InScratch(j)
    BY <2>1, <2>2, MemberKinds DEF TypeOK
  <2>3. CASE \E s \in Skills : m = InSkills(s)
    BY <2>1, <2>3, MemberKinds DEF TypeOK
  <2> QED BY <1>1, <2>2, <2>3 DEF Members
<1>3. Artifact(m) \in Crates
  BY <1>1, <1>2, ForgeAssumption DEF Artifact, Crates
<1>4. ASSUME NEW s \in Skills, InSkills(s) \in members, Proper(s)
      PROVE  /\ Artifact(m) = Crate(s) => Passes(Content(m), s)
             /\ Crate(s) = k => Artifact(m) = Crate(s)
  <2>1. Package(InSkills(s)) = Crate(s) /\ Artifact(InSkills(s)) = Crate(s)
    BY <1>4, MemberKinds DEF Proper, Package, Artifact
  <2>2. CASE Package(m) = Crate(s)
    <3>1. m = InSkills(s)
      BY <1>1, <1>4, <2>1, <2>2 DEF Loads
    <3> QED BY <2>1, <3>1, MemberKinds DEF Passes
  <2>3. CASE Package(m) # Crate(s)
    <3>1. Artifact(m) = Crate(s) => Lib[Content(m)] = Crate(s)
      BY <2>3 DEF Artifact
    <3> QED BY <1>1, <1>2, <2>3, <3>1, ForgeAssumption DEF Passes
  <2> QED BY <2>2, <2>3
<1>5. ASSUME InScratch(k) \in members, Pkg[scratch[k]] \in {Own, k} PROVE Content(m) = scratch[k]
  <2>1. Package(InScratch(k)) = k
    BY <1>5, MemberKinds DEF Package
  <2> QED BY <1>1, <1>5, <2>1, MemberKinds DEF Loads
<1> QED BY <1>1, <1>2, <1>3, <1>4, <1>5

\* What another task has at hand.
Same(u) ==
  /\ pc'[u] = pc[u] /\ skill'[u] = skill[u] /\ then'[u] = then[u] /\ noted'[u] = noted[u]
  /\ built'[u] = built[u] /\ grant'[u] = grant[u] /\ agreed'[u] = agreed[u] /\ text'[u] = text[u]

\* A step of the loop that has task t.
Step(t) == Child(t) \/ Build(t) \/ Grant(t) \/ Install(t)

\* A task's step touches nothing that another has at hand, but for the file system.
LEMMA StepOwn ==
  ASSUME TypeOK, NEW t \in Tasks, Step(t), NEW u \in Tasks, u # t
  PROVE  Same(u)
<1> USE DEF Same, TypeOK, Goto, End, Report, edits, files, cache, child, question, bounds
<1>1. CASE Child(t)
  BY <1>1 DEF Child, Trigger, Finalize, FinalizeFails, ForgeBuild, ForgeWrite
<1>2. CASE Build(t)
  BY <1>2 DEF Build, Copy, CopyFails, List, Unlist, ReadMembers, WriteMembers, BuildScratch, Wipe
<1>3. CASE Grant(t)
  BY <1>3 DEF Grant, Park, Yes, No, Overwrite, Approve, AskAgain, NothingStaged
<1>4. CASE Install(t)
  BY <1>4 DEF Install, Check, CheckFails, Move, Register, Discard, ReadMembers, WriteMembers, BuildRelease,
       ReleaseFails, Verify, Delete
<1> QED BY <1>1, <1>2, <1>3, <1>4 DEF Step

-----------------------------------------------------------------------------
\* An edit of Cargo.toml changes the members, its own copy and its place; unless a write was
\* lost, the members are those it means to write.
LEMMA Reads ==
  ASSUME TypeOK, NEW t \in Tasks, NEW from, NEW to, ReadMembers(t, from, to)
  PROVE  /\ pc[t] = from /\ Goto(t, to) /\ members' = members /\ lost' = lost /\ odd' = odd
         /\ text' \in [Tasks -> SUBSET Members]
         /\ UNCHANGED <<files, cache, child, question, bounds>>
  BY DEF TypeOK, ReadMembers

\* A write of Cargo.toml keeps every line that no other edit changed since it was read.
LEMMA Writes ==
  ASSUME TypeOK, NEW t \in Tasks, NEW from, NEW to, NEW new \in SUBSET Members,
         WriteMembers(t, from, new, to)
  PROVE  /\ pc[t] = from /\ Goto(t, to)
         /\ members' \subseteq Members /\ odd \subseteq odd' /\ odd' \subseteq Anomalies
         /\ lost \subseteq lost' /\ lost' \subseteq Members
         /\ \A m : m \notin lost' => (m \in members <=> m \in text[t]) /\ (m \in members' <=> m \in new)
         /\ text' \in [Tasks -> SUBSET Members]
         /\ UNCHANGED <<files, cache, child, question, bounds>>
<1>1. odd' \subseteq Anomalies /\ odd \subseteq odd'
  BY DEF TypeOK, WriteMembers, Clashes, Anomalies
<1>2. lost' = lost \cup (members \ text[t]) \cup (text[t] \ members) /\ text[t] \subseteq Members /\ members \subseteq Members
  BY DEF WriteMembers, TypeOK
<1>3. members' = new \/ (new = text[t] /\ members' = members)
  BY DEF WriteMembers
<1> QED BY <1>1, <1>2, <1>3 DEF TypeOK, WriteMembers

\* Every place of a task is one of the named ones, and every variable has its type.
LEMMA TypeStep ==
  ASSUME BasicInv, [Next]_vars
  PROVE  TypeOK'
<1> USE ForgeAssumption
    DEF BasicInv, TypeOK, Goto, End, Report, edits, files, cache, child, question, bounds, PCs, Building, Installing, Discarding
<1>1. ASSUME NEW t \in Tasks, Child(t) PROVE TypeOK'
  <2>1. ASSUME NEW s \in Skills, NEW c \in Contents, ForgeWrite(t, s, c) PROVE TypeOK'
    BY <2>1 DEF ForgeWrite, Races, Anomalies
  <2>2. ASSUME NEW s \in Skills, ForgeBuild(t, s) PROVE TypeOK'
    BY <2>2 DEF ForgeBuild
  <2>3. CASE Trigger(t)
    BY <2>3 DEF Trigger
  <2>4. CASE Finalize(t)
    BY <2>4 DEF Finalize
  <2>5. CASE FinalizeFails(t)
    BY <2>5 DEF FinalizeFails
  <2> QED BY <1>1, <2>1, <2>2, <2>3, <2>4, <2>5 DEF Child
<1>2. ASSUME NEW t \in Tasks, Build(t) PROVE TypeOK'
  <2>1. CASE Copy(t)
    BY <2>1, CrateOf DEF Copy, Clashes, Anomalies
  <2>2. CASE CopyFails(t)
    BY <2>2 DEF CopyFails
  <2>3. CASE List(t)
    <3>1. text[t] \cup {InScratch(Crate(skill[t]))} \in SUBSET Members
      BY <2>3, CrateOf DEF List, ReadMembers, WriteMembers
    <3> QED BY <2>3, <3>1, Reads, Writes DEF List
  <2>4. CASE Unlist(t)
    <3>1. text[t] \ {InScratch(Crate(skill[t]))} \in SUBSET Members
      OBVIOUS
    <3> QED BY <2>4, <3>1, Reads, Writes DEF Unlist
  <2>5. CASE BuildScratch(t)
    <3>1. Crate(skill[t]) \in Crates
      BY <2>5, CrateOf DEF BuildScratch
    <3>2. built' \in [Tasks -> Contents \cup {None}] /\ wasm' \in [Crates -> Contents \cup {None}]
      <4>1. ASSUME NEW m \in members, CargoBuilds(Crate(skill[t]), m)
            PROVE  Content(m) \in Contents /\ wasm' \in [Crates -> Contents \cup {None}]
        BY <3>1, <4>1, BuildIs
      <4> QED BY <2>5, <4>1 DEF BuildScratch
    <3> QED BY <2>5, <3>1, <3>2 DEF BuildScratch
  <2>6. CASE Wipe(t)
    BY <2>6, CrateOf DEF Wipe
  <2> QED BY <1>2, <2>1, <2>2, <2>3, <2>4, <2>5, <2>6 DEF Build
<1>3. ASSUME NEW t \in Tasks, Grant(t) PROVE TypeOK'
  <2>1. CASE Park(t)
    BY <2>1 DEF Park, Grants, Posed
  <2>2. CASE Yes(t) \/ No(t)
    BY SMTT(30), <2>2 DEF Yes, No, Grants
  <2>3. CASE Overwrite(t) \/ Approve(t) \/ NothingStaged(t)
    BY SMTT(30), <2>3 DEF Overwrite, Approve, NothingStaged
  <2>4. CASE AskAgain(t)
    <3>1. grant[t] \in Grants /\ staging[grant[t].skill] \in Contents
      BY <2>4 DEF AskAgain, Grants
    <3>2. Man[staging[grant[t].skill]] \in Manifests
      BY <3>1
    <3>3. [skill |-> grant[t].skill, man |-> Man[staging[grant[t].skill]], ok |-> grant[t].ok] \in Grants
      BY <3>1, <3>2 DEF Grants
    <3> QED BY <2>4, <3>3 DEF AskAgain
  <2> QED BY <1>3, <2>1, <2>2, <2>3, <2>4 DEF Grant
<1>4. ASSUME NEW t \in Tasks, Install(t) PROVE TypeOK'
  <2>1. CASE Check(t) \/ CheckFails(t) \/ ReleaseFails(t)
    <3>1. CASE Check(t)
      BY <3>1 DEF Check
    <3>2. CASE CheckFails(t)
      BY SMTT(30), <3>2 DEF CheckFails
    <3>3. CASE ReleaseFails(t)
      BY SMTT(30), <3>3 DEF ReleaseFails
    <3> QED BY <2>1, <3>1, <3>2, <3>3
  <2>2. CASE Move(t)
    <3>1. Races(t, skill[t]) \subseteq Anomalies
      BY DEF Races, Anomalies
    <3>2. CASE staging[skill[t]] # None
      BY SMTT(30), <2>2, <3>1, <3>2 DEF Move
    <3>3. CASE staging[skill[t]] = None
      BY SMTT(30), <2>2, <3>3 DEF Move
    <3> QED BY <3>2, <3>3
  <2>3. CASE Register(t)
    <3>1. text[t] \cup {InSkills(skill[t])} \in SUBSET Members
      BY <2>3, CrateOf DEF Register, ReadMembers, WriteMembers
    <3> QED BY <2>3, <3>1, Reads, Writes DEF Register
  <2>4. CASE BuildRelease(t)
    <3>1. Crate(skill[t]) \in Crates
      BY <2>4, CrateOf DEF BuildRelease
    <3>2. wasm' \in [Crates -> Contents \cup {None}]
      BY <2>4, <3>1, BuildIs DEF BuildRelease
    <3> QED BY <2>4, <3>1, <3>2 DEF BuildRelease
  <2>5. CASE Verify(t)
    <3>1. skill[t] \in Skills /\ skill[t] \in skillsDir
      BY <2>5 DEF Verify, Placed, Placing
    <3>2. live' \in {live, live \cup {skill[t]}} /\ modules' = [modules EXCEPT ![skill[t]] = None]
      BY <2>5 DEF Verify
    <3>3. live' \subseteq Skills /\ \A s \in live' : s \in skillsDir
      BY <3>1, <3>2
    <3>4. modules' \in [Skills -> Contents \cup {None}]
      BY <3>1, <3>2
    <3>5. odd' \subseteq Anomalies
      BY <2>5 DEF Verify, Anomalies
    <3>6. End(t) /\ UNCHANGED <<files, loading, members, edits, grant, bounds>>
      BY <2>5 DEF Verify
    <3>7. /\ pc' = [pc EXCEPT ![t] = "idle"] /\ skill' = [skill EXCEPT ![t] = None] /\ grant' = grant
          /\ skillsDir' = skillsDir
      BY <3>6
    <3>8. /\ \A u \in Tasks : pc'[u] \notin {"idle", "child"} => skill'[u] \in Skills
          /\ \A u \in Tasks : pc'[u] \in {"parked", "approve"} \cup Discarding => grant'[u] \in Grants
          /\ \A s \in live' : s \in skillsDir'
      BY <3>3, <3>7
    <3>9. /\ pc' \in [Tasks -> PCs] /\ skill' \in [Tasks -> Skills \cup {None}]
          /\ written' \in [Tasks -> SUBSET Skills] /\ then' \in [Tasks -> {"child", "ask"}]
          /\ noted' \in [Tasks -> Contents \cup {None}] /\ built' \in [Tasks -> Contents \cup {None}]
          /\ agreed' \in [Tasks -> Manifests \cup {None}]
      BY <3>6
    <3> QED BY <3>3, <3>4, <3>5, <3>6, <3>8, <3>9
  <2>6. CASE Discard(t)
    <3>1. text[t] \ {InScratch(Crate(skill[t]))} \in SUBSET Members
      OBVIOUS
    <3> QED BY <2>6, <3>1, Reads, Writes DEF Discard
  <2>7. CASE Delete(t)
    BY SMTT(30), <2>7, CrateOf DEF Delete, Races, Clashes, Anomalies
  <2> QED BY <1>4, <2>1, <2>2, <2>3, <2>4, <2>5, <2>6, <2>7 DEF Install
<1>5. CASE Crash
  BY <1>5 DEF Crash, Posed, Anomalies
<1>6. CASE Insert
  BY <1>6 DEF Insert
<1>7. ASSUME NEW s \in Skills, Load(s) PROVE TypeOK'
  BY <1>7, CrateOf DEF Load
<1>8. CASE UNCHANGED vars
  BY <1>8 DEF vars
<1> QED BY <1>1, <1>2, <1>3, <1>4, <1>5, <1>6, <1>7, <1>8 DEF Next

\* A task's own step leaves its question in order.
LEMMA OwnPosed ==
  ASSUME BasicInv, NEW t \in Tasks, Step(t)
  PROVE  Posed(t)'
<1> USE ForgeAssumption
    DEF BasicInv, TypeOK, Posed, Goto, End, Report, edits, files, cache, child, question, bounds, PCs, Building, Installing, Discarding
<1>1. CASE Child(t)
  <2>1. CASE Trigger(t) \/ \E s \in Skills, c \in Contents : ForgeWrite(t, s, c)
    <3>1. CASE Trigger(t)
      BY <3>1 DEF Trigger
    <3>2. ASSUME NEW s \in Skills, NEW c \in Contents, ForgeWrite(t, s, c) PROVE Posed(t)'
      BY <3>2 DEF ForgeWrite
    <3> QED BY <2>1, <3>1, <3>2
  <2>2. CASE \E s \in Skills : ForgeBuild(t, s)
    BY <2>2 DEF ForgeBuild
  <2>3. CASE Finalize(t)
    BY <2>3 DEF Finalize
  <2>4. CASE FinalizeFails(t)
    BY <2>4 DEF FinalizeFails
  <2> QED BY <1>1, <2>1, <2>2, <2>3, <2>4 DEF Child
<1>2. CASE Build(t)
  <2>1. CASE List(t) \/ Unlist(t)
    BY <2>1, Reads DEF List, Unlist, ReadMembers, WriteMembers
  <2>2. CASE Copy(t) \/ CopyFails(t) \/ BuildScratch(t) \/ Wipe(t)
    BY <2>2 DEF Copy, CopyFails, BuildScratch, Wipe
  <2> QED BY <1>2, <2>1, <2>2 DEF Build
<1>3. CASE Grant(t)
  <2>1. CASE Park(t) \/ Yes(t) \/ No(t)
    BY <2>1 DEF Park, Yes, No, Grants
  <2>2. CASE Overwrite(t) \/ Approve(t) \/ NothingStaged(t)
    BY <2>2 DEF Overwrite, Approve, NothingStaged
  <2>3. CASE AskAgain(t)
    BY <2>3 DEF AskAgain, Grants
  <2> QED BY <1>3, <2>1, <2>2, <2>3 DEF Grant
<1>4. CASE Install(t)
  <2>1. CASE Register(t) \/ Discard(t)
    BY <2>1 DEF Register, Discard, ReadMembers, WriteMembers
  <2>2. CASE Check(t) \/ CheckFails(t) \/ Move(t) \/ BuildRelease(t) \/ ReleaseFails(t) \/ Verify(t) \/ Delete(t)
    BY <2>2 DEF Check, CheckFails, Move, BuildRelease, ReleaseFails, Verify, Delete
  <2> QED BY <1>4, <2>1, <2>2 DEF Install
<1> QED BY <1>1, <1>2, <1>3, <1>4 DEF Step

\* Installed content appears by a move of staged content, and never goes.
LEMMA StepFiles ==
  ASSUME BasicInv, NEW t \in Tasks, Step(t)
  PROVE  /\ skillsDir \subseteq skillsDir'
         /\ \/ installed' = installed
            \/ /\ Move(t) /\ pc[t] = "move" /\ skill[t] \in Skills /\ skill[t] \in skillsDir'
               /\ staging[skill[t]] \in Contents
               /\ installed' = [installed EXCEPT ![skill[t]] = staging[skill[t]]]
         /\ pc'[t] \in Placing => skill'[t] = skill[t] /\ installed'[skill[t]] # None
<1>1. CASE ~Move(t)
  <2> USE DEF files, cache, child, BasicInv, Placed, TypeOK, Goto, End, Report, Placing
  <2>1. CASE Child(t)
    BY <2>1 DEF Child, Trigger, Finalize, FinalizeFails, ForgeBuild, ForgeWrite
  <2>2. CASE Build(t)
    BY <2>2 DEF Build, Copy, CopyFails, List, Unlist, ReadMembers, WriteMembers, BuildScratch, Wipe
  <2>3. CASE Grant(t)
    BY <2>3 DEF Grant, Park, Yes, No, Overwrite, Approve, AskAgain, NothingStaged
  <2>4. CASE Install(t)
    BY <1>1, <2>4 DEF Install, Check, CheckFails, Register, Discard, ReadMembers, WriteMembers, BuildRelease,
      ReleaseFails, Verify, Delete
  <2> QED BY <2>1, <2>2, <2>3, <2>4 DEF Step
<1>2. CASE Move(t)
  <2>1. pc[t] = "move" /\ skill[t] \in Skills /\ skillsDir' = skillsDir \cup {skill[t]}
    BY <1>2 DEF Move, BasicInv, TypeOK
  <2>2. CASE staging[skill[t]] = None
    BY <1>2, <2>1, <2>2 DEF Move, BasicInv, TypeOK, End, Goto, Placing
  <2>3. CASE staging[skill[t]] # None
    BY <1>2, <2>1, <2>3, ForgeAssumption DEF Move, BasicInv, TypeOK, child
  <2> QED BY <2>2, <2>3
<1> QED BY <1>1, <1>2

\* The invariant of the types and places is inductive.
LEMMA BasicStep == BasicInv /\ [Next]_vars => BasicInv'
<1> SUFFICES ASSUME BasicInv, [Next]_vars PROVE BasicInv'
  OBVIOUS
<1>1. TypeOK'
  BY TypeStep
<1>2. ASSUME NEW t \in Tasks, Step(t) PROVE Placed' /\ \A u \in Tasks : Posed(u)'
  <2>1. \A u \in Tasks : u # t => Same(u)
    BY <1>2, StepOwn DEF BasicInv
  <2>2. \A u \in Tasks : Posed(u)'
    BY <1>2, <2>1, OwnPosed DEF Same, Posed, BasicInv
  <2>3. \A s \in Skills : installed[s] # None => installed'[s] # None
    BY <1>2, StepFiles, ForgeAssumption DEF BasicInv, TypeOK
  <2>4. \A s \in Skills : installed'[s] # None => s \in skillsDir'
    BY <1>2, StepFiles DEF BasicInv, Placed, TypeOK
  <2>5. \A u \in Tasks : pc'[u] \in Placing => installed'[skill'[u]] # None
    <3> SUFFICES ASSUME NEW u \in Tasks, pc'[u] \in Placing PROVE installed'[skill'[u]] # None
      OBVIOUS
    <3>1. CASE u = t
      BY <1>2, <3>1, StepFiles
    <3>2. CASE u # t
      BY <2>1, <2>3, <3>2 DEF Same, BasicInv, Placed, TypeOK, Placing
    <3> QED BY <3>1, <3>2
  <2> QED BY <2>2, <2>4, <2>5 DEF Placed
<1>3. CASE Crash
  <2>1. ASSUME NEW t \in Tasks
        PROVE  /\ pc'[t] = IF grant[t] = None THEN "idle" ELSE "parked"
               /\ skill'[t] = IF grant[t] = None THEN None ELSE skill[t]
               /\ grant'[t] = grant[t]
    BY <1>3 DEF Crash, question
  <2>2. \A t \in Tasks : Posed(t)'
    BY <2>1 DEF BasicInv, Posed, Building, Discarding
  <2>3. Placed'
    BY <1>3, <2>1 DEF Crash, files, BasicInv, Placed, Placing
  <2> QED BY <1>1, <2>2, <2>3 DEF BasicInv
<1>4. CASE Insert \/ (\E s \in Skills : Load(s)) \/ UNCHANGED vars
  <2>1. UNCHANGED <<files, pc, child, question>>
    BY <1>4 DEF Insert, Load, vars
  <2> QED BY <1>1, <2>1 DEF files, child, question, BasicInv, Placed, Posed
<1> QED BY <1>1, <1>2, <1>3, <1>4 DEF Next, Step, BasicInv

\* Nothing is staged or parked at the start.
LEMMA BasicInit == Init => BasicInv
<1> SUFFICES ASSUME Init PROVE BasicInv
  OBVIOUS
<1>1. TypeOK
  BY ForgeAssumption DEF Init, TypeOK, PCs, Discarding
<1> QED BY <1>1 DEF Init, BasicInv, Placed, Posed, Placing, Building, Discarding

\* Every place of the forge holds what it may hold: a question in hand has its manifest, a
\* parked grant its skill, and a live skill its directory.
THEOREM TypeCorrect == Spec => []TypeOK
<1>1. BasicInv => TypeOK
  BY DEF BasicInv
<1> QED BY <1>1, BasicInit, BasicStep, PTL DEF Spec

-----------------------------------------------------------------------------
(***************************************************************************)
(* What a "yes" installs.                                                  *)
(***************************************************************************)

\* A task that changes staging, or takes a place in skills/, names whom it races.
LEMMA StepRaces ==
  ASSUME BasicInv, NEW t \in Tasks, Step(t)
  PROVE  /\ odd \subseteq odd'
         /\ \A s \in Skills : staging'[s] # staging[s] => Races(t, s) \subseteq odd'
         /\ \A s \in skillsDir' \ skillsDir :
              /\ pc[t] = "move" /\ s = skill[t]
              /\ staging[s] # None => Races(t, s) \subseteq odd'
<1> USE DEF BasicInv, TypeOK, files, child
<1>1. CASE Child(t)
  BY <1>1 DEF Child, Trigger, Finalize, FinalizeFails, ForgeBuild, ForgeWrite
<1>2. CASE Build(t)
  BY <1>2 DEF Build, Copy, CopyFails, List, Unlist, ReadMembers, WriteMembers, BuildScratch, Wipe
<1>3. CASE Grant(t)
  BY <1>3 DEF Grant, Park, Yes, No, Overwrite, Approve, AskAgain, NothingStaged
<1>4. CASE Install(t)
  <2>1. CASE Move(t)
    BY <2>1 DEF Move
  <2>2. CASE Delete(t)
    BY <2>2 DEF Delete
  <2>3. CASE Check(t) \/ CheckFails(t) \/ Register(t) \/ Discard(t) \/ BuildRelease(t) \/ ReleaseFails(t) \/ Verify(t)
    BY <2>3 DEF Check, CheckFails, Register, Discard, ReadMembers, WriteMembers, BuildRelease, ReleaseFails, Verify
  <2> QED BY <1>4, <2>1, <2>2, <2>3 DEF Install
<1> QED BY <1>1, <1>2, <1>3, <1>4 DEF Step

\* approve_skill_grant and the test of the destination make the install fresh.
LEMMA OwnFresh ==
  ASSUME BasicInv, NEW t \in Tasks, Step(t), Fresh(t)
  PROVE  Fresh(t)'
<1> USE DEF BasicInv, TypeOK, Posed, Fresh, Goto, End, Report, edits, files, cache, child, question, bounds, PCs, Building, Discarding
<1>1. CASE Approve(t)
  BY <1>1 DEF Approve
<1>2. CASE Check(t)
  BY <1>2 DEF Check, Installable
<1>3. CASE ~Approve(t) /\ ~Check(t)
  <2>1. pc'[t] \notin {"check", "move"}
    <3>1. CASE Child(t)
      <4>1. CASE Trigger(t) \/ \E s \in Skills, c \in Contents : ForgeWrite(t, s, c)
        BY <4>1 DEF Trigger, ForgeWrite
      <4>2. CASE \E s \in Skills : ForgeBuild(t, s)
        BY <4>2 DEF ForgeBuild
      <4>3. CASE Finalize(t)
        BY <4>3 DEF Finalize
      <4>4. CASE FinalizeFails(t)
        BY <4>4 DEF FinalizeFails
      <4> QED BY <3>1, <4>1, <4>2, <4>3, <4>4 DEF Child
    <3>2. CASE Build(t)
      BY <3>2 DEF Build, Copy, CopyFails, List, Unlist, ReadMembers, WriteMembers, BuildScratch, Wipe
    <3>3. CASE Grant(t)
      BY <1>3, <3>3 DEF Grant, Park, Yes, No, Overwrite, AskAgain, NothingStaged
    <3>4. CASE Install(t)
      BY <1>3, <3>4 DEF Install, CheckFails, Move, Register, Discard, ReadMembers, WriteMembers, BuildRelease,
           ReleaseFails, Verify, Delete
    <3> QED BY <3>1, <3>2, <3>3, <3>4 DEF Step
  <2> QED BY <2>1
<1> QED BY <1>1, <1>2, <1>3

\* InstallInv is inductive.
LEMMA InstallStep == InstallInv /\ [Next]_vars => InstallInv'
<1> SUFFICES ASSUME InstallInv, [Next]_vars PROVE InstallInv'
  OBVIOUS
<1>1. BasicInv /\ BasicInv'
  BY BasicStep DEF InstallInv
<1>2. ASSUME NEW t \in Tasks, Step(t), "raced" \notin odd', NEW u \in Tasks PROVE Fresh(u)'
  <2>1. \A v \in Tasks : Fresh(v)
    BY <1>1, <1>2, StepRaces DEF InstallInv
  <2>2. CASE u = t
    BY <1>1, <1>2, <2>1, <2>2, OwnFresh
  <2>3. CASE u # t
    <3>1. Same(u)
      BY <1>1, <1>2, <2>3, StepOwn DEF BasicInv
    <3>2. CASE pc[u] \notin {"check", "move"}
      BY <3>1, <3>2 DEF Same, Fresh
    <3>3. CASE pc[u] \in {"check", "move"}
      <4>1. skill[u] \in Skills
        BY <1>1, <3>3 DEF BasicInv, TypeOK
      <4>2. "raced" \in Races(t, skill[u])
        BY <2>3, <3>3 DEF Races
      <4>3. staging'[skill[u]] = staging[skill[u]]
        BY <1>1, <1>2, <4>1, <4>2, StepRaces
      <4>4. skill[u] \notin skillsDir' \ skillsDir
        <5>1. ASSUME skill[u] \in skillsDir' \ skillsDir PROVE FALSE
          BY <1>1, <1>2, <2>1, <4>2, <5>1, StepRaces DEF Fresh
        <5> QED BY <5>1
      <4> QED BY <2>1, <3>1, <4>3, <4>4 DEF Same, Fresh
    <3> QED BY <3>2, <3>3
  <2> QED BY <2>2, <2>3
<1>3. CASE Crash
  BY <1>1, <1>3 DEF Crash, InstallInv, Fresh
<1>4. CASE Insert \/ (\E s \in Skills : Load(s)) \/ UNCHANGED vars
  <2>1. UNCHANGED <<files, pc, child, question, odd>>
    BY <1>4 DEF Insert, Load, vars
  <2> QED BY <1>1, <2>1 DEF files, child, question, InstallInv, Fresh
<1> QED BY <1>1, <1>2, <1>3, <1>4 DEF Next, Step, InstallInv

\* No task is past an approval at the start.
LEMMA InstallInit == Init => InstallInv
  BY BasicInit DEF Init, InstallInv, Fresh

\* The capabilities that a "yes" grants are those its question showed, for any tasks that
\* rewrite the shared staging directory at any time but between the check and the rename.
THEOREM InstallsTheAgreed == Spec => InstallsWhatWasAgreed
<1>1. InstallInv /\ [Next]_vars =>
        [\A t \in Tasks : pc[t] = "move" /\ pc'[t] = "register" =>
           Man[installed'[skill[t]]] = agreed[t] \/ "raced" \in odd]_vars
  <2> SUFFICES ASSUME InstallInv, Next, NEW t \in Tasks, pc[t] = "move", pc'[t] = "register", "raced" \notin odd
               PROVE  Man[installed'[skill[t]]] = agreed[t]
    BY DEF InstallInv
  <2>1. BasicInv /\ Fresh(t)
    BY DEF InstallInv
  <2>2. ~Crash /\ ~Insert /\ ~\E s \in Skills : Load(s)
    BY DEF Crash, Insert, Load
  <2>3. ASSUME NEW u \in Tasks, Step(u) PROVE u = t
    BY <2>1, <2>3, StepOwn DEF Same, BasicInv
  <2>4. Step(t)
    BY <2>2, <2>3 DEF Next, Step
  <2>5. installed'[skill[t]] # None /\ (installed' = installed \/ installed'[skill[t]] = staging[skill[t]])
    BY <2>1, <2>4, StepFiles DEF BasicInv, TypeOK, Placing
  <2>6. installed[skill[t]] = None
    BY <2>1 DEF Fresh, BasicInv, Placed, TypeOK
  <2> QED BY <2>1, <2>5, <2>6 DEF Fresh
<1> QED BY <1>1, InstallInit, InstallStep, PTL DEF Spec, InstallsWhatWasAgreed

\* An installed directory keeps its content for good, over failed builds, denied grants and
\* crashes.
THEOREM NothingOverwritten == Spec => NeverOverwrites
<1>1. InstallInv /\ [Next]_vars =>
        [\A s \in Skills : installed[s] # None => installed'[s] = installed[s] \/ "raced" \in odd]_vars
  <2> SUFFICES ASSUME InstallInv, Next, NEW s \in Skills, installed[s] # None, "raced" \notin odd
               PROVE  installed'[s] = installed[s]
    OBVIOUS
  <2>1. BasicInv
    BY DEF InstallInv
  <2>2. ASSUME NEW t \in Tasks, Step(t) PROVE installed'[s] = installed[s]
    BY <2>1, <2>2, StepFiles DEF InstallInv, Fresh, BasicInv, Placed, TypeOK
  <2>3. CASE Crash \/ Insert \/ \E r \in Skills : Load(r)
    BY <2>3 DEF Crash, Insert, Load, files
  <2> QED BY <2>2, <2>3 DEF Next, Step
<1> QED BY <1>1, InstallInit, InstallStep, PTL DEF Spec, NeverOverwrites

-----------------------------------------------------------------------------
(***************************************************************************)
(* What Cargo.toml lists.                                                  *)
(***************************************************************************)

\* Which skills share a crate name is given.
LEMMA NamesKept == ASSUME [Next]_vars PROVE collide' = collide
<1> USE DEF bounds
<1>1. ASSUME NEW t \in Tasks, Child(t) PROVE collide' = collide
  BY <1>1 DEF Child, Trigger, Finalize, FinalizeFails, ForgeBuild, ForgeWrite
<1>2. ASSUME NEW t \in Tasks, Build(t) PROVE collide' = collide
  BY <1>2 DEF Build, Copy, CopyFails, List, Unlist, ReadMembers, WriteMembers, BuildScratch, Wipe
<1>3. ASSUME NEW t \in Tasks, Grant(t) PROVE collide' = collide
  BY <1>3 DEF Grant, Park, Yes, No, Overwrite, Approve, AskAgain, NothingStaged
<1>4. ASSUME NEW t \in Tasks, Install(t) PROVE collide' = collide
  BY <1>4 DEF Install, Check, CheckFails, Move, Register, Discard, ReadMembers, WriteMembers, BuildRelease,
       ReleaseFails, Verify, Delete
<1>5. CASE Crash \/ Insert \/ (\E s \in Skills : Load(s)) \/ UNCHANGED vars
  BY <1>5 DEF Crash, Insert, Load, vars
<1> QED BY <1>1, <1>2, <1>3, <1>4, <1>5 DEF Next

\* The steps of a task by what they do to the lines of Cargo.toml whose edits are not lost.
Enlists(t, m) ==
  /\ pc'[t] \in {"cargo", "release"}
  /\ \A n : n \notin lost' => (n \in members' <=> n \in members \/ n = m)

\* A build that ends takes its scratch crate out,
Delists(t) ==
  /\ pc'[t] \in {"wipe", "delete"}
  /\ \A n : n \notin lost' => (n \in members' <=> n \in members /\ n # InScratch(Crate(skill[t])))

\* and every other step leaves Cargo.toml alone.
Spares(t) ==
  /\ members' = members /\ lost' = lost
  /\ pc[t] \notin {"listed", "unlisted", "delisted", "registered"}
  /\ pc[t] \in {"cargo", "unlist"} => pc'[t] \in {"unlist", "unlisted"} /\ skill'[t] = skill[t]
  /\ pc[t] = "register" => pc'[t] = "registered" /\ skill'[t] = skill[t]
  /\ pc'[t] \notin {"cargo", "release"}
  /\ pc'[t] \in {"unlist", "unlisted"} => pc[t] \in {"cargo", "unlist"}
  /\ pc'[t] = "verify" => pc[t] = "release" /\ skill'[t] = skill[t]

\* There are no other steps.
LEMMA StepEdits ==
  ASSUME BasicInv, NEW t \in Tasks, Step(t)
  PROVE  /\ lost \subseteq lost'
         /\ \/ pc[t] = "listed" /\ skill'[t] = skill[t] /\ Enlists(t, InScratch(Crate(skill[t]))) /\ pc'[t] = "cargo"
            \/ pc[t] = "registered" /\ skill'[t] = skill[t] /\ Enlists(t, InSkills(skill[t])) /\ pc'[t] = "release"
            \/ pc[t] \in {"unlisted", "delisted"} /\ skill'[t] = skill[t] /\ Delists(t)
            \/ Spares(t)
<1> USE DEF BasicInv, TypeOK, Goto, End, Report, edits, files, cache, child, Enlists, Delists, Spares, Building, Discarding, Installing
<1>1. CASE Child(t)
  BY <1>1 DEF Child, Trigger, Finalize, FinalizeFails, ForgeBuild, ForgeWrite
<1>2. CASE Build(t)
  <2>1. CASE List(t) \/ Unlist(t)
    BY <2>1 DEF List, Unlist, ReadMembers, WriteMembers
  <2>2. CASE Copy(t) \/ CopyFails(t) \/ BuildScratch(t) \/ Wipe(t)
    BY <2>2 DEF Copy, CopyFails, BuildScratch, Wipe
  <2> QED BY <1>2, <2>1, <2>2 DEF Build
<1>3. CASE Grant(t)
  BY <1>3 DEF Grant, Park, Yes, No, Overwrite, Approve, AskAgain, NothingStaged
<1>4. CASE Install(t)
  <2>1. CASE Register(t) \/ Discard(t)
    BY <2>1 DEF Register, Discard, ReadMembers, WriteMembers
  <2>2. CASE Check(t) \/ CheckFails(t) \/ Move(t) \/ BuildRelease(t) \/ ReleaseFails(t) \/ Verify(t) \/ Delete(t)
    BY <2>2 DEF Check, CheckFails, Move, BuildRelease, ReleaseFails, Verify, Delete
  <2> QED BY <1>4, <2>1, <2>2 DEF Install
<1> QED BY <1>1, <1>2, <1>3, <1>4 DEF Step

\* A directory that is new in skills/ is in the hand of who moved it.
LEMMA StepInstalls ==
  ASSUME BasicInv, NEW t \in Tasks, Step(t), NEW s \in Skills, installed'[s] # installed[s]
  PROVE  /\ s = skill[t] /\ skill'[t] = s /\ pc[t] = "move" /\ pc'[t] = "register"
         /\ installed[s] = None \/ s \in skillsDir
<1>1. Move(t) /\ s = skill[t] /\ pc[t] = "move" /\ staging[skill[t]] # None
  BY StepFiles, ForgeAssumption DEF BasicInv, TypeOK
<1> QED BY <1>1 DEF Move, Goto, child, BasicInv, Placed, TypeOK

\* Listed stays, for every line no edit of which is lost.
LEMMA ListedStep ==
  ASSUME BasicInv, Listed, NEW t \in Tasks, Step(t)
  PROVE  Listed'
<1> USE DEF BasicInv, TypeOK
<1>1. \A u \in Tasks : u # t => pc'[u] = pc[u] /\ skill'[u] = skill[u]
  BY StepOwn DEF Same
<1>2. pc[t] \in {"listed", "registered", "unlisted", "delisted", "cargo", "unlist", "register"} => skill[t] \in Skills
  BY DEF Building, Installing, Discarding
<1>3. \A s \in Skills : installed[s] # None => installed'[s] # None
  BY StepFiles, ForgeAssumption
<1>4. \A k \in Crates : InScratch(k) \in members' \ lost' =>
        \E u \in Tasks : pc'[u] \in {"cargo", "unlist", "unlisted"} /\ Crate(skill'[u]) = k
  <2> SUFFICES ASSUME NEW k \in Crates, InScratch(k) \in members' \ lost'
               PROVE  \E u \in Tasks : pc'[u] \in {"cargo", "unlist", "unlisted"} /\ Crate(skill'[u]) = k
    OBVIOUS
  <2>2. CASE InScratch(k) \notin members
    BY <2>2, StepEdits, MemberKinds DEF Enlists, Delists, Spares
  <2>3. CASE InScratch(k) \in members
    <3>1. PICK u \in Tasks : pc[u] \in {"cargo", "unlist", "unlisted"} /\ Crate(skill[u]) = k
      BY <2>3, StepEdits DEF Listed
    <3>2. CASE u # t
      BY <1>1, <3>1, <3>2
    <3>3. CASE u = t
      BY <3>1, <3>3, StepEdits DEF Enlists, Delists, Spares
    <3> QED BY <3>2, <3>3
  <2> QED BY <2>2, <2>3
<1>5. \A s \in Skills : InSkills(s) \in members' \ lost' => installed'[s] # None
  BY <1>2, <1>3, StepEdits, MemberKinds DEF Listed, Enlists, Delists, Spares, Placed, Placing
<1>6. \A s \in Skills : installed'[s] # None =>
        \/ InSkills(s) \in members' \cup lost'
        \/ \E u \in Tasks : pc'[u] \in {"register", "registered"} /\ skill'[u] = s
  <2> SUFFICES ASSUME NEW s \in Skills, installed'[s] # None, InSkills(s) \notin members' \cup lost'
               PROVE  \E u \in Tasks : pc'[u] \in {"register", "registered"} /\ skill'[u] = s
    OBVIOUS
  <2>1. CASE installed[s] = None
    BY <2>1, StepInstalls
  <2>2. CASE installed[s] # None
    <3>1. InSkills(s) \notin members \cup lost
      BY StepEdits, MemberKinds DEF Enlists, Delists, Spares
    <3>2. PICK u \in Tasks : pc[u] \in {"register", "registered"} /\ skill[u] = s
      BY <2>2, <3>1 DEF Listed
    <3>3. CASE u # t
      BY <1>1, <3>2, <3>3
    <3>4. CASE u = t
      BY <3>2, <3>4, StepEdits DEF Enlists, Delists, Spares
    <3> QED BY <3>3, <3>4
  <2> QED BY <2>1, <2>2
<1>7. collide' = collide
  BY NamesKept DEF Step, Next
<1>8. \A u \in Tasks : Crate(skill[u])' = Crate(skill'[u])
  BY <1>7 DEF Crate
<1> QED BY <1>4, <1>5, <1>6, <1>8 DEF Listed, InScratch, InSkills

\* Edits of Cargo.toml keep the lines no other edit spoils in step with
\* the directories.
LEMMA CargoStep == CargoInv /\ [Next]_vars => CargoInv'
<1> SUFFICES ASSUME CargoInv, [Next]_vars, "crash" \notin odd' PROVE Listed'
  BY BasicStep DEF CargoInv
<1>1. BasicInv
  BY DEF CargoInv
<1>2. ASSUME NEW t \in Tasks, Step(t) PROVE Listed'
  <2>1. odd \subseteq odd'
    BY <1>1, <1>2, StepRaces
  <2> QED BY <1>1, <1>2, <2>1, ListedStep DEF CargoInv
<1>3. ~Crash
  BY DEF Crash
<1>4. CASE Insert \/ (\E s \in Skills : Load(s)) \/ UNCHANGED vars
  <2>1. UNCHANGED <<installed, members, lost, pc, skill, collide, odd>>
    BY <1>4 DEF Insert, Load, vars, files, child, edits, bounds
  <2> QED BY <2>1 DEF CargoInv, Listed, Crate, InScratch, InSkills
<1> QED BY <1>2, <1>3, <1>4 DEF Next, Step

\* Cargo.toml is empty at the start.
LEMMA CargoInit == Init => CargoInv
  BY BasicInit DEF Init, CargoInv, Listed

\* Whatever failed or was denied, the workspace that cargo loads next is the installed
\* skills and nothing else, but for the lines that two overlapping edits spoilt; and cargo
\* loads it, unless a "yes" put a source in it that is no crate of its directory's name.
THEOREM CargoTomlInStep == Spec => []CargoTomlAgrees
<1>1. CargoInv => CargoTomlAgrees
  <2> SUFFICES ASSUME CargoInv, Quiet, "crash" \notin odd
               PROVE  /\ \A s \in Skills :
                           InSkills(s) \notin lost => (InSkills(s) \in members <=> installed[s] # None)
                      /\ \A k \in Crates : InScratch(k) \in members => InScratch(k) \in lost
                      /\ \/ Loads \/ lost # {} \/ collide
                         \/ \E s \in Skills : installed[s] # None /\ ~Proper(s)
    BY DEF CargoTomlAgrees
  <2>1. Listed /\ members \subseteq Members
    BY DEF CargoInv, BasicInv, TypeOK
  <2>2. \A k \in Crates : InScratch(k) \in members => InScratch(k) \in lost
    BY <2>1 DEF Quiet, Listed
  <2>3. \A s \in Skills : InSkills(s) \notin lost => (InSkills(s) \in members <=> installed[s] # None)
    BY <2>1 DEF Quiet, Listed
  <2>4. ASSUME lost = {}, ~collide, \A s \in Skills : installed[s] # None => Proper(s) PROVE Loads
    <3>1. \A m \in members : \E s \in Skills : m = InSkills(s) /\ installed[s] # None
      BY <2>1, <2>2, <2>3, <2>4 DEF Members
    <3>2. \A s \in Skills : installed[s] # None =>
            Package(InSkills(s)) = s /\ Exists(InSkills(s))
      BY <2>4, MemberKinds, ForgeAssumption DEF Proper, Package, Exists, Crate
    <3> QED BY <3>1, <3>2 DEF Loads
  <2> QED BY <2>2, <2>3, <2>4
<1> QED BY <1>1, CargoInit, CargoStep, PTL DEF Spec

-----------------------------------------------------------------------------
(***************************************************************************)
(* What the artifacts were compiled from.                                  *)
(***************************************************************************)

\* A task's step compiles at most the package of its crate's name, and makes live at most its own skill.
LEMMA StepCompiles ==
  ASSUME BasicInv, NEW t \in Tasks, Step(t)
  PROVE  /\ wasm' = wasm \/ (pc[t] \in {"cargo", "release"} /\ \E m \in members : CargoBuilds(Crate(skill[t]), m))
         /\ pc'[t] = "verify" => pc[t] = "release" /\ skill'[t] = skill[t] /\ \E m \in members : CargoBuilds(Crate(skill[t]), m)
         /\ loading' = loading
         /\ (live' = live /\ modules' = modules) \/ (pc[t] = "verify" /\ Verify(t))
<1> USE DEF BasicInv, TypeOK, Goto, End, Report, edits, files, cache, child, Building, Discarding, Installing
<1>1. CASE Child(t)
  BY <1>1 DEF Child, Trigger, Finalize, FinalizeFails, ForgeBuild, ForgeWrite
<1>2. CASE Build(t)
  <2>1. CASE List(t) \/ Unlist(t)
    BY <2>1 DEF List, Unlist, ReadMembers, WriteMembers
  <2>2. CASE Copy(t) \/ CopyFails(t) \/ BuildScratch(t) \/ Wipe(t)
    BY <2>2 DEF Copy, CopyFails, BuildScratch, Wipe
  <2> QED BY <1>2, <2>1, <2>2 DEF Build
<1>3. CASE Grant(t)
  BY <1>3 DEF Grant, Park, Yes, No, Overwrite, Approve, AskAgain, NothingStaged
<1>4. CASE Install(t)
  <2>1. CASE Register(t) \/ Discard(t)
    BY <2>1 DEF Register, Discard, ReadMembers, WriteMembers
  <2>2. CASE Check(t) \/ CheckFails(t) \/ Move(t) \/ BuildRelease(t) \/ ReleaseFails(t) \/ Delete(t)
    BY <2>2 DEF Check, CheckFails, Move, BuildRelease, ReleaseFails, Delete
  <2>3. CASE Verify(t)
    BY <2>3 DEF Verify
  <2> QED BY <1>4, <2>1, <2>2, <2>3 DEF Install
<1> QED BY <1>1, <1>2, <1>3, <1>4 DEF Step

\* While an installed skill is a member, a build replaces its artifact only by its own, or
\* by one that names itself so.
LEMMA ArtifactKept ==
  ASSUME BasicInv, NEW t \in Tasks, Step(t), NEW s \in Skills, InSkills(s) \in members, Proper(s),
         Passes(wasm[Crate(s)], s) \/ (pc'[t] = "verify" /\ s = skill[t])
  PROVE  Passes(wasm'[Crate(s)], s)
<1>1. Crate(s) \in Crates /\ wasm \in [Crates -> Contents \cup {None}]
  BY CrateOf DEF BasicInv, TypeOK
<1>2. ASSUME pc[t] \in {"cargo", "release"}, NEW m \in members, CargoBuilds(Crate(skill[t]), m)
      PROVE  Passes(wasm'[Crate(s)], s)
  <2>1. skill[t] \in Skills
    BY <1>2 DEF BasicInv, TypeOK
  <2>2. Crate(skill[t]) \in Crates
    BY <2>1, CrateOf
  <2>3. /\ wasm' = [wasm EXCEPT ![Artifact(m)] = Content(m)]
        /\ Artifact(m) = Crate(s) => Passes(Content(m), s)
        /\ Crate(s) = Crate(skill[t]) => Artifact(m) = Crate(s)
    BY <1>2, <2>2, BuildIs DEF BasicInv
  <2>4. CASE Artifact(m) = Crate(s)
    BY <1>1, <2>3, <2>4
  <2>5. CASE Artifact(m) # Crate(s)
    <3>1. wasm'[Crate(s)] = wasm[Crate(s)]
      BY <1>1, <2>3, <2>5
    <3> QED BY <2>3, <2>5, <3>1
  <2> QED BY <2>4, <2>5
<1>3. CASE ~\E m \in members : CargoBuilds(Crate(skill[t]), m)
  <2>1. wasm' = wasm /\ pc'[t] # "verify"
    BY <1>3, StepCompiles
  <2> QED BY <2>1
<1>4. CASE pc[t] \notin {"cargo", "release"}
  <2>1. wasm' = wasm /\ pc'[t] # "verify"
    BY <1>4, StepCompiles
  <2> QED BY <2>1
<1> QED BY <1>2, <1>3, <1>4

\* What is installed stays as it is, unless staging was rewritten under an install.
LEMMA Kept ==
  ASSUME BasicInv, NEW t \in Tasks, Step(t), Fresh(t), NEW s \in Skills, installed[s] # None
  PROVE  installed'[s] = installed[s]
  BY StepFiles DEF Fresh, BasicInv, Placed, TypeOK

\* A step of a task compiles a skill only from the crate that has its name to itself.
LEMMA PureStep ==
  ASSUME InstallInv, Pure, NEW t \in Tasks, Step(t), "raced" \notin odd'
  PROVE  Pure'
<1>1. BasicInv /\ Fresh(t) /\ odd \subseteq odd' /\ lost \subseteq lost' /\ collide' = collide
  BY StepRaces, StepEdits, NamesKept DEF InstallInv, Next, Step
<1>2. \A s \in Skills : installed[s] # None => installed'[s] = installed[s]
  BY <1>1, Kept
<1>3. \A s \in Skills : InSkills(s) \in members \cup lost => InSkills(s) \in members' \cup lost'
  BY <1>1, StepEdits, MemberKinds DEF Enlists, Delists, Spares
<1>4. \A u \in Tasks : u # t => pc'[u] = pc[u] /\ skill'[u] = skill[u]
  BY <1>1, StepOwn DEF Same, BasicInv
<1>5. \A u \in Tasks : pc'[u] = "release" => InSkills(skill'[u]) \in members' \cup lost'
  <2> SUFFICES ASSUME NEW u \in Tasks, pc'[u] = "release" PROVE InSkills(skill'[u]) \in members' \cup lost'
    OBVIOUS
  <2>1. CASE u = t
    BY <1>1, <2>1, StepEdits DEF Enlists, Delists, Spares
  <2>2. CASE u # t
    <3>1. skill[u] \in Skills
      BY <1>1, <1>4, <2>2 DEF BasicInv, TypeOK
    <3> QED BY <1>3, <1>4, <2>2, <3>1 DEF Pure
  <2> QED BY <2>1, <2>2
<1>6. ASSUME NEW s \in Skills, Compiled(s)', ~Compiled(s)
      PROVE  /\ InSkills(s) \in members \cup lost /\ installed[s] # None
             /\ pc'[t] = "verify" /\ skill[t] = s
  <2>1. pc[t] = "verify" => skill[t] # s
    BY <1>6 DEF Compiled
  <2>2. s \notin live'
    BY <1>1, <1>6, <2>1, StepCompiles DEF Verify, Compiled
  <2>3. pc'[t] = "verify" /\ skill'[t] = s
    BY <1>4, <1>6, <2>2 DEF Compiled
  <2>4. pc[t] = "release" /\ skill[t] = s
    BY <1>1, <2>3, StepCompiles
  <2> QED BY <1>1, <2>3, <2>4 DEF Pure, BasicInv, Placed, Placing
<1>7. ASSUME NEW s \in Skills, Compiled(s)'
      PROVE  InSkills(s) \in members' \cup lost' /\ installed[s] # None /\ installed'[s] = installed[s]
  BY <1>2, <1>3, <1>6, <1>7 DEF Pure
<1>8. \A s : Crate(s)' = Crate(s)
  BY <1>1 DEF Crate
<1>9. ASSUME NEW s \in Skills, Compiled(s)', Sound(s)'
      PROVE  /\ Sound(s) /\ InSkills(s) \in members
             /\ \A c : Passes(c, s)' <=> Passes(c, s)
  <2>1. installed'[s] = installed[s] /\ InSkills(s) \notin lost
    BY <1>1, <1>7, <1>9 DEF Sound, InSkills
  <2>2. Sound(s) /\ \A c : Passes(c, s)' <=> Passes(c, s)
    BY <1>8, <1>9, <2>1 DEF Sound, Proper, Passes
  <2>3. InSkills(s) \in members
    BY <1>6, <1>9, <2>1 DEF Pure
  <2> QED BY <2>2, <2>3
<1>10. ASSUME NEW s \in Skills, Compiled(s)', Sound(s)'
       PROVE  Passes(wasm[Crate(s)], s)'
  <2>1. Sound(s) /\ InSkills(s) \in members /\ \A c : Passes(c, s)' <=> Passes(c, s)
    BY <1>9, <1>10
  <2>2. Passes(wasm[Crate(s)], s) \/ (pc'[t] = "verify" /\ s = skill[t])
    BY <1>6, <1>10, <2>1 DEF Pure
  <2>3. Passes(wasm'[Crate(s)], s)
    BY <1>1, <2>1, <2>2, ArtifactKept DEF Sound
  <2> QED BY <1>7, <1>8, <1>10, <2>3 DEF Passes
<1>11. ASSUME NEW s \in live', Sound(s)', "late" \notin odd'
       PROVE  /\ Passes(modules[s], s)' \/ modules'[s] = None
              /\ loading' # None /\ loading'.skill = s => Passes(loading.of, s)'
  <2>1. live \subseteq Skills /\ (s \in live \/ (Verify(t) /\ s = skill[t]))
    BY <1>1, <1>11, StepCompiles DEF BasicInv, TypeOK, Verify
  <2>2. s \in Skills
    BY <1>1, <2>1 DEF Verify, BasicInv, TypeOK
  <2>3. loading' = loading /\ Compiled(s)' /\ installed'[s] = installed[s] /\ Sound(s)
    BY <1>1, <1>7, <1>9, <1>11, <2>2, StepCompiles DEF Compiled
  <2>4. CASE s \in live
    <3>1. /\ Passes(modules[s], s) \/ modules[s] = None
          /\ loading # None /\ loading.skill = s => Passes(loading.of, s)
      BY <1>1, <1>11, <2>3, <2>4 DEF Pure
    <3>2. modules'[s] \in {modules[s], None}
      BY <1>1, <2>1, <2>2, StepCompiles DEF Verify, BasicInv, TypeOK
    <3> QED BY <1>8, <2>3, <3>1, <3>2 DEF Passes
  <2>5. CASE s \notin live
    <3>1. Verify(t) /\ s = skill[t]
      BY <2>1, <2>5
    <3>2. modules'[s] = None
      BY <1>1, <2>2, <3>1 DEF Verify, BasicInv, TypeOK
    <3>3. loading = None \/ loading.skill # s
      BY <1>11, <3>1 DEF Verify
    <3> QED BY <2>3, <3>2, <3>3
  <2> QED BY <2>4, <2>5
<1> QED BY <1>5, <1>7, <1>8, <1>10, <1>11 DEF Pure, InSkills, Passes

\* Loads and crashes change no artifact, and a load reads the one that is there.
LEMMA ArtifactStep == ArtifactInv /\ [Next]_vars => ArtifactInv'
<1> SUFFICES ASSUME ArtifactInv, [Next]_vars, "raced" \notin odd' PROVE Pure'
  BY InstallStep DEF ArtifactInv
<1>1. InstallInv /\ BasicInv
  BY DEF ArtifactInv, InstallInv
<1>2. ASSUME NEW t \in Tasks, Step(t) PROVE Pure'
  <2>1. odd \subseteq odd'
    BY <1>1, <1>2, StepRaces
  <2> QED BY <1>1, <1>2, <2>1, PureStep DEF ArtifactInv
<1>3. collide' = collide
  BY NamesKept
<1>4. \A s : Crate(s)' = Crate(s)
  BY <1>3 DEF Crate
<1> USE DEF Sound, Proper, Passes
<1>5. CASE Crash
  <2>1. Pure /\ UNCHANGED <<installed, wasm, members, lost, live>> /\ modules' = [s \in Skills |-> None]
        /\ loading' = None /\ \A t \in Tasks : pc'[t] \in {"idle", "parked"}
    BY <1>5 DEF Crash, ArtifactInv, files
  <2> QED BY <1>1, <1>4, <2>1 DEF Pure, Compiled, InSkills, BasicInv, TypeOK
<1>6. CASE Insert
  <2>1. Pure /\ UNCHANGED <<installed, wasm, members, lost, live, pc, skill, odd>> /\ loading' = None
        /\ loading # None /\ modules' = [modules EXCEPT ![loading.skill] = loading.of]
    BY <1>6 DEF Insert, ArtifactInv, files, child, edits
  <2> QED BY <1>1, <1>4, <2>1 DEF Pure, Compiled, InSkills, BasicInv, TypeOK
<1>7. ASSUME NEW s \in Skills, Load(s) PROVE Pure'
  <2>1. Pure /\ UNCHANGED <<installed, wasm, members, lost, live, pc, skill, odd, modules>>
        /\ loading' = [skill |-> s, of |-> wasm[Crate(s)]]
    BY <1>7 DEF Load, ArtifactInv, files, child, edits
  <2> QED BY <1>1, <1>4, <2>1 DEF Pure, Compiled, InSkills
<1>8. CASE UNCHANGED vars
  BY <1>4, <1>8 DEF vars, files, cache, child, edits, ArtifactInv, Pure, Compiled, InSkills
<1> QED BY <1>2, <1>5, <1>6, <1>7, <1>8 DEF Next, Step

\* Nothing is compiled at the start.
LEMMA ArtifactInit == Init => ArtifactInv
  BY InstallInit DEF Init, ArtifactInv, Pure, Compiled

\* What runs under the name of an installed skill is its installed source, for any number of
\* concurrent scratch builds into the one target directory, of any crate names, over crashes,
\* or else a source that names its library so; the skill's own Cargo.toml must be in order.
THEOREM ArtifactsAreInstalled == Spec => []ArtifactIsInstalled
<1>1. ArtifactInv => ArtifactIsInstalled
  BY DEF ArtifactInv, Pure, Compiled, Sound, ArtifactIsInstalled, InstallInv, BasicInv, TypeOK
<1> QED BY <1>1, ArtifactInit, ArtifactStep, PTL DEF Spec

-----------------------------------------------------------------------------
(***************************************************************************)
(* What a question says of its build.                                      *)
(***************************************************************************)

\* A task that writes to the scratch directory of another's crate, or takes it from
\* Cargo.toml, names it as shared, unless it wipes it after its own build.
LEMMA StepShares ==
  ASSUME BasicInv, NEW t \in Tasks, Step(t), NEW u \in Tasks, u # t,
         pc[u] \in Compiling \cup {"copy"}, "shared" \notin odd'
  PROVE  /\ pc[u] = "copy" => staging'[skill[u]] = staging[skill[u]]
         /\ pc[u] \in Compiling /\ (pc[t] \in Compiling => Crate(skill[t]) # Crate(skill[u])) =>
              /\ scratch'[Crate(skill[u])] = scratch[Crate(skill[u])]
              /\ InScratch(Crate(skill[u])) \in members \cup lost =>
                   InScratch(Crate(skill[u])) \in members' \cup lost'
              /\ pc'[t] \in Compiling => skill'[t] = skill[t] /\ Crate(skill[t]) # Crate(skill[u])
<1> USE DEF BasicInv, TypeOK
<1>1. skill[u] \in Skills /\ Crate(skill[u]) \in Crates
  BY CrateOf DEF Compiling, Building
<1>2. pc[u] = "copy" => "shared" \in Races(t, skill[u])
  BY DEF Races
<1>3. pc[u] \in Compiling => "shared" \in Clashes(t, Crate(skill[u]))
  BY DEF Clashes, Compiling
<1>4. pc[u] = "copy" => staging'[skill[u]] = staging[skill[u]]
  BY <1>1, <1>2, StepRaces
<1>5. ASSUME pc[u] \in Compiling, pc[t] \in Compiling => Crate(skill[t]) # Crate(skill[u])
      PROVE  scratch'[Crate(skill[u])] = scratch[Crate(skill[u])]
  <2>1. CASE Copy(t)
    BY <1>1, <1>3, <1>5, <2>1 DEF Copy
  <2>2. CASE Wipe(t)
    BY <1>1, <1>5, <2>2 DEF Wipe, Compiling, Building
  <2>3. CASE Delete(t)
    BY <1>1, <1>3, <1>5, <2>3 DEF Delete
  <2>4. CASE ~Copy(t) /\ ~Wipe(t) /\ ~Delete(t)
    BY <2>4 DEF files, Step,
      Child, Trigger, Finalize, FinalizeFails, ForgeBuild, ForgeWrite,
      Build, CopyFails, List, Unlist, ReadMembers, WriteMembers, BuildScratch,
      Grant, Park, Yes, No, Overwrite, Approve, AskAgain, NothingStaged,
      Install, Check, CheckFails, Move, Register, Discard, BuildRelease, ReleaseFails, Verify
  <2> QED BY <2>1, <2>2, <2>3, <2>4
<1>6. ASSUME pc[u] \in Compiling, pc[t] \in Compiling => Crate(skill[t]) # Crate(skill[u]),
             InScratch(Crate(skill[u])) \in members \cup lost
      PROVE  InScratch(Crate(skill[u])) \in members' \cup lost'
  <2> SUFFICES ASSUME InScratch(Crate(skill[u])) \notin members' \cup lost' PROVE FALSE
    OBVIOUS
  <2>1. pc[t] = "delisted" /\ InScratch(Crate(skill[u])) \in members /\ Crate(skill[t]) = Crate(skill[u])
    BY <1>5, <1>6, StepEdits, MemberKinds DEF Enlists, Delists, Spares, Compiling, Building
  <2>2. WriteMembers(t, "delisted", text[t] \ {InScratch(Crate(skill[t]))}, "delete")
    BY <2>1 DEF Step, Goto, files,
      Child, Trigger, Finalize, FinalizeFails, ForgeBuild, ForgeWrite,
      Build, Copy, CopyFails, List, Unlist, ReadMembers, WriteMembers, BuildScratch, Wipe,
      Grant, Park, Yes, No, Overwrite, Approve, AskAgain, NothingStaged,
      Install, Check, CheckFails, Move, Register, Discard, BuildRelease, ReleaseFails, Verify, Delete
  <2>3. InScratch(Crate(skill[u])) \in text[t]
    BY <2>1, <2>2 DEF WriteMembers
  <2>4. Clashes(t, Crate(skill[u])) \subseteq odd'
    BY <1>1, <2>1, <2>2, <2>3 DEF WriteMembers
  <2> QED BY <1>3, <1>6, <2>4
<1>7. ASSUME pc[u] \in Compiling, pc[t] \in Compiling => Crate(skill[t]) # Crate(skill[u]), pc'[t] \in Compiling
      PROVE  skill'[t] = skill[t] /\ Crate(skill[t]) # Crate(skill[u])
  <2>1. CASE Copy(t)
    BY <1>1, <1>3, <1>7, <2>1 DEF Copy
  <2>2. CASE ~Copy(t)
    <3> USE DEF Compiling, Building, Goto, End, Report, child
    <3>1. CASE Child(t)
      BY <1>7, <3>1 DEF Child, Trigger, Finalize, FinalizeFails, ForgeBuild, ForgeWrite
    <3>2. CASE Build(t)
      BY <1>7, <2>2, <3>2 DEF Build, CopyFails, List, Unlist, ReadMembers, WriteMembers, BuildScratch, Wipe
    <3>3. CASE Grant(t)
      BY <1>7, <3>3 DEF Grant, Park, Yes, No, Overwrite, Approve, AskAgain, NothingStaged
    <3>4. CASE Install(t)
      BY <1>7, <3>4 DEF Install, Check, CheckFails, Move, Register, Discard, ReadMembers, WriteMembers, BuildRelease,
        ReleaseFails, Verify, Delete
    <3> QED BY <3>1, <3>2, <3>3, <3>4 DEF Step
  <2> QED BY <2>1, <2>2
<1> QED BY <1>4, <1>5, <1>6, <1>7

\* A task alone with its directories builds what it copied, and copies what it noted.
LEMMA OwnBuilds ==
  ASSUME BasicInv, NEW t \in Tasks, Step(t), BuildsShown(t), collide' = collide
  PROVE  BuildsShown(t)'
<1> USE DEF BasicInv, TypeOK, BuildsShown, Goto, End, Report, edits, files, child, question, bounds, Building, Installing, Discarding
<1>1. \A s : Crate(s)' = Crate(s)
  BY DEF Crate
<1>2. pc[t] \in Building => skill[t] \in Skills /\ Crate(skill[t]) \in Crates
  BY CrateOf
<1>3. CASE Child(t)
  <2>1. CASE Trigger(t) \/ \E s \in Skills, c \in Contents : ForgeWrite(t, s, c)
    BY <2>1 DEF Trigger, ForgeWrite
  <2>2. CASE \E s \in Skills : ForgeBuild(t, s)
    BY <2>2 DEF ForgeBuild
  <2>3. CASE Finalize(t)
    BY <2>3 DEF Finalize
  <2>4. CASE FinalizeFails(t)
    BY <2>4 DEF FinalizeFails
  <2> QED BY <1>3, <2>1, <2>2, <2>3, <2>4 DEF Child
<1>4. CASE Build(t)
  <2>1. CASE Copy(t)
    BY <1>1, <1>2, <2>1 DEF Copy
  <2>2. CASE CopyFails(t)
    BY <2>2 DEF CopyFails
  <2>3. CASE List(t)
    <3>1. CASE ReadMembers(t, "list", "listed")
      BY <1>1, <1>2, <3>1, Reads
    <3>2. CASE WriteMembers(t, "listed", text[t] \cup {InScratch(Crate(skill[t]))}, "cargo")
      <4>1. text[t] \cup {InScratch(Crate(skill[t]))} \in SUBSET Members
        BY <3>2, CrateOf DEF WriteMembers
      <4>2. pc[t] = "listed" /\ pc' = [pc EXCEPT ![t] = "cargo"]
            /\ UNCHANGED <<scratch, skill, then, noted>>
        BY <3>2 DEF WriteMembers
      <4>3. InScratch(Crate(skill[t])) \in members' \cup lost'
        BY <3>2, <4>1, Writes
      <4>4. InScratch(Crate(skill[t]))' \in members' \cup lost'
        BY <1>1, <4>2, <4>3 DEF InScratch
      <4> QED BY <1>1, <4>2, <4>4
    <3> QED BY <2>3, <3>1, <3>2 DEF List
  <2>4. CASE Unlist(t)
    BY <1>1, <2>4 DEF Unlist, ReadMembers, WriteMembers, InScratch
  <2>5. CASE BuildScratch(t)
    <3>1. pc[t] = "cargo" /\ pc' = [pc EXCEPT ![t] = "unlist"] /\ UNCHANGED <<skill, then, noted, lost>>
      BY <2>5 DEF BuildScratch
    <3>2. ASSUME NEW m \in members, CargoBuilds(Crate(skill[t]), m), built' = [built EXCEPT ![t] = Content(m)]
          PROVE  BuildsShown(t)'
      <4>1. InScratch(Crate(skill[t])) \in members /\ Pkg[scratch[Crate(skill[t])]] \in {Own, Crate(skill[t])} =>
              Content(m) = scratch[Crate(skill[t])]
        BY <1>2, <3>1, <3>2, BuildIs
      <4>2. InScratch(Crate(skill[t]))' = InScratch(Crate(skill[t]))
        BY <1>1, <3>1 DEF InScratch
      <4>3. then[t] = "ask" =>
              \/ built'[t] = noted[t]
              \/ Pkg[noted[t]] \notin {Own, Crate(skill[t])}
              \/ InScratch(Crate(skill[t])) \in lost
        BY <3>1, <3>2, <4>1
      <4> QED BY <1>1, <3>1, <4>2, <4>3
    <3>3. CASE built' = [built EXCEPT ![t] = None]
      BY <3>1, <3>3
    <3> QED BY <2>5, <3>2, <3>3 DEF BuildScratch
  <2>6. CASE Wipe(t)
    BY <1>1, <2>6 DEF Wipe, InScratch
  <2> QED BY <1>4, <2>1, <2>2, <2>3, <2>4, <2>5, <2>6 DEF Build
<1>5. CASE Grant(t)
  BY <1>5 DEF Grant, Park, Yes, No, Overwrite, Approve, AskAgain, NothingStaged
<1>6. CASE Install(t)
  <2>1. CASE Register(t) \/ Discard(t)
    BY <2>1 DEF Register, Discard, ReadMembers, WriteMembers
  <2>2. CASE Check(t) \/ CheckFails(t) \/ Move(t) \/ BuildRelease(t) \/ ReleaseFails(t) \/ Verify(t) \/ Delete(t)
    BY <2>2 DEF Check, CheckFails, Move, BuildRelease, ReleaseFails, Verify, Delete
  <2> QED BY <1>6, <2>1, <2>2 DEF Install
<1> QED BY <1>3, <1>4, <1>5, <1>6 DEF Step

\* Without a shared directory and a lost edit, no two tasks meet in one crate.
LEMMA AloneStep ==
  ASSUME BasicInv, ScratchAlone, NEW t \in Tasks, Step(t), "shared" \notin odd'
  PROVE  ScratchAlone'
<1>1. collide' = collide /\ \A u \in Tasks : u # t => pc'[u] = pc[u] /\ skill'[u] = skill[u]
  BY NamesKept, StepOwn DEF Same, BasicInv, Next, Step
<1>2. \A s : Crate(s)' = Crate(s)
  BY <1>1 DEF Crate
<1>3. ASSUME NEW u \in Tasks, u # t, pc[u] \in Compiling, pc'[t] \in Compiling
      PROVE  Crate(skill'[t]) # Crate(skill[u])
  <2>1. pc[t] \in Compiling => Crate(skill[t]) # Crate(skill[u])
    BY <1>3 DEF ScratchAlone
  <2>2. skill'[t] = skill[t] /\ Crate(skill[t]) # Crate(skill[u])
    BY <1>3, <2>1, StepShares
  <2> QED BY <2>2
<1>4. ASSUME NEW u \in Tasks, NEW v \in Tasks, pc'[u] \in Compiling, pc'[v] \in Compiling,
             Crate(skill'[u]) = Crate(skill'[v])
      PROVE  u = v
  BY <1>1, <1>3, <1>4 DEF ScratchAlone
<1> QED BY <1>2, <1>4 DEF ScratchAlone, Compiling, Building

\* Unless directories are shared or an edit is lost, each build is of what its question shows.
LEMMA QuestionStep == QuestionInv /\ [Next]_vars => QuestionInv'
<1> SUFFICES ASSUME QuestionInv, [Next]_vars, "shared" \notin odd'
             PROVE  ScratchAlone' /\ \A u \in Tasks : BuildsShown(u)'
  BY BasicStep DEF QuestionInv
<1>1. BasicInv /\ collide' = collide
  BY NamesKept DEF QuestionInv
<1>2. \A s : Crate(s)' = Crate(s)
  BY <1>1 DEF Crate
<1>3. ASSUME NEW t \in Tasks, Step(t) PROVE ScratchAlone' /\ \A u \in Tasks : BuildsShown(u)'
  <2>1. odd \subseteq odd'
    BY <1>1, <1>3, StepRaces
  <2>2. ScratchAlone /\ \A u \in Tasks : BuildsShown(u)
    BY <2>1 DEF QuestionInv
  <2>3. ScratchAlone'
    BY <1>1, <1>3, <2>2, AloneStep
  <2>4. ASSUME NEW u \in Tasks, u # t PROVE BuildsShown(u)'
    <3>1. Same(u) /\ BuildsShown(u) /\ lost \subseteq lost'
      BY <1>1, <1>3, <2>2, <2>4, StepOwn, StepEdits DEF BasicInv
    <3>2. CASE pc[u] = "copy"
      <4>1. staging'[skill[u]] = staging[skill[u]]
        BY <1>1, <1>3, <2>4, <3>2, StepShares
      <4> QED BY <3>1, <3>2, <4>1 DEF Same, BuildsShown
    <3>3. CASE pc[u] \in Compiling
      <4>1. pc[t] \in Compiling => Crate(skill[t]) # Crate(skill[u])
        BY <2>2, <2>4, <3>3 DEF ScratchAlone
      <4>2. /\ scratch'[Crate(skill[u])] = scratch[Crate(skill[u])]
            /\ InScratch(Crate(skill[u])) \in members \cup lost => InScratch(Crate(skill[u])) \in members' \cup lost'
        BY <1>1, <1>3, <2>4, <3>3, <4>1, StepShares
      <4> QED BY <1>2, <3>1, <3>3, <4>2 DEF Same, BuildsShown, Compiling, Building, InScratch
    <3>4. CASE pc[u] \notin Compiling \cup {"copy"}
      BY <1>2, <3>1, <3>4 DEF Same, BuildsShown, Compiling, Building, InScratch
    <3> QED BY <3>2, <3>3, <3>4
  <2>5. BuildsShown(t)'
    BY <1>1, <1>3, <2>2, OwnBuilds
  <2> QED BY <2>3, <2>4, <2>5
<1>4. CASE Crash
  <2>1. \A t \in Tasks : pc'[t] \in {"idle", "parked"}
    BY <1>4 DEF Crash
  <2> QED BY <2>1 DEF ScratchAlone, BuildsShown, Compiling, Building
<1>5. CASE Insert \/ (\E s \in Skills : Load(s)) \/ UNCHANGED vars
  <2>1. UNCHANGED <<files, members, lost, pc, child, odd>>
    BY <1>5 DEF Insert, Load, vars, edits
  <2> QED BY <1>2, <2>1 DEF files, child, QuestionInv, ScratchAlone, BuildsShown, InScratch
<1> QED BY <1>3, <1>4, <1>5 DEF Next, Step

\* At the start no task builds.
LEMMA QuestionInit == Init => QuestionInv
  BY BasicInit DEF Init, QuestionInv, ScratchAlone, BuildsShown, Compiling, Building

\* The build result in a question is of a content with the manifest in it, for any number of
\* tasks that build side by side, of any crate names.
THEOREM QuestionsTellBuilds == Spec => []QuestionTellsBuild
<1>1. QuestionInv => QuestionTellsBuild
  BY DEF QuestionInv, BuildsShown, QuestionTellsBuild
<1> QED BY <1>1, QuestionInit, QuestionStep, PTL DEF Spec
=============================================================================
