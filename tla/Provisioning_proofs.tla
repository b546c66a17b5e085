------------------------- MODULE Provisioning_proofs -------------------------
(***************************************************************************)
(* Theorems about Provisioning, and their proofs.                          *)
(***************************************************************************)
EXTENDS Provisioning, TLAPS

PCs == Ended \cup SetupPCs \cup CleanupPCs

(* An invocation that ends leaves well-typed locals.                       *)
LEMMA LeaveType ==
  ASSUME TypeOK, NEW p \in Invocations, Leave(p)
  PROVE  /\ pc' \in [Invocations -> PCs]
         /\ mem' \in [Invocations -> Record]
         /\ prefer' \in [Invocations -> Preferences \cup {"none"}]
         /\ missing' \in [Invocations -> SUBSET Required]
         /\ partly' \in [Invocations -> SUBSET Packages]
         /\ made' \in [Invocations -> BOOLEAN]
         /\ planned' \in [Invocations -> BOOLEAN]
         /\ err' \in [Invocations -> BOOLEAN]
<1>1. NewRecord \in Record
  BY DEF NewRecord, Record
<1>2. mem' \in [Invocations -> Record]
  BY <1>1 DEF Leave, TypeOK
<1>3. pc' \in [Invocations -> PCs]
  BY DEF Leave, TypeOK, PCs, Ended
<1>4. /\ prefer' \in [Invocations -> Preferences \cup {"none"}]
      /\ missing' \in [Invocations -> SUBSET Required]
      /\ partly' \in [Invocations -> SUBSET Packages]
  BY DEF Leave, TypeOK
<1>5. /\ made' \in [Invocations -> BOOLEAN]
      /\ planned' \in [Invocations -> BOOLEAN]
      /\ err' \in [Invocations -> BOOLEAN]
  BY DEF Leave, TypeOK
<1>6. QED
  BY <1>2, <1>3, <1>4, <1>5

(* What a state in memory may become.                                      *)
LEMMA RecordFacts ==
  ASSUME NEW m \in Record
  PROVE  /\ \A D \in SUBSET Deps : /\ [m EXCEPT !.preExisting = @ \cup D] \in Record
                                   /\ [m EXCEPT !.installed = @ \cup D] \in Record
         /\ [m EXCEPT !.passed = TRUE] \in Record
         /\ \A b \in BOOLEAN : [m EXCEPT !.pulled = b] \in Record
         /\ \A b \in BOOLEAN : [m EXCEPT !.shim = TRUE, !.shimDir = @ \/ b] \in Record
         /\ \A rt \in Runtimes, D \in SUBSET Deps :
              [m EXCEPT !.runtime = rt, !.preExisting = D] \in Record
<1>1. \A b \in BOOLEAN : m.shimDir \/ b \in BOOLEAN
  OBVIOUS
<1>2. QED
  BY <1>1 DEF Record

(* The packages of dependencies are packages of the host, and of packages  *)
(* and images none is both.                                                *)
LEMMA PackagesOfDeps ==
  ASSUME NEW D \in SUBSET Deps
  PROVE  PackagesOf(D) \subseteq HostPackages
BY PackageAssumption DEF PackagesOf, HostPackages, Deps

LEMMA PackagesOfRequired ==
  ASSUME NEW D \in SUBSET Required
  PROVE  PackagesOf(D) \subseteq Packages
BY RequiredAssumption, PackageAssumption DEF PackagesOf

LEMMA PackagesOfSome ==
  /\ \A D, E : PackagesOf(D \cup E) = PackagesOf(D) \cup PackagesOf(E)
  /\ \A D, E : PackagesOf(D \ E) \subseteq PackagesOf(D)
  /\ \A rt \in Runtimes : PackagesOf({rt}) = {rt}
  /\ PackagesOf({}) = {}
BY DEF PackagesOf

LEMMA PackagesAreNoImages == HostPackages \cap Images = {}
  BY PackageAssumption DEF HostPackages, Images, Image, Runtimes

LEMMA TypeInit == Init => TypeOK
<1> SUFFICES ASSUME Init PROVE TypeOK
  OBVIOUS
<1>1. there \subseteq Things
  BY DEF Init, Things, HostPackages, Images
<1>2. NewRecord \in Record
  BY DEF NewRecord, Record
<1>3. QED
  BY <1>1, <1>2 DEF Init, TypeOK, Ended

(* Every step keeps the types.                                             *)
LEMMA TypeStep == TypeOK /\ [Next]_vars => TypeOK'
<1> SUFFICES ASSUME TypeOK, [Next]_vars PROVE TypeOK'
  OBVIOUS
<1>1. CASE UNCHANGED vars
  BY <1>1 DEF vars, host, locals, hist, TypeOK
<1>2. ASSUME NEW x \in UserThings, UserAdds(x) \/ UserRemoves(x) PROVE TypeOK'
  BY <1>2, UserAssumption DEF UserAdds, UserRemoves, locals, TypeOK
<1>3. CASE UserWritesShim \/ UserRemovesShim
  BY <1>3 DEF UserWritesShim, UserRemovesShim, locals, hist, TypeOK
<1>4. ASSUME NEW p \in Invocations, Abandon(p) PROVE TypeOK'
  BY <1>4, LeaveType DEF Abandon, host, hist, TypeOK, PCs
<1>5. ASSUME NEW p \in Invocations, SetupStep(p) PROVE TypeOK'
  <2> mem[p] \in Record /\ missing[p] \in SUBSET Required /\ Required \subseteq Deps /\ made[p] \in BOOLEAN
      /\ partly[p] \in SUBSET Packages
    BY DEF TypeOK, Deps
  <2> \A rt \in Runtimes : rt \in Deps /\ Image(rt) \in Things
    BY DEF Deps, Things, Images
  <2>1. CASE SetupLoads(p)
    <3>1. [file EXCEPT !.preExisting = @ \cup Present] \in Record
      BY RecordFacts DEF Present, TypeOK
    <3>2. users \cap PackagesOf({d \in Required : ~Complete(d)}) \subseteq Packages
      BY PackagesOfRequired
    <3>3. QED
      BY <2>1, <3>1, <3>2 DEF SetupLoads, Begin, Astray, host, TypeOK, SetupPCs
  <2>2. ASSUME NEW new \in SUBSET Deps, NEW from, NEW to \in SetupPCs, Install(p, new, from, to)
        PROVE  TypeOK'
    <3>0. PackagesOf(new) \subseteq Things
      BY PackagesOfDeps DEF Things
    <3>1. CASE /\ Goto(p, from, to) /\ mem' = [mem EXCEPT ![p].installed = @ \cup new]
               /\ UNCHANGED <<locals, shim, dir, file, users, adopted, late, astray>>
      <4>1. mem' = [mem EXCEPT ![p] = [mem[p] EXCEPT !.installed = @ \cup new]]
        BY <3>1 DEF TypeOK
      <4>2. mem' \in [Invocations -> Record]
        BY <4>1, RecordFacts DEF TypeOK
      <4>3. there' \subseteq Things /\ ours' \subseteq Things
        BY <2>2, <3>0 DEF Install, TypeOK
      <4>4. QED
        BY <3>1, <4>2, <4>3 DEF Goto, locals, TypeOK
    <3>2. CASE Leave(p) /\ UNCHANGED <<shim, dir, file, users, adopted, late, astray>>
      <4>1. there' \subseteq Things /\ ours' \subseteq Things
        BY <2>2, <3>0 DEF Install, TypeOK
      <4>2. QED
        BY <3>2, <4>1, LeaveType DEF TypeOK, PCs
    <3>3. QED
      BY <2>2, <3>1, <3>2 DEF Install
  <2>3. CASE InstallMissing(p) \/ InstallRuntime(p)
    <3>1. (IF prefer[p] = "none" THEN "docker" ELSE prefer[p]) \in Deps
      BY PreferenceAssumption DEF TypeOK, Deps, Runtimes
    <3>2. QED
      BY <2>2, <2>3, <3>1 DEF InstallMissing, InstallRuntime, SetupPCs
  <2>4. ASSUME NEW from, NEW to \in SetupPCs, NEW m \in Record, Save(p, from, to, m)
        PROVE  /\ pc' \in [Invocations -> PCs]
               /\ mem' \in [Invocations -> Record]
               /\ file' \in Record
    BY <2>4 DEF Save, Goto, TypeOK, PCs
  <2>5. CASE SaveInstalled(p) \/ SetupPasses(p) \/ SaveRuntime(p)
    <3>1. /\ pc' \in [Invocations -> PCs]
          /\ mem' \in [Invocations -> Record]
          /\ file' \in Record
      <4>1. CASE SaveInstalled(p) \/ SaveRuntime(p)
        BY <2>4, <4>1 DEF SaveInstalled, SaveRuntime, SetupPCs
      <4>2. CASE SetupPasses(p)
        <5>1. [mem[p] EXCEPT !.passed = TRUE] \in Record
          BY RecordFacts
        <5>2. Save(p, pc[p], "auroraboot", [mem[p] EXCEPT !.passed = TRUE])
          BY <4>2 DEF SetupPasses
        <5>3. QED
          BY <2>4, <5>1, <5>2 DEF SetupPCs
      <4>3. QED
        BY <2>5, <4>1, <4>2
    <3>2. UNCHANGED <<host, locals, users, ours, late, astray>> /\ adopted' \subseteq Packages
      BY <2>5 DEF SaveInstalled, SetupPasses, SaveRuntime, hist, TypeOK
    <3>3. QED
      BY <3>1, <3>2 DEF host, locals, TypeOK, PCs
  <2>6. ASSUME NEW rt \in Runtimes, ChooseRuntime(p, rt) PROVE TypeOK'
    <3> DEFINE kept == IF rt \in mem[p].installed THEN mem[p].preExisting
                       ELSE mem[p].preExisting \cup {rt}
               m == [mem[p] EXCEPT !.runtime = rt, !.preExisting = kept]
    <3>1. kept \in SUBSET Deps
      BY DEF Record
    <3>2. m \in Record
      <4> HIDE DEF kept
      <4>1. QED
        BY <3>1, RecordFacts
    <3>3. Save(p, pc[p], "image", m)
      BY <2>6 DEF ChooseRuntime, Record
    <3>4. "image" \in SetupPCs
      BY DEF SetupPCs
    <3> HIDE DEF m
    <3>5. /\ pc' \in [Invocations -> PCs]
          /\ mem' \in [Invocations -> Record]
          /\ file' \in Record
      BY <2>4, <3>2, <3>3, <3>4
    <3>6. UNCHANGED <<host, locals, users, ours, adopted, late>>
      BY <2>6 DEF ChooseRuntime
    <3>7. astray' \in {"no", "overlapped", "switched", "misread", "unreported"}
      BY <2>6 DEF ChooseRuntime, Astray, TypeOK
    <3>8. QED
      BY <3>5, <3>6, <3>7 DEF host, locals, TypeOK, PCs
  <2>7. CASE NoRuntime(p)
    BY <2>7 DEF NoRuntime, Goto, host, locals, hist, TypeOK, SetupPCs
  <2>8. CASE ImagePresent(p) \/ ImageAbsent(p)
    <3>1. PICK from, to \in SetupPCs, m \in Record : Save(p, from, to, m)
      BY <2>8, RecordFacts DEF ImagePresent, ImageAbsent, RecordPresent, RecordPull, SetupPCs
    <3>2. /\ UNCHANGED <<host, locals, users, ours, adopted, late>>
          /\ astray' \in {"no", "overlapped", "switched", "misread", "unreported"}
      BY <2>8 DEF ImagePresent, ImageAbsent, Astray, hist, TypeOK
    <3>3. QED
      BY <2>4, <3>1, <3>2 DEF host, locals, TypeOK, PCs
  <2>9. CASE Pull(p)
    <3>1. Image(mem[p].runtime) \in Things
      BY DEF Image, Things, Images, Runtimes
    <3>2. QED
      BY <2>9, <3>1 DEF Pull, Goto, locals, TypeOK, SetupPCs
  <2>10. CASE PullFails(p)
    <3>1. file' \in Record
      BY <2>10, RecordFacts DEF PullFails
    <3>2. QED
      BY <2>10, <3>1, LeaveType DEF PullFails, host, hist, TypeOK, PCs
  <2>11. CASE PrepareShim(p)
    BY <2>11 DEF PrepareShim, Goto, hist, TypeOK, SetupPCs
  <2>12. CASE RenameShim(p)
    BY <2>12 DEF RenameShim, Goto, locals, TypeOK, SetupPCs
  <2>13. CASE SaveShim(p)
    <3>1. file' \in Record
      BY <2>13, RecordFacts DEF SaveShim
    <3>2. QED
      BY <2>13, <3>1, LeaveType DEF SaveShim, host, hist, TypeOK, PCs
  <2>14. QED
    BY <1>5, <2>1, <2>3, <2>5, <2>6, <2>7, <2>8, <2>9, <2>10, <2>11, <2>12, <2>13 DEF SetupStep
<1>6. ASSUME NEW p \in Invocations, CleanupStep(p) PROVE TypeOK'
  <2>1. CASE CleanupLoads(p)
    <3>1. PlansShim \in BOOLEAN
      BY DEF PlansShim, TypeOK, Record
    <3>2. QED
      BY <2>1, <3>1 DEF CleanupLoads, Begin, Astray, host, TypeOK, CleanupPCs
  <2>2. CASE RemoveShim(p)
    BY <2>2 DEF RemoveShim, Failed, Goto, hist, TypeOK, CleanupPCs
  <2>3. CASE RemoveShimDir(p)
    BY <2>3 DEF RemoveShimDir, DirRemovable, Failed, Goto, hist, TypeOK, CleanupPCs
  <2>4. CASE RemoveImage(p)
    <3>1. there' \subseteq Things /\ ours' \subseteq Things
      BY <2>4 DEF RemoveImage, TypeOK
    <3>2. err' \in [Invocations -> BOOLEAN]
      BY <2>4 DEF RemoveImage, Failed, TypeOK
    <3>3. astray' \in {"no", "overlapped", "switched", "misread", "unreported"}
      BY <2>4 DEF RemoveImage, Astray, TypeOK
    <3>4. QED
      BY <2>4, <3>1, <3>2, <3>3 DEF RemoveImage, Goto, TypeOK, CleanupPCs
  <2>5. CASE Uninstall(p)
    <3>1. there' \subseteq Things /\ ours' \subseteq Things
      BY <2>5 DEF Uninstall, TypeOK
    <3>2. CASE Leave(p)
      BY <2>5, <3>1, <3>2, LeaveType DEF Uninstall, TypeOK, PCs
    <3>3. CASE Goto(p, "uninstall", "rmState") /\ UNCHANGED <<mem, locals>>
      BY <2>5, <3>1, <3>3 DEF Uninstall, Goto, locals, TypeOK, CleanupPCs
    <3>4. QED
      BY <2>5, <3>2, <3>3 DEF Uninstall
  <2>6. CASE RemoveState(p)
    <3>1. file' \in Record
      BY <2>6 DEF RemoveState, NewRecord, Record
    <3>2. ours' \subseteq Things
      BY <2>6 DEF RemoveState, TypeOK
    <3>3. astray' \in {"no", "overlapped", "switched", "misread", "unreported"}
      BY <2>6 DEF RemoveState, Astray, TypeOK
    <3>4. UNCHANGED <<host, users, late>> /\ adopted' \subseteq Packages
      BY <2>6 DEF RemoveState, TypeOK
    <3>5. CASE Leave(p)
      BY <3>1, <3>2, <3>3, <3>4, <3>5, LeaveType DEF host, TypeOK, PCs
    <3>6. CASE Goto(p, "rmState", "complete") /\ UNCHANGED <<mem, locals>>
      BY <3>1, <3>2, <3>3, <3>4, <3>6 DEF Goto, host, locals, TypeOK, Ended
    <3>7. QED
      BY <2>6, <3>5, <3>6 DEF RemoveState
  <2>7. QED
    BY <1>6, <2>1, <2>2, <2>3, <2>4, <2>5, <2>6 DEF CleanupStep
<1>7. QED
  BY <1>1, <1>2, <1>3, <1>4, <1>5, <1>6 DEF Next

(* Every variable keeps its type, for any dependencies, preferences, user  *)
(* and number of invocations at a time.                                    *)
THEOREM TypeCorrect == Spec => []TypeOK
  BY TypeInit, TypeStep, PTL DEF Spec

-----------------------------------------------------------------------------
(* The user's packages.                                                    *)

(* One invocation moves, the others stay as they are.                      *)
Others(p) == \A q \in Invocations \ {p} : UNCHANGED <<pc[q], mem[q], missing[q], partly[q]>>

Kept == UsersPackagesKept /\ NoneClaimed /\ MissingOnlyInSetup

(* What the user put there and kairos-lab did not adopt.                   *)
Mine == users \ adopted

LEMMA OneMoves ==
  ASSUME IInv, NEW p \in Invocations, UNCHANGED users, Others(p),
         adopted \subseteq adopted' \/ Active' = {},
         Mine' \cap HostPackages \subseteq there', Mine' \cap PackagesOf(file'.installed) = {},
         p \in Active' => ClaimsNone(p)',
         pc'[p] \notin SetupPCs => missing'[p] = {}
  PROVE  Kept'
<1>1. UsersPackagesKept'
  BY DEF UsersPackagesKept, Mine
<1>2. MissingOnlyInSetup'
  BY DEF IInv, MissingOnlyInSetup, Others
<1>3. ASSUME NEW q \in Active', q # p PROVE ClaimsNone(q)'
  <2>1. q \in Active /\ UNCHANGED <<pc[q], mem[q], missing[q], partly[q]>>
    BY <1>3 DEF Active, Others
  <2>2. ClaimsNone(q) /\ adopted \subseteq adopted'
    BY <1>3, <2>1 DEF IInv, NoneClaimed
  <2>3. QED
    BY <2>1, <2>2 DEF ClaimsNone, AboutToAdopt
<1>4. QED
  BY <1>1, <1>2, <1>3 DEF NoneClaimed, Mine, Kept

(* The same where nothing is adopted either.                               *)
LEMMA OneMovesOnly ==
  ASSUME IInv, NEW p \in Invocations, UNCHANGED <<users, adopted>>, Others(p),
         Mine \cap HostPackages \subseteq there', Mine \cap PackagesOf(file'.installed) = {},
         p \in Active' => ClaimsNone(p)',
         pc'[p] \notin SetupPCs => missing'[p] = {}
  PROVE  Kept'
BY OneMoves DEF Mine

(* Whoever leaves claims nothing.                                          *)
LEMMA LeaveClaims ==
  ASSUME IInv, NEW p \in Invocations, Leave(p)
  PROVE  Others(p) /\ p \notin Active' /\ missing'[p] = {}
BY DEF Leave, Others, Active, Ended, IInv, TypeOK

(* Whoever saves and goes on claims what it did, and adopts what it said   *)
(* it would.                                                               *)
LEMMA SaveClaims ==
  ASSUME IInv, NEW p \in Active, NEW to \in SetupPCs \ {"installed", "installRuntime"}, NEW m,
         Save(p, pc[p], to, m), m.installed = mem[p].installed,
         UNCHANGED <<there, users, missing, partly>>,
         adopted' = adopted \cup AboutToAdopt(p)
  PROVE  Kept'
<1>1. p \in Invocations /\ ClaimsNone(p)
  BY DEF Active, IInv, NoneClaimed
<1>2. mem'[p] = m /\ file' = m /\ pc'[p] = to /\ Others(p)
  BY <1>1 DEF Save, Goto, Others, IInv, TypeOK
<1>3. Mine' \cap PackagesOf(m.installed) = {}
  BY <1>1 DEF ClaimsNone, Mine
<1>4. ClaimsNone(p)'
  BY <1>1, <1>2, <1>3 DEF ClaimsNone, Mine
<1>5. Mine' \cap HostPackages \subseteq there'
  BY DEF IInv, UsersPackagesKept, Mine
<1>6. QED
  BY <1>1, <1>2, <1>3, <1>4, <1>5, OneMoves

(* A move that changes neither packages, file nor claims.                  *)
LEMMA GotoClaims ==
  ASSUME IInv, NEW p \in Active, NEW from, NEW to, Goto(p, from, to),
         UNCHANGED <<file, mem, missing, partly, users, adopted>>,
         Mine \cap HostPackages \subseteq there',
         from # "installed", to = "installRuntime" => users \cap Runtimes = {},
         from \in SetupPCs => to \in SetupPCs
  PROVE  Kept'
<1>1. p \in Invocations /\ ClaimsNone(p)
  BY DEF Active, IInv, NoneClaimed
<1>2. pc[p] = from /\ pc'[p] = to /\ Others(p)
  BY <1>1 DEF Goto, Others, IInv, TypeOK
<1>3. ClaimsNone(p)'
  BY <1>1, <1>2 DEF ClaimsNone, AboutToAdopt
<1>4. pc'[p] \notin SetupPCs => missing'[p] = {}
  BY <1>1, <1>2 DEF IInv, MissingOnlyInSetup
<1>5. QED
  BY <1>1, <1>2, <1>3, <1>4, OneMovesOnly DEF IInv, NoneClaimed, Mine

LEMMA KeptInit == Init => Kept
BY PackagesOfSome
   DEF Init, Kept, UsersPackagesKept, NoneClaimed, MissingOnlyInSetup, Active, Ended, NewRecord

(* What the user adds then is claimed by nobody.                           *)
LEMMA UserKeeps ==
  ASSUME IInv, NEW x \in UserThings, UserAdds(x) \/ UserRemoves(x)
  PROVE  Kept'
<1>1. UNCHANGED <<file, pc, mem, missing, partly>>
  BY DEF UserAdds, UserRemoves, locals
<1>2. CASE UserAdds(x) /\ Claimed(x)
  <2>1. UNCHANGED <<users, adopted>> /\ there \subseteq there'
    BY <1>2 DEF UserAdds
  <2>2. QED
    BY <1>1, <2>1
    DEF IInv, Kept, UsersPackagesKept, NoneClaimed, ClaimsNone, AboutToAdopt, MissingOnlyInSetup, Active
<1>3. CASE UserAdds(x) /\ ~Claimed(x)
  <2>1. Active = {} /\ x \notin PackagesOf(file.installed) /\ Active' = Active
    BY <1>1, <1>3 DEF Claimed, Active
  <2>2. users' = users \cup {x} /\ adopted' = adopted \ {x} /\ there' = there \cup {x}
    BY <1>3 DEF UserAdds
  <2>3. QED
    BY <1>1, <2>1, <2>2 DEF IInv, Kept, UsersPackagesKept, NoneClaimed, MissingOnlyInSetup
<1>4. CASE UserRemoves(x)
  <2>1. there' = there \ {x} /\ users' = users \ {x} /\ adopted' = adopted \ {x}
    BY <1>4 DEF UserRemoves
  <2>2. UsersPackagesKept' /\ MissingOnlyInSetup'
    BY <1>1, <2>1 DEF IInv, UsersPackagesKept, MissingOnlyInSetup
  <2>3. NoneClaimed'
    BY <1>1, <2>1 DEF IInv, NoneClaimed, ClaimsNone, AboutToAdopt, Active
  <2>4. QED
    BY <2>2, <2>3 DEF Kept
<1>5. QED
  BY <1>2, <1>3, <1>4

(* An installation installs, and claims, what is not the user's or is      *)
(* about to be adopted.                                                    *)
LEMMA InstallKeeps ==
  ASSUME IInv, NEW p \in Active, NEW new, NEW from, NEW to \in SetupPCs \ {"installRuntime"},
         Install(p, new, from, to), from # "installed",
         Mine \cap PackagesOf(new) \subseteq (IF to = "installed" THEN partly[p] ELSE {})
  PROVE  Kept'
<1>1. p \in Invocations /\ ClaimsNone(p)
  BY DEF Active, IInv, NoneClaimed
<1>2. Mine \cap HostPackages \subseteq there' /\ UNCHANGED <<users, adopted, file>>
  BY DEF Install, IInv, UsersPackagesKept, Mine
<1>3. CASE Leave(p)
  BY <1>1, <1>2, <1>3, LeaveClaims, OneMovesOnly DEF IInv, NoneClaimed, Mine
<1>4. CASE /\ Goto(p, from, to) /\ mem' = [mem EXCEPT ![p].installed = @ \cup new]
           /\ UNCHANGED locals
  <2>1. mem' = [mem EXCEPT ![p] = [mem[p] EXCEPT !.installed = @ \cup new]]
    BY <1>1, <1>4 DEF IInv, TypeOK
  <2>2. PackagesOf(mem'[p].installed) = PackagesOf(mem[p].installed) \cup PackagesOf(new)
    <3>1. mem'[p].installed = mem[p].installed \cup new
      BY <1>1, <2>1 DEF IInv, TypeOK, Record
    <3>2. QED
      BY <3>1, PackagesOfSome
  <2>3. /\ pc[p] = from /\ pc'[p] = to /\ missing' = missing /\ partly' = partly /\ Others(p)
    BY <1>1, <1>4, <2>1 DEF Goto, locals, Others, IInv, TypeOK
  <2>4. Mine \cap PackagesOf(mem[p].installed) = {}
    BY <1>1, <2>3 DEF ClaimsNone, AboutToAdopt, Mine
  <2>5. ClaimsNone(p)'
    BY <1>1, <1>2, <2>2, <2>3, <2>4 DEF ClaimsNone, AboutToAdopt, Mine
  <2>6. QED
    BY <1>1, <1>2, <2>3, <2>5, OneMovesOnly DEF IInv, NoneClaimed, Mine
<1>5. QED
  BY <1>3, <1>4 DEF Install

LEMMA SetupKeeps ==
  ASSUME IInv, NEW p \in Invocations, SetupStep(p)
  PROVE  Kept'
<1>1. TypeOK /\ mem[p] \in Record
  BY DEF IInv, TypeOK
<1>2. CASE SetupLoads(p)
  <2>1. /\ pc'[p] = "checked" /\ missing'[p] = Required \ Present
        /\ partly'[p] = users \cap PackagesOf({d \in Required : ~Complete(d)})
        /\ Others(p) /\ UNCHANGED <<there, file, users, adopted>>
    BY <1>1, <1>2 DEF SetupLoads, Begin, Others, host, TypeOK
  <2>2. mem'[p].installed = file.installed
    BY <1>1, <1>2 DEF SetupLoads, Begin, TypeOK, Record
  <2>3. users \cap PackagesOf(missing'[p]) \subseteq partly'[p]
    <3>1. Required \ Present = {d \in Required : ~Complete(d)}
      BY DEF Present
    <3>2. QED
      BY <2>1, <3>1
  <2>4. ClaimsNone(p)'
    BY <2>1, <2>2, <2>3 DEF ClaimsNone, AboutToAdopt, IInv, NoneClaimed
  <2>5. QED
    BY <2>1, <2>4, OneMovesOnly DEF IInv, UsersPackagesKept, NoneClaimed, Mine, SetupPCs
<1>3. ASSUME ~SetupLoads(p) PROVE p \in Active
  BY <1>3 DEF SetupStep, InstallMissing, Install, SaveInstalled, SetupPasses, ChooseRuntime,
              NoRuntime, InstallRuntime, SaveRuntime, ImagePresent, ImageAbsent, Pull, PullFails,
              PrepareShim, RenameShim, SaveShim, Save, Goto, Active, Ended
<1>4. CASE p \in Active /\ (InstallMissing(p) \/ InstallRuntime(p))
  <2>1. ClaimsNone(p)
    BY <1>4 DEF IInv, NoneClaimed
  <2>2. CASE InstallMissing(p)
    <3>1. Install(p, missing[p], "checked", "installed")
      BY <2>2 DEF InstallMissing
    <3>2. Mine \cap PackagesOf(missing[p]) \subseteq partly[p]
      BY <2>1 DEF ClaimsNone, Mine
    <3>3. QED
      BY <1>4, <3>1, <3>2, InstallKeeps DEF SetupPCs
  <2>3. CASE InstallRuntime(p)
    <3> DEFINE rt == IF prefer[p] = "none" THEN "docker" ELSE prefer[p]
    <3>1. rt \in Runtimes
      BY <1>1, PreferenceAssumption DEF TypeOK, Runtimes
    <3>2. pc[p] = "installRuntime"
      BY <2>3 DEF InstallRuntime, Install, Goto
    <3>3. Mine \cap PackagesOf({rt}) = {}
      BY <2>1, <3>1, <3>2, PackagesOfSome DEF ClaimsNone, Mine
    <3>4. Install(p, {rt}, "installRuntime", "runtimeInstalled")
      BY <2>3 DEF InstallRuntime
    <3> HIDE DEF rt
    <3>5. QED
      BY <1>4, <3>3, <3>4, InstallKeeps DEF SetupPCs
  <2>4. QED
    BY <1>4, <2>2, <2>3
<1>5. CASE p \in Active /\ (SaveInstalled(p) \/ SetupPasses(p) \/ SaveRuntime(p))
  <2>1. UNCHANGED <<there, users, missing, partly>>
    BY <1>5 DEF SaveInstalled, SetupPasses, SaveRuntime, host, locals, hist
  <2>2. [mem[p] EXCEPT !.passed = TRUE].installed = mem[p].installed
    BY <1>1 DEF Record
  <2>3. adopted' = adopted \cup AboutToAdopt(p)
    BY <1>5 DEF SaveInstalled, SetupPasses, SaveRuntime, Save, Goto, hist, AboutToAdopt
  <2>4. PICK to \in SetupPCs \ {"installed", "installRuntime"}, m \in Record :
          Save(p, pc[p], to, m) /\ m.installed = mem[p].installed
    BY <1>1, <1>5, <2>2, RecordFacts DEF SaveInstalled, SetupPasses, SaveRuntime, Save, Goto, SetupPCs
  <2>5. QED
    BY <1>5, <2>1, <2>3, <2>4, SaveClaims
<1>6. ASSUME p \in Active, NEW rt \in Runtimes, ChooseRuntime(p, rt) PROVE Kept'
  <2> DEFINE kept == IF rt \in mem[p].installed THEN mem[p].preExisting
                     ELSE mem[p].preExisting \cup {rt}
             m == [mem[p] EXCEPT !.runtime = rt, !.preExisting = kept]
  <2>1. m.installed = mem[p].installed
    BY <1>1 DEF Record
  <2>2. Save(p, pc[p], "image", m)
    BY <1>1, <1>6 DEF ChooseRuntime, Record
  <2>3. UNCHANGED <<there, users, missing, partly, adopted>>
    BY <1>6 DEF ChooseRuntime, host, locals
  <2>4. AboutToAdopt(p) = {}
    BY <1>6 DEF ChooseRuntime, AboutToAdopt
  <2> HIDE DEF m
  <2>5. QED
    BY <1>6, <2>1, <2>2, <2>3, <2>4, SaveClaims DEF SetupPCs
<1>7. CASE p \in Active /\ (ImagePresent(p) \/ ImageAbsent(p))
  <2>1. UNCHANGED <<there, users, missing, partly, adopted>>
    BY <1>7 DEF ImagePresent, ImageAbsent, host, locals, hist
  <2>2. [mem[p] EXCEPT !.pulled = TRUE].installed = mem[p].installed
    BY <1>1 DEF Record
  <2>3. AboutToAdopt(p) = {}
    BY <1>7 DEF ImagePresent, ImageAbsent, Save, Goto, AboutToAdopt
  <2>4. PICK to \in SetupPCs \ {"installed", "installRuntime"}, m \in Record :
          Save(p, pc[p], to, m) /\ m.installed = mem[p].installed
    BY <1>1, <1>7, <2>2, RecordFacts DEF ImagePresent, RecordPresent, ImageAbsent, RecordPull, Save, Goto, SetupPCs
  <2>5. QED
    BY <1>7, <2>1, <2>3, <2>4, SaveClaims
<1>8. CASE p \in Active /\ (NoRuntime(p) \/ Pull(p) \/ PrepareShim(p) \/ RenameShim(p))
  <2>1. PICK from \in SetupPCs \ {"installed"}, to \in SetupPCs :
          /\ Goto(p, from, to)
          /\ to = "installRuntime" => Runtimes \cap there = {}
    BY <1>8 DEF NoRuntime, Pull, PrepareShim, RenameShim, SetupPCs
  <2>2. UNCHANGED <<file, mem, missing, partly, users, adopted>> /\ there \subseteq there'
    BY <1>8 DEF NoRuntime, Pull, PrepareShim, RenameShim, host, locals, hist
  <2>3. to = "installRuntime" => users \cap Runtimes = {}
    <3>1. Runtimes \subseteq HostPackages /\ adopted \cap Runtimes = {}
      BY <1>1, PackageAssumption DEF HostPackages, TypeOK
    <3>2. QED
      BY <2>1, <3>1 DEF IInv, UsersPackagesKept
  <2>4. QED
    BY <1>8, <2>1, <2>2, <2>3, GotoClaims DEF IInv, UsersPackagesKept, Mine
<1>9. CASE p \in Active /\ (PullFails(p) \/ SaveShim(p))
  <2>1. /\ Leave(p) /\ UNCHANGED <<there, users, adopted>> /\ pc[p] # "installed"
        /\ file'.installed = mem[p].installed
    BY <1>1, <1>9 DEF PullFails, SaveShim, host, hist, Record
  <2>2. Mine \cap PackagesOf(file'.installed) = {}
    BY <1>9, <2>1 DEF IInv, NoneClaimed, ClaimsNone, AboutToAdopt, Mine
  <2>3. QED
    BY <2>1, <2>2, LeaveClaims, OneMovesOnly DEF IInv, UsersPackagesKept, Mine
<1>10. QED
  BY <1>2, <1>3, <1>4, <1>5, <1>6, <1>7, <1>8, <1>9 DEF SetupStep

LEMMA CleanupKeeps ==
  ASSUME IInv, NEW p \in Invocations, CleanupStep(p)
  PROVE  Kept'
<1>1. TypeOK
  BY DEF IInv
<1>2. CASE CleanupLoads(p)
  <2>1. /\ pc'[p] = "rmShim" /\ mem'[p] = file /\ missing'[p] = missing[p]
        /\ Others(p) /\ UNCHANGED <<there, file, users, adopted>>
    BY <1>1, <1>2 DEF CleanupLoads, Begin, Others, host, TypeOK
  <2>2. missing[p] = {}
    BY <1>2 DEF CleanupLoads, Begin, Ended, SetupPCs, IInv, MissingOnlyInSetup
  <2>3. ClaimsNone(p)'
    BY <2>1, <2>2, PackagesOfSome DEF ClaimsNone, AboutToAdopt, IInv, NoneClaimed
  <2>4. QED
    BY <2>1, <2>2, <2>3, OneMovesOnly DEF IInv, UsersPackagesKept, NoneClaimed, Mine
<1>3. ASSUME ~CleanupLoads(p) PROVE p \in Active
  BY <1>3 DEF CleanupStep, RemoveShim, RemoveShimDir, RemoveImage, Uninstall, RemoveState,
              Goto, Active, Ended
<1>4. CASE p \in Active /\ (RemoveShim(p) \/ RemoveShimDir(p) \/ RemoveImage(p))
  <2>1. PICK from \in CleanupPCs, to \in CleanupPCs : Goto(p, from, to)
    BY <1>4 DEF RemoveShim, RemoveShimDir, RemoveImage, CleanupPCs
  <2>2. UNCHANGED <<file, mem, missing, partly, users, adopted>>
    BY <1>4 DEF RemoveShim, RemoveShimDir, RemoveImage, hist
  <2>3. there \ Images \subseteq there'
    <3>1. CASE RemoveShim(p) \/ RemoveShimDir(p)
      BY <3>1 DEF RemoveShim, RemoveShimDir
    <3>2. CASE RemoveImage(p)
      <4>1. Image(mem[p].runtime) \in Images
        BY DEF Image, Images, Runtimes
      <4>2. there \ {Image(mem[p].runtime)} \subseteq there'
        BY <3>2 DEF RemoveImage, Astray, Failed
      <4>3. QED
        BY <4>1, <4>2
    <3>3. QED
      BY <1>4, <3>1, <3>2
  <2>4. Mine \cap HostPackages \subseteq there'
    BY <2>3, PackagesAreNoImages DEF IInv, UsersPackagesKept, Mine
  <2>5. to # "installRuntime" /\ from \notin SetupPCs /\ from # "installed"
    BY DEF CleanupPCs, SetupPCs
  <2>6. QED
    BY <1>4, <2>1, <2>2, <2>4, <2>5, GotoClaims
<1>5. CASE p \in Active /\ Uninstall(p)
  <2>1. ClaimsNone(p) /\ Mine \cap PackagesOf(file.installed) = {} /\ pc[p] = "uninstall"
    BY <1>5 DEF IInv, NoneClaimed, Mine, Uninstall, Goto
  <2>2. Mine \cap PackagesOf(DependenciesToRemove(mem[p])) = {}
    BY <2>1, PackagesOfSome DEF ClaimsNone, AboutToAdopt, Mine, DependenciesToRemove
  <2>3. /\ there \ PackagesOf(DependenciesToRemove(mem[p])) \subseteq there'
        /\ UNCHANGED <<file, users, adopted>>
    BY <1>5 DEF Uninstall
  <2>4. Mine \cap HostPackages \subseteq there'
    BY <2>2, <2>3 DEF IInv, UsersPackagesKept, Mine
  <2>5. CASE Leave(p)
    BY <2>1, <2>3, <2>4, <2>5, LeaveClaims, OneMovesOnly
  <2>6. CASE Goto(p, "uninstall", "rmState") /\ UNCHANGED <<mem, locals>>
    BY <1>5, <2>3, <2>4, <2>6, GotoClaims DEF locals, SetupPCs
  <2>7. QED
    BY <1>5, <2>5, <2>6 DEF Uninstall
<1>6. CASE p \in Active /\ RemoveState(p)
  <2>1. /\ UNCHANGED <<there, users>>
        /\ PackagesOf(file'.installed) = {}
    BY <1>6, PackagesOfSome DEF RemoveState, host, NewRecord
  <2>2. Others(p) /\ p \notin Active' /\ missing'[p] = {}
    <3>1. CASE Leave(p)
      BY <3>1, LeaveClaims
    <3>2. CASE Goto(p, "rmState", "complete") /\ UNCHANGED <<mem, locals>>
      <4>1. Others(p) /\ p \notin Active'
        BY <1>1, <3>2 DEF Goto, locals, Others, TypeOK, Active, Ended
      <4>2. QED
        BY <3>2, <4>1 DEF Goto, locals, IInv, MissingOnlyInSetup, SetupPCs
    <3>3. QED
      BY <1>6, <3>1, <3>2 DEF RemoveState
  <2>3. adopted \subseteq adopted' \/ Active' = {}
    BY <1>6, <2>2 DEF RemoveState, Active, Others
  <2>4. Mine' \cap HostPackages \subseteq there'
    BY <1>6, <2>1 DEF RemoveState, IInv, UsersPackagesKept, Mine
  <2>5. QED
    BY <2>1, <2>2, <2>3, <2>4, OneMoves
<1>7. QED
  BY <1>2, <1>3, <1>4, <1>5, <1>6 DEF CleanupStep

LEMMA KeptStep == IInv /\ [Next]_vars => Kept'
<1> SUFFICES ASSUME IInv, [Next]_vars PROVE Kept'
  OBVIOUS
<1>1. CASE UNCHANGED vars
  BY <1>1 DEF vars, host, locals, hist, IInv, Kept, UsersPackagesKept, NoneClaimed,
              ClaimsNone, AboutToAdopt, MissingOnlyInSetup, Active
<1>2. ASSUME NEW x \in UserThings, UserAdds(x) \/ UserRemoves(x) PROVE Kept'
  BY <1>2, UserKeeps
<1>3. CASE UserWritesShim \/ UserRemovesShim
  <2>1. UNCHANGED <<there, file, pc, mem, missing, partly, users, adopted>>
    BY <1>3 DEF UserWritesShim, UserRemovesShim, locals, hist
  <2>2. QED
    BY <2>1 DEF IInv, Kept, UsersPackagesKept, NoneClaimed, ClaimsNone,
                AboutToAdopt, MissingOnlyInSetup, Active
<1>4. ASSUME NEW p \in Invocations, Abandon(p) PROVE Kept'
  BY <1>4, LeaveClaims, OneMovesOnly
  DEF Abandon, host, hist, IInv, UsersPackagesKept, NoneClaimed, Mine
<1>5. QED
  BY <1>1, <1>2, <1>3, <1>4, SetupKeeps, CleanupKeeps DEF Next

(* A package of the user's is claimed by no record and by no setup at work *)
(* unless it was adopted, or is about to be, with the rest of a dependency *)
(* that was incomplete -- for any dependencies, any packages they need and *)
(* are mapped to, and any number of invocations at a time.                 *)
THEOREM InvCorrect == Spec => []IInv
<1>1. Init => IInv
  BY TypeInit, KeptInit DEF IInv, Kept
<1>2. IInv /\ [Next]_vars => IInv'
  BY TypeStep, KeptStep DEF IInv, Kept
<1>3. QED
  BY <1>1, <1>2, PTL DEF Spec

(* Hence cleanup, half-way failures, kills and overlapping invocations     *)
(* included, uninstalls none of the user's but the adopted.                *)
THEOREM UsersPackagesCorrect == Spec => []UsersPackagesKept
<1>1. IInv => UsersPackagesKept
  BY DEF IInv
<1>2. QED
  BY <1>1, InvCorrect, PTL

-----------------------------------------------------------------------------
(* The images                                                              *)

(* What kairos-lab put there and has not taken away is there.              *)
OursThere == ours \subseteq there

(* A pulled image that is on record has a runtime and is not the user's.   *)
PulledIsOurs == file.pulled => file.runtime \in Runtimes /\ Image(file.runtime) \notin users

ImagesRight ==
  /\ PulledIsOurs
  /\ users \cap Images \subseteq there
  /\ \A rt \in Runtimes : Image(rt) \in ours => file.pulled /\ file.runtime = rt

(* An invocation remembers of the image what is on record, and where it is *)
(* says whether one of kairos-lab's can be there.                          *)
ImagesAt(p) ==
  /\ mem[p].pulled = file.pulled /\ mem[p].runtime = file.runtime
  /\ pc[p] \in {"image", "pull"} => mem[p].runtime \in Runtimes
  /\ pc[p] = "pull" => mem[p].pulled /\ ours \cap Images = {}
  /\ (pc[p] \in {"uninstall", "rmState"} /\ ~err[p]) => ours \cap Images = {}

(* Until the records go astray there is one invocation at a time.          *)
ImagesInv ==
  /\ OursThere
  /\ astray = "no" =>
       /\ ImagesRight
       /\ \A p \in Active : Active = {p} /\ ImagesAt(p)

LEMMA ImageFacts ==
  /\ Images = {Image("docker"), Image("podman")}
  /\ \A rt1, rt2 \in Runtimes : Image(rt1) = Image(rt2) => rt1 = rt2
  /\ \A rt \in Runtimes : Image(rt) \in Images
BY DEF Images, Image, Runtimes

(* The records stay astray.                                                *)
LEMMA AstrayStays ==
  ASSUME NEW reason \in {"overlapped", "switched", "misread", "unreported"}, NEW happens,
         Astray(reason, happens), astray' = "no"
  PROVE  astray = "no" /\ ~happens
BY DEF Astray

LEMMA OursThereStep == TypeOK /\ OursThere /\ [Next]_vars => OursThere'
<1> SUFFICES ASSUME TypeOK, OursThere, [Next]_vars PROVE OursThere'
  OBVIOUS
<1>1. ASSUME UNCHANGED <<there, ours>> PROVE OursThere'
  BY <1>1 DEF OursThere
<1>2. CASE UNCHANGED vars
  BY <1>1, <1>2 DEF vars, host, hist
<1>3. ASSUME NEW x \in UserThings, UserAdds(x) \/ UserRemoves(x) PROVE OursThere'
  BY <1>3 DEF UserAdds, UserRemoves, OursThere
<1>4. CASE UserWritesShim \/ UserRemovesShim
  BY <1>1, <1>4 DEF UserWritesShim, UserRemovesShim, hist
<1>5. ASSUME NEW p \in Invocations, Abandon(p) PROVE OursThere'
  BY <1>1, <1>5 DEF Abandon, host, hist
<1>6. ASSUME NEW p \in Invocations, SetupStep(p) PROVE OursThere'
  <2>1. ASSUME NEW new, NEW from, NEW to, Install(p, new, from, to) PROVE OursThere'
    BY <2>1 DEF Install, OursThere
  <2>2. CASE InstallMissing(p) \/ InstallRuntime(p)
    BY <2>1, <2>2 DEF InstallMissing, InstallRuntime
  <2>3. CASE Pull(p)
    BY <2>3 DEF Pull, OursThere
  <2>4. CASE SetupLoads(p) \/ SaveInstalled(p) \/ SetupPasses(p) \/ NoRuntime(p) \/ SaveRuntime(p)
    BY <1>1, <2>4
    DEF SetupLoads, SaveInstalled, SetupPasses, NoRuntime, SaveRuntime, host, hist
  <2>5. CASE \E rt \in Runtimes : ChooseRuntime(p, rt)
    BY <1>1, <2>5 DEF ChooseRuntime, host
  <2>6. CASE ImagePresent(p) \/ ImageAbsent(p) \/ PullFails(p)
    BY <1>1, <2>6 DEF ImagePresent, ImageAbsent, PullFails, host, hist
  <2>7. CASE PrepareShim(p) \/ RenameShim(p) \/ SaveShim(p)
    BY <1>1, <2>7 DEF PrepareShim, RenameShim, SaveShim, host, hist
  <2> QED
    BY <1>6, <2>2, <2>3, <2>4, <2>5, <2>6, <2>7 DEF SetupStep
<1>7. ASSUME NEW p \in Invocations, CleanupStep(p) PROVE OursThere'
  <2>1. CASE CleanupLoads(p) \/ RemoveShim(p) \/ RemoveShimDir(p)
    BY <1>1, <2>1 DEF CleanupLoads, RemoveShim, RemoveShimDir, host, hist
  <2>2. CASE RemoveImage(p)
    BY <2>2 DEF RemoveImage, OursThere
  <2>3. CASE Uninstall(p)
    BY <2>3 DEF Uninstall, OursThere
  <2>4. CASE RemoveState(p)
    BY <2>4 DEF RemoveState, host, OursThere
  <2> QED
    BY <1>7, <2>1, <2>2, <2>3, <2>4 DEF CleanupStep
<1> QED
  BY <1>2, <1>3, <1>4, <1>5, <1>6, <1>7 DEF Next

(* While the records are right, a step of an invocation leaves it the only *)
(* one.                                                                    *)
ImagesKept(p) == ImagesRight' /\ (p \in Active' => ImagesAt(p)')

(* Where nothing is said of the image,                                     *)
Elsewhere == (SetupPCs \cup CleanupPCs) \ {"image", "pull", "uninstall", "rmState"}

(* a step keeps to what the records say.                                   *)
LEMMA SameImages ==
  ASSUME TypeOK, ImagesRight, NEW p \in Invocations,
         UNCHANGED <<users>>, users \cap Images \subseteq there',
         ours' \cap Images \subseteq ours,
         file'.pulled = file.pulled, file'.runtime = file.runtime,
         p \in Active' => /\ pc'[p] \in Elsewhere
                          /\ mem'[p].pulled = file'.pulled /\ mem'[p].runtime = file'.runtime
  PROVE  ImagesKept(p)
<1>1. ImagesRight'
  BY ImageFacts DEF ImagesRight, PulledIsOurs
<1>2. p \in Active' => ImagesAt(p)'
  BY DEF ImagesAt, Elsewhere
<1> QED
  BY <1>1, <1>2 DEF ImagesKept

LEMMA LeaveIdle ==
  ASSUME TypeOK, NEW p \in Invocations, Leave(p)
  PROVE  p \in Active /\ p \notin Active'
BY DEF Leave, Active, Ended, TypeOK

LEMMA InstallImages ==
  ASSUME TypeOK, ImagesRight, NEW p \in Active, ImagesAt(p), NEW new \in SUBSET Deps,
         NEW from, NEW to \in Elsewhere, Install(p, new, from, to)
  PROVE  ImagesKept(p)
<1> p \in Invocations /\ mem[p] \in Record
  BY DEF Active, TypeOK
<1>1. /\ UNCHANGED <<users, file>> /\ there \subseteq there'
      /\ ours' \cap Images \subseteq ours
  <2>1. PackagesOf(new) \cap Images = {}
    BY PackagesOfDeps, PackagesAreNoImages
  <2>2. QED
    BY <2>1 DEF Install
<1>2. CASE Leave(p)
  BY <1>1, <1>2, LeaveIdle, SameImages DEF ImagesRight
<1>3. CASE Goto(p, from, to) /\ mem' = [mem EXCEPT ![p].installed = @ \cup new]
  <2>1. mem' = [mem EXCEPT ![p] = [mem[p] EXCEPT !.installed = @ \cup new]]
    BY <1>3 DEF TypeOK
  <2>2. mem'[p].pulled = mem[p].pulled /\ mem'[p].runtime = mem[p].runtime /\ pc'[p] = to
    BY <1>3, <2>1 DEF TypeOK, Record, Goto
  <2> QED
    BY <1>1, <2>2, SameImages DEF ImagesRight, ImagesAt
<1> QED
  BY <1>2, <1>3 DEF Install

LEMMA SaveImages ==
  ASSUME TypeOK, ImagesRight, NEW p \in Active, ImagesAt(p), NEW to \in Elsewhere, NEW m,
         Save(p, pc[p], to, m), m.pulled = mem[p].pulled, m.runtime = mem[p].runtime,
         UNCHANGED <<there, users, ours>>
  PROVE  ImagesKept(p)
<1> p \in Invocations
  BY DEF Active
<1>1. mem'[p] = m /\ file' = m /\ pc'[p] = to
  BY DEF Save, Goto, TypeOK
<1> QED
  BY <1>1, SameImages DEF ImagesRight, ImagesAt

LEMMA GotoImages ==
  ASSUME TypeOK, ImagesRight, NEW p \in Active, ImagesAt(p), NEW from, NEW to \in Elsewhere,
         Goto(p, from, to), UNCHANGED <<there, users, ours, file, mem>>
  PROVE  ImagesKept(p)
<1> p \in Invocations
  BY DEF Active
<1>1. pc'[p] = to
  BY DEF Goto, TypeOK
<1> QED
  BY <1>1, SameImages DEF ImagesRight, ImagesAt

(* The image a setup chooses, pulls or fails to pull.                      *)
LEMMA PullImages ==
  ASSUME TypeOK, OursThere, ImagesRight, astray' = "no", NEW p \in Active, ImagesAt(p),
         \/ \E rt \in Runtimes : ChooseRuntime(p, rt)
         \/ ImageAbsent(p) \/ Pull(p) \/ PullFails(p)
  PROVE  ImagesKept(p)
<1> p \in Invocations /\ mem[p] \in Record
  BY DEF Active, TypeOK
<1>1. CASE \E rt \in Runtimes : ChooseRuntime(p, rt)
  <2>1. PICK rt \in Runtimes : ChooseRuntime(p, rt)
    BY <1>1
  <2>2. ~(mem[p].pulled /\ mem[p].runtime # rt)
    BY <2>1, AstrayStays DEF ChooseRuntime
  <2>3. /\ file' = mem'[p] /\ pc'[p] = "image" /\ UNCHANGED <<there, users, ours>>
    BY <2>1 DEF ChooseRuntime, Save, Goto, TypeOK, host
  <2>4. file'.pulled = mem[p].pulled /\ file'.runtime = rt
    BY <2>1 DEF ChooseRuntime, Save, Record
  <2>5. ImagesRight'
    BY <2>2, <2>3, <2>4, ImageFacts DEF ImagesRight, PulledIsOurs, ImagesAt
  <2> QED
    BY <2>3, <2>4, <2>5 DEF ImagesKept, ImagesAt
<1>2. CASE ImageAbsent(p)
  <2>1. pc[p] = "image" /\ Image(mem[p].runtime) \notin there
    BY <1>2, AstrayStays DEF ImageAbsent, Save, Goto
  <2>2. /\ file' = mem'[p] /\ pc'[p] = "pull" /\ UNCHANGED <<there, users, ours>>
    BY <1>2 DEF ImageAbsent, Save, Goto, TypeOK, host
  <2>3. file'.pulled /\ file'.runtime = mem[p].runtime
    BY <1>2 DEF ImageAbsent, RecordPull, Save, Record
  <2>4. mem[p].runtime \in Runtimes /\ mem[p].runtime = file.runtime
    BY <2>1 DEF ImagesAt
  <2>5. Image(mem[p].runtime) \notin users
    BY <2>1, <2>4, ImageFacts DEF ImagesRight
  <2>6. \A rt \in Runtimes : Image(rt) \notin ours
    BY <2>1, <2>4 DEF ImagesRight, OursThere
  <2>7. ours \cap Images = {}
    BY <2>6 DEF Images
  <2>8. ImagesRight'
    BY <2>2, <2>3, <2>4, <2>5, <2>6 DEF ImagesRight, PulledIsOurs
  <2> QED
    BY <2>2, <2>3, <2>4, <2>7, <2>8 DEF ImagesKept, ImagesAt
<1>3. CASE Pull(p)
  <2>1. pc[p] = "pull" /\ pc'[p] = "shim" /\ mem' = mem /\ file' = file /\ users' = users
    BY <1>3 DEF Pull, Goto, TypeOK
  <2>2. /\ mem[p].runtime \in Runtimes /\ mem[p].pulled /\ ours \cap Images = {}
        /\ file.pulled /\ file.runtime = mem[p].runtime
    BY <2>1 DEF ImagesAt
  <2>3. there \subseteq there' /\ ours' \subseteq ours \cup {Image(mem[p].runtime)}
    BY <1>3 DEF Pull
  <2>4. ImagesRight'
    BY <2>1, <2>2, <2>3, ImageFacts DEF ImagesRight, PulledIsOurs
  <2> QED
    BY <2>1, <2>2, <2>4 DEF ImagesKept, ImagesAt
<1>4. CASE PullFails(p)
  <2>1. p \notin Active' /\ ours \cap Images = {} /\ UNCHANGED <<there, users, ours>>
    BY <1>4, LeaveIdle DEF PullFails, ImagesAt, host, hist
  <2>2. file'.pulled = FALSE
    BY <1>4 DEF PullFails, Record
  <2>3. ImagesRight'
    BY <2>1, <2>2, ImageFacts DEF ImagesRight, PulledIsOurs
  <2> QED
    BY <2>1, <2>3 DEF ImagesKept
<1> QED
  BY <1>1, <1>2, <1>3, <1>4

LEMMA SetupImages ==
  ASSUME TypeOK, OursThere, ImagesRight, astray' = "no", NEW p \in Invocations, SetupStep(p),
         p \in Active => ImagesAt(p)
  PROVE  ImagesKept(p)
<1> mem[p] \in Record /\ file \in Record
  BY DEF TypeOK
<1> {"checked", "installed", "ready", "auroraboot", "installRuntime", "runtimeInstalled",
     "redetect", "shim", "rename", "shimmed"} \subseteq Elsewhere
  BY DEF Elsewhere, SetupPCs
<1>1. CASE SetupLoads(p)
  <2>1. /\ pc'[p] = "checked" /\ UNCHANGED <<there, users, ours, file>>
    BY <1>1 DEF SetupLoads, Begin, TypeOK, host
  <2>2. mem'[p].pulled = file.pulled /\ mem'[p].runtime = file.runtime
    BY <1>1 DEF SetupLoads, Begin, TypeOK, Record
  <2> QED
    BY <2>1, <2>2, SameImages DEF ImagesRight
<1>2. CASE ~SetupLoads(p)
  <2>0. p \in Active /\ ImagesAt(p)
    BY <1>2 DEF SetupStep, InstallMissing, Install, SaveInstalled, SetupPasses, ChooseRuntime,
                NoRuntime, InstallRuntime, SaveRuntime, ImagePresent, ImageAbsent, Pull, PullFails,
                PrepareShim, RenameShim, SaveShim, Save, Goto, Active, Ended
  <2>1. CASE InstallMissing(p) \/ InstallRuntime(p)
    <3>1. missing[p] \in SUBSET Deps
      BY DEF TypeOK, Deps
    <3>2. {IF prefer[p] = "none" THEN "docker" ELSE prefer[p]} \in SUBSET Deps
      BY PreferenceAssumption DEF TypeOK, Deps, Runtimes
    <3> QED
      BY <2>0, <2>1, <3>1, <3>2, InstallImages DEF InstallMissing, InstallRuntime
  <2>2. CASE SaveInstalled(p) \/ SaveRuntime(p) \/ ImagePresent(p)
    <3>1. PICK to \in Elsewhere : Save(p, pc[p], to, mem[p])
      BY <2>2 DEF SaveInstalled, SaveRuntime, ImagePresent, RecordPresent, Save, Goto
    <3>2. UNCHANGED <<there, users, ours>>
      BY <2>2 DEF SaveInstalled, SaveRuntime, ImagePresent, host, hist
    <3> QED
      BY <2>0, <3>1, <3>2, SaveImages
  <2>3. CASE SetupPasses(p)
    <3>1. /\ [mem[p] EXCEPT !.passed = TRUE].pulled = mem[p].pulled
          /\ [mem[p] EXCEPT !.passed = TRUE].runtime = mem[p].runtime
      BY DEF Record
    <3>2. /\ Save(p, pc[p], "auroraboot", [mem[p] EXCEPT !.passed = TRUE])
          /\ UNCHANGED <<there, users, ours>>
      BY <2>3 DEF SetupPasses, host, hist
    <3> QED
      BY <2>0, <3>1, <3>2, SaveImages
  <2>4. CASE (\E rt \in Runtimes : ChooseRuntime(p, rt)) \/ ImageAbsent(p) \/ Pull(p) \/ PullFails(p)
    BY <2>0, <2>4, PullImages
  <2>5. CASE NoRuntime(p) \/ PrepareShim(p) \/ RenameShim(p)
    BY <2>0, <2>5, GotoImages DEF NoRuntime, PrepareShim, RenameShim, host, hist
  <2>6. CASE SaveShim(p)
    <3>1. Leave(p) /\ UNCHANGED <<there, users, ours>>
      BY <2>6 DEF SaveShim, host, hist
    <3>2. file'.pulled = file.pulled /\ file'.runtime = file.runtime
      BY <2>0, <2>6 DEF SaveShim, ImagesAt, Record
    <3> QED
      BY <3>1, <3>2, LeaveIdle, SameImages DEF ImagesRight
  <2> QED
    BY <1>2, <2>1, <2>2, <2>3, <2>4, <2>5, <2>6 DEF SetupStep
<1> QED
  BY <1>1, <1>2

LEMMA CleanupImages ==
  ASSUME TypeOK, OursThere, ImagesRight, astray' = "no", NEW p \in Invocations, CleanupStep(p),
         p \in Active => ImagesAt(p)
  PROVE  ImagesKept(p)
<1> mem[p] \in Record /\ file \in Record
  BY DEF TypeOK
<1> {"rmShim", "rmDir", "rmImage"} \subseteq Elsewhere
  BY DEF Elsewhere, CleanupPCs
<1>1. CASE CleanupLoads(p)
  <2>1. pc'[p] = "rmShim" /\ mem'[p] = file /\ UNCHANGED <<there, users, ours, file>>
    BY <1>1 DEF CleanupLoads, Begin, TypeOK, host
  <2> QED
    BY <2>1, SameImages DEF ImagesRight
<1>2. CASE ~CleanupLoads(p)
  <2>0. p \in Active /\ ImagesAt(p)
    BY <1>2 DEF CleanupStep, RemoveShim, RemoveShimDir, RemoveImage, Uninstall, RemoveState,
                Goto, Active, Ended
  <2>1. CASE RemoveShim(p) \/ RemoveShimDir(p)
    BY <2>0, <2>1, GotoImages DEF RemoveShim, RemoveShimDir, hist
  <2>2. CASE RemoveImage(p)
    <3> DEFINE image == Image(mem[p].runtime)
    <3>1. /\ pc'[p] = "uninstall" /\ UNCHANGED <<users, file, mem>>
          /\ there \ {image} \subseteq there' /\ ours' \subseteq ours
          /\ ~mem[p].pulled => UNCHANGED there
      BY <2>2 DEF RemoveImage, Goto, TypeOK, Failed
    <3>2. mem[p].pulled => image \notin users
      BY <2>0 DEF ImagesAt, ImagesRight, PulledIsOurs
    <3>3. users \cap Images \subseteq there'
      BY <3>1, <3>2 DEF ImagesRight
    <3>4. (\A rt \in Runtimes : Image(rt) \notin ours') \/ err'[p]
      <4>1. CASE ~mem[p].pulled
        BY <2>0, <3>1, <4>1 DEF ImagesAt, ImagesRight
      <4>2. CASE ours' = ours \ {image}
        BY <2>0, <4>2 DEF ImagesAt, ImagesRight
      <4>3. CASE mem[p].pulled /\ FALSE \in TrackedImage(mem[p].runtime)
                 /\ Astray("misread", mem[p].runtime \in there /\ image \in there)
        <5>1. mem[p].runtime \in there
          BY <4>3 DEF TrackedImage
        <5>2. image \notin there
          BY <4>3, <5>1, AstrayStays
        <5> QED
          BY <2>0, <3>1, <5>2 DEF ImagesAt, ImagesRight, OursThere
      <4>4. CASE Failed(p)
        BY <4>4 DEF Failed, TypeOK
      <4> QED
        BY <2>2, <4>1, <4>2, <4>3, <4>4 DEF RemoveImage
    <3>5. ours' \cap Images = {} \/ err'[p]
      BY <3>4 DEF Images
    <3>6. ImagesRight'
      BY <3>1, <3>3, ImageFacts DEF ImagesRight, PulledIsOurs
    <3>7. ImagesAt(p)'
      BY <2>0, <3>1, <3>5 DEF ImagesAt
    <3> QED
      BY <3>6, <3>7 DEF ImagesKept
  <2>3. CASE Uninstall(p)
    <3>1. UNCHANGED <<users, file>> /\ there \ HostPackages \subseteq there' /\ ours' \subseteq ours
      <4>1. PackagesOf(DependenciesToRemove(mem[p])) \subseteq HostPackages
        BY PackagesOfDeps DEF DependenciesToRemove, Record
      <4>2. QED
        BY <2>3, <4>1 DEF Uninstall
    <3>2. users \cap Images \subseteq there'
      BY <3>1, PackagesAreNoImages DEF ImagesRight
    <3>3. ImagesRight'
      BY <3>1, <3>2, ImageFacts DEF ImagesRight, PulledIsOurs
    <3>4. CASE Leave(p)
      BY <3>3, <3>4, LeaveIdle DEF ImagesKept
    <3>5. CASE Goto(p, "uninstall", "rmState") /\ UNCHANGED <<mem, locals>>
      <4>1. pc[p] = "uninstall" /\ pc'[p] = "rmState" /\ mem' = mem /\ err' = err
        BY <3>5 DEF Goto, TypeOK, locals
      <4>2. ImagesAt(p)'
        BY <2>0, <3>1, <4>1 DEF ImagesAt
      <4> QED
        BY <3>3, <4>2 DEF ImagesKept
    <3> QED
      BY <2>3, <3>4, <3>5 DEF Uninstall
  <2>4. CASE RemoveState(p)
    <3>1. /\ file' = NewRecord /\ UNCHANGED <<there, users>>
          /\ pc[p] = "rmState" /\ p \notin Active'
      BY <2>4, LeaveIdle DEF RemoveState, Goto, TypeOK, host, Active, Ended
    <3>2. ours' \cap Images = {}
      <4>1. CASE ~err[p]
        BY <2>0, <2>4, <3>1, <4>1 DEF RemoveState, ImagesAt
      <4>2. CASE ours' = ours \ Images
        BY <4>2
      <4>3. CASE Astray("unreported", err[p]) /\ UNCHANGED ours
        BY <4>1, <4>3, AstrayStays
      <4> QED
        BY <2>4, <4>1, <4>2, <4>3 DEF RemoveState
    <3>3. ImagesRight'
      BY <3>1, <3>2, ImageFacts DEF ImagesRight, PulledIsOurs, NewRecord
    <3> QED
      BY <3>1, <3>3 DEF ImagesKept
  <2> QED
    BY <1>2, <2>1, <2>2, <2>3, <2>4 DEF CleanupStep
<1> QED
  BY <1>1, <1>2

(* An invocation that moves while the records are right is the only one.   *)
LEMMA OneAtATime ==
  ASSUME TypeOK, ImagesInv, astray' = "no", NEW p \in Invocations,
         SetupStep(p) \/ CleanupStep(p) \/ Abandon(p)
  PROVE  astray = "no" /\ Active \subseteq {p} /\ Active' \subseteq {p}
<1>1. CASE SetupLoads(p) \/ CleanupLoads(p)
  <2>1. Astray("overlapped", Active # {}) /\ \A q \in Invocations \ {p} : pc'[q] = pc[q]
    BY <1>1 DEF SetupLoads, CleanupLoads, Begin, TypeOK
  <2>2. astray = "no" /\ Active = {}
    BY <2>1, AstrayStays
  <2> QED
    BY <2>1, <2>2 DEF Active
<1>2. CASE ~SetupLoads(p) /\ ~CleanupLoads(p)
  <2>1. p \in Active
    BY <1>2 DEF SetupStep, InstallMissing, Install, SaveInstalled, SetupPasses, ChooseRuntime,
                NoRuntime, InstallRuntime, SaveRuntime, ImagePresent, ImageAbsent, Pull, PullFails,
                PrepareShim, RenameShim, SaveShim, Save, CleanupStep, RemoveShim, RemoveShimDir,
                RemoveImage, Uninstall, RemoveState, Abandon, Leave, Goto, Active, Ended
  <2>2. astray = "no"
    <3>1. CASE UNCHANGED astray
      BY <3>1
    <3>2. CASE UNCHANGED hist
      BY <3>1, <3>2 DEF hist
    <3>3. ASSUME NEW rt \in Runtimes, ChooseRuntime(p, rt) PROVE astray = "no"
      BY <3>3, AstrayStays DEF ChooseRuntime
    <3>4. CASE ImageAbsent(p) \/ RemoveImage(p) \/ RemoveState(p)
      BY <3>4, AstrayStays DEF ImageAbsent, RemoveImage, RemoveState
    <3>5. CASE InstallMissing(p) \/ InstallRuntime(p)
      BY <3>1, <3>5 DEF InstallMissing, InstallRuntime, Install
    <3> QED
      BY <1>2, <3>1, <3>2, <3>3, <3>4, <3>5
      DEF SetupStep, SaveInstalled, SetupPasses, NoRuntime, SaveRuntime, ImagePresent, Pull,
          PullFails, PrepareShim, RenameShim, SaveShim, CleanupStep, RemoveShim, RemoveShimDir,
          Uninstall, Abandon
  <2>3. Active = {p}
    BY <2>1, <2>2 DEF ImagesInv
  <2>4. \A q \in Invocations \ {p} : pc'[q] = pc[q]
    BY <1>2 DEF SetupStep, InstallMissing, Install, SaveInstalled, SetupPasses, ChooseRuntime,
                NoRuntime, InstallRuntime, SaveRuntime, ImagePresent, ImageAbsent, Pull, PullFails,
                PrepareShim, RenameShim, SaveShim, Save, CleanupStep, RemoveShim, RemoveShimDir,
                RemoveImage, Uninstall, RemoveState, Abandon, Leave, Goto, TypeOK
  <2> QED
    BY <2>2, <2>3, <2>4 DEF Active
<1> QED
  BY <1>1, <1>2

(* The user claims no image, nor takes one that is on record.              *)
LEMMA UserImages ==
  ASSUME TypeOK, ImagesInv, astray = "no", NEW x \in UserThings, UserAdds(x) \/ UserRemoves(x)
  PROVE  ImagesRight' /\ \A p \in Active' : Active' = {p} /\ ImagesAt(p)'
<1>1. UNCHANGED <<file, pc, mem, locals>> /\ ours' \subseteq ours
  BY DEF UserAdds, UserRemoves
<1>2. Active' = Active /\ err' = err
  BY <1>1 DEF Active, locals
<1>3. ImagesRight'
  <2>1. CASE UserAdds(x)
    <3>1. CASE UNCHANGED users
      BY <1>1, <2>1, <3>1, ImageFacts DEF UserAdds, ImagesInv, ImagesRight, PulledIsOurs
    <3>2. CASE ~Claimed(x) /\ users' = users \cup {x}
      <4>1. file.pulled => x # Image(file.runtime)
        BY <3>2 DEF Claimed, ImagesInv, ImagesRight, PulledIsOurs, Runtimes
      <4> QED
        BY <1>1, <2>1, <3>2, <4>1 DEF UserAdds, ImagesInv, ImagesRight, PulledIsOurs
    <3> QED
      BY <2>1, <3>1, <3>2 DEF UserAdds
  <2>2. CASE UserRemoves(x)
    BY <1>1, <2>2 DEF UserRemoves, ImagesInv, ImagesRight, PulledIsOurs
  <2> QED
    BY <2>1, <2>2
<1>4. ASSUME NEW p \in Active PROVE ImagesAt(p)'
  BY <1>1, <1>2 DEF ImagesInv, ImagesAt
<1> QED
  BY <1>2, <1>3, <1>4 DEF ImagesInv

LEMMA ImagesStep == TypeOK /\ ImagesInv /\ [Next]_vars => ImagesInv'
<1> SUFFICES ASSUME TypeOK, ImagesInv, [Next]_vars, astray' = "no"
             PROVE  ImagesRight' /\ \A p \in Active' : Active' = {p} /\ ImagesAt(p)'
  BY OursThereStep DEF ImagesInv
<1>1. ASSUME NEW p \in Invocations, SetupStep(p) \/ CleanupStep(p) \/ Abandon(p)
      PROVE  ImagesRight' /\ \A q \in Active' : Active' = {q} /\ ImagesAt(q)'
  <2>1. astray = "no" /\ Active \subseteq {p} /\ Active' \subseteq {p}
    BY <1>1, OneAtATime
  <2>2. OursThere /\ ImagesRight /\ (p \in Active => ImagesAt(p))
    BY <2>1 DEF ImagesInv
  <2>3. CASE Abandon(p)
    <3>1. Leave(p) /\ UNCHANGED <<there, users, ours, file>>
      BY <2>3 DEF Abandon, host, hist
    <3>2. ImagesKept(p)
      BY <2>2, <3>1, LeaveIdle, SameImages DEF ImagesRight
    <3> QED
      BY <2>1, <3>2 DEF ImagesKept
  <2>4. CASE SetupStep(p) \/ CleanupStep(p)
    BY <2>1, <2>2, <2>4, SetupImages, CleanupImages DEF ImagesKept
  <2> QED
    BY <1>1, <2>3, <2>4
<1>2. ASSUME NEW x \in UserThings, UserAdds(x) \/ UserRemoves(x)
      PROVE  ImagesRight' /\ \A p \in Active' : Active' = {p} /\ ImagesAt(p)'
  <2>1. astray = "no"
    BY <1>2 DEF UserAdds, UserRemoves
  <2> QED
    BY <1>2, <2>1, UserImages
<1>3. CASE UNCHANGED vars \/ UserWritesShim \/ UserRemovesShim
  <2>1. UNCHANGED <<there, file, pc, mem, locals, users, ours, astray>>
    BY <1>3 DEF vars, host, hist, UserWritesShim, UserRemovesShim
  <2> QED
    BY <2>1 DEF ImagesInv, ImagesRight, PulledIsOurs, ImagesAt, Active, locals
<1> QED
  BY <1>1, <1>2, <1>3 DEF Next

(* Until the records go astray, they and the memory of the one invocation  *)
(* at work tell kairos-lab's image from the user's at every step.          *)
THEOREM ImagesCorrect == Spec => []ImagesInv
<1>1. Init => ImagesInv
  <2> SUFFICES ASSUME Init PROVE ImagesInv
    OBVIOUS
  <2>1. ours = {} /\ users = there /\ file.pulled = FALSE /\ Active = {}
    BY DEF Init, NewRecord, Active, Ended
  <2> QED
    BY <2>1 DEF ImagesInv, OursThere, ImagesRight, PulledIsOurs
<1> QED
  BY <1>1, ImagesStep, TypeCorrect, PTL DEF Spec

(* An image the user pulled while kairos-lab neither ran nor had it down   *)
(* as its own is kept, until the records go astray.                        *)
THEOREM UsersImagesCorrect == Spec => []UsersImagesKept
<1>1. ImagesInv => UsersImagesKept
  BY DEF ImagesInv, ImagesRight, UsersImagesKept
<1> QED
  BY <1>1, ImagesCorrect, PTL

(* An image setup pulled is in state.json until it is removed or reported. *)
THEOREM PulledImageCorrect == Spec => []PulledImageRecorded
<1>1. ImagesInv => PulledImageRecorded
  BY DEF ImagesInv, ImagesRight, PulledImageRecorded
<1> QED
  BY <1>1, ImagesCorrect, PTL

-----------------------------------------------------------------------------
(* The shim                                                                *)

(* Between a setup's look and its rename, a shim of the user's is one      *)
(* written since.                                                          *)
ShimInv == (shim = "foreign" /\ \E p \in Invocations : pc[p] = "rename") => late

(* What a step means to the shim: only a rename and a cleanup's removal    *)
(* of a managed one touch it.                                              *)
LEMMA ShimSteps ==
  ASSUME TypeOK, NEW p \in Invocations, SetupStep(p) \/ CleanupStep(p) \/ Abandon(p)
  PROVE  /\ \A q \in Invocations : pc'[q] = "rename" => pc[q] = "rename" \/ shim' # "foreign"
         /\ \/ shim' = shim /\ late' = late
            \/ shim' # "foreign" /\ (pc[p] = "rename" \/ shim = "managed")
<1>1. CASE SetupStep(p)
  <2>1. CASE InstallMissing(p) \/ InstallRuntime(p)
    BY <2>1 DEF InstallMissing, InstallRuntime, Install, Leave, Goto, TypeOK
  <2>2. CASE SetupLoads(p) \/ SaveInstalled(p) \/ SetupPasses(p) \/ SaveRuntime(p)
    BY <2>2 DEF SetupLoads, Begin, SaveInstalled, SetupPasses, SaveRuntime, Save, Goto, host, hist, TypeOK
  <2>3. CASE (\E rt \in Runtimes : ChooseRuntime(p, rt)) \/ NoRuntime(p)
    BY <2>3 DEF ChooseRuntime, NoRuntime, Save, Goto, host, hist, TypeOK
  <2>4. CASE ImagePresent(p) \/ ImageAbsent(p) \/ Pull(p) \/ PullFails(p)
    BY <2>4 DEF ImagePresent, ImageAbsent, Pull, PullFails, Save, Leave, Goto, host, hist, TypeOK
  <2>5. CASE PrepareShim(p)
    BY <2>5 DEF PrepareShim, ShimMayBeWritten, Goto, hist, TypeOK
  <2>6. CASE RenameShim(p) \/ SaveShim(p)
    BY <2>6 DEF RenameShim, SaveShim, Leave, Goto, host, hist, TypeOK
  <2> QED
    BY <1>1, <2>1, <2>2, <2>3, <2>4, <2>5, <2>6 DEF SetupStep
<1>2. CASE CleanupStep(p)
  <2>1. CASE CleanupLoads(p)
    BY <2>1 DEF CleanupLoads, Begin, host, TypeOK
  <2>2. CASE RemoveShim(p) \/ RemoveShimDir(p)
    BY <2>2 DEF RemoveShim, RemoveShimDir, Goto, hist, TypeOK
  <2>3. CASE RemoveImage(p)
    BY <2>3 DEF RemoveImage, Goto, TypeOK
  <2>4. CASE Uninstall(p)
    BY <2>4 DEF Uninstall, Leave, Goto, TypeOK
  <2>5. CASE RemoveState(p)
    BY <2>5 DEF RemoveState, Leave, Goto, host, TypeOK
  <2> QED
    BY <1>2, <2>1, <2>2, <2>3, <2>4, <2>5 DEF CleanupStep
<1>3. CASE Abandon(p)
  BY <1>3 DEF Abandon, Leave, host, hist, TypeOK
<1> QED
  BY <1>1, <1>2, <1>3

LEMMA UserShim ==
  ASSUME TypeOK,
         \/ UNCHANGED vars \/ UserWritesShim \/ UserRemovesShim
         \/ \E x \in UserThings : UserAdds(x) \/ UserRemoves(x)
  PROVE  UNCHANGED pc /\ (ShimInv => ShimInv')
<1>1. CASE UserWritesShim
  BY <1>1 DEF UserWritesShim, ShimInv
<1>2. CASE UserRemovesShim
  BY <1>2 DEF UserRemovesShim, ShimInv
<1>3. CASE UNCHANGED vars \/ \E x \in UserThings : UserAdds(x) \/ UserRemoves(x)
  <2>1. UNCHANGED <<pc, shim, late>>
    BY <1>3 DEF vars, host, hist, UserAdds, UserRemoves
  <2> QED
    BY <2>1 DEF ShimInv
<1> QED
  BY <1>1, <1>2, <1>3

(* For overlapping invocations too, neither a rename nor a removal hits a  *)
(* shim of the user's that was there at the last look.                     *)
THEOREM UsersShimCorrect == Spec => UsersShimKept
<1>1. Init => ShimInv
  BY DEF Init, ShimInv
<1>2. TypeOK /\ ShimInv /\ [Next]_vars => ShimInv'
  <2> SUFFICES ASSUME TypeOK, ShimInv, [Next]_vars PROVE ShimInv'
    OBVIOUS
  <2>1. ASSUME NEW p \in Invocations, SetupStep(p) \/ CleanupStep(p) \/ Abandon(p) PROVE ShimInv'
    BY <2>1, ShimSteps DEF ShimInv
  <2> QED
    BY <2>1, UserShim DEF Next
<1>3. TypeOK /\ ShimInv /\ [Next]_vars =>
        [(shim = "foreign" /\ shim' # "foreign") => (UNCHANGED pc \/ late)]_vars
  <2> SUFFICES ASSUME TypeOK, ShimInv, [Next]_vars, shim = "foreign", shim' # "foreign"
               PROVE  UNCHANGED pc \/ late
    OBVIOUS
  <2>1. ASSUME NEW p \in Invocations, SetupStep(p) \/ CleanupStep(p) \/ Abandon(p) PROVE late
    BY <2>1, ShimSteps DEF ShimInv
  <2> QED
    BY <2>1, UserShim DEF Next
<1> QED
  BY <1>1, <1>2, <1>3, TypeCorrect, PTL DEF Spec, UsersShimKept
=============================================================================
