------------------------- MODULE IsoDownload_proofs -------------------------
(***************************************************************************)
(* Proofs about IsoDownload, for any ISOs, contents, checksum files and    *)
(* number of invocations.                                                  *)
(***************************************************************************)
EXTENDS IsoDownload, TLAPS

USE ContentAssumption, NameAssumption

-----------------------------------------------------------------------------
(* The digest of an ISO                                                    *)

(* What is taken from a checksum file is what it says of this ISO.         *)
LEMMA ParsedIsPublished ==
  ASSUME NEW b, NEW n
  PROVE  ParseSHA256Sum(b, n) \subseteq Published(b, n)
BY DEF ParseSHA256Sum, Published

LEMMA PublishedType ==
  ASSUME NEW b \in Bodies \cup {NoBody}, NEW n
  PROVE  Published(b, n) \subseteq Contents
<1>1. CASE b \in Bodies
  <2>1. b \in Seq(Line)
    BY <1>1
  <2>2. \A i \in DOMAIN b : b[i] \in Line
    BY <2>1
  <2> QED
    BY <2>2 DEF Published, OfThis, Line
<1>2. CASE b = NoBody
  BY <1>2 DEF Published, NoBody
<1> QED
  BY <1>1, <1>2

-----------------------------------------------------------------------------
(* The invariant                                                           *)

(* A target is where its ISO's name says, whatever is listed or chosen.    *)
OnlyISOsOffered ==
  \A p \in Invocations : path[p] \in Names /\ listing[p] \subseteq Names

EverPublished == \A n \in Names : Published(sums[n], n) \subseteq ever[n]

(* A download verifies against a digest of its own ISO.                    *)
WantsPublished ==
  \A p \in Invocations :
    pc[p] \in {"fetched"} \cup Looking \cup Fetching => want[p] \in ever[name[p]]

(* What is about to be renamed was verified.                               *)
VerifiedTemps ==
  \A p \in Invocations :
    pc[p] = "verified" /\ files[p] # Absent /\ p \notin touched => files[p] = want[p]

(* What is about to be removed did not verify, unless it was replaced.     *)
StaleTargets ==
  \A p \in Invocations :
    pc[p] = "stale" /\ ~raced[p] => want[p] # Absent /\ files[name[p]] # want[p]

IInv ==
  /\ TypeOK /\ OnlyVerifiedKept /\ TempsRemoved
  /\ OnlyISOsOffered /\ EverPublished /\ WantsPublished /\ VerifiedTemps /\ StaleTargets

PC == {"idle", "listed", "chosen", "ended", "killed"} \cup Downloading

(* A step of p that moves it and nothing of the directory.                 *)
LEMMA MoveOnly ==
  ASSUME IInv, NEW p \in Invocations, NEW to \in PC, pc' = [pc EXCEPT ![p] = to],
         UNCHANGED <<sums, files, dir, name, ever, touched>>,
         want' \in [Invocations -> Contents \cup {Absent}],
         \A q \in Invocations \ {p} : want'[q] = want[q] /\ raced'[q] = raced[q],
         raced' \in [Invocations -> BOOLEAN],
         listing' \in [Invocations -> SUBSET Names], path' \in [Invocations -> Names],
         files[p] # Absent => to \in Fetching \cup {"killed"},
         to \in {"fetched"} \cup Looking \cup Fetching => want'[p] \in ever[name[p]],
         to = "verified" => files[p] = want'[p],
         to = "stale" /\ ~raced'[p] => want'[p] # Absent /\ files[name[p]] # want'[p]
  PROVE  IInv'
<1> USE DEF IInv
<1>1. TypeOK'
  BY DEF TypeOK, PC, Entries
<1>2. OnlyVerifiedKept' /\ EverPublished'
  BY DEF OnlyVerifiedKept, EverPublished
<1>3. TempsRemoved'
  BY DEF TempsRemoved, TypeOK
<1>4. OnlyISOsOffered'
  BY DEF OnlyISOsOffered
<1>5. WantsPublished'
  BY DEF WantsPublished, TypeOK
<1>6. VerifiedTemps'
  BY DEF VerifiedTemps, TypeOK
<1>7. StaleTargets'
  BY DEF StaleTargets, TypeOK
<1> QED
  BY <1>1, <1>2, <1>3, <1>4, <1>5, <1>6, <1>7

(* The values a step may leave as they are.                                *)
LEMMA Kept ==
  ASSUME IInv
  PROVE  /\ want \in [Invocations -> Contents \cup {Absent}]
         /\ raced \in [Invocations -> BOOLEAN]
         /\ listing \in [Invocations -> SUBSET Names] /\ path \in [Invocations -> Names]
BY DEF IInv, TypeOK, OnlyISOsOffered

LEMMA InitInv == Init => IInv
<1> SUFFICES ASSUME Init PROVE IInv
  OBVIOUS
<1> USE DEF Init
<1>1. (CHOOSE n \in Names : TRUE) \in Names
  OBVIOUS
<1>2. \A n \in Names : ever[n] = Published(sums[n], n) /\ ever[n] \subseteq Contents
  BY PublishedType
<1>3. ever \in [Names -> SUBSET Contents]
  <2> DEFINE E(n) == Published(sums[n], n)
  <2>1. \A n \in Names : E(n) \in SUBSET Contents
    BY <1>2
  <2> HIDE DEF E
  <2>2. [n \in Names |-> E(n)] \in [Names -> SUBSET Contents]
    BY <2>1
  <2> QED
    BY <2>2 DEF E
<1>9. TypeOK
  BY <1>1, <1>3 DEF TypeOK, Entries
<1>4. OnlyVerifiedKept /\ TempsRemoved /\ OnlyISOsOffered
  BY <1>1 DEF OnlyVerifiedKept, TempsRemoved, OnlyISOsOffered, Entries
<1>5. EverPublished /\ WantsPublished /\ VerifiedTemps /\ StaleTargets
  BY <1>2 DEF EverPublished, WantsPublished, VerifiedTemps, StaleTargets, Looking, Fetching
<1> QED
  BY <1>9, <1>4, <1>5 DEF IInv

LEMMA RemoveCachedInv ==
  ASSUME IInv, NEW p \in Invocations, RemoveCached(p)
  PROVE  IInv'
<1> USE DEF IInv, RemoveCached, Goto, own
<1>1. name[p] \in Names /\ name[p] \notin Invocations
  BY DEF TypeOK
<1>2. TypeOK'
  BY <1>1 DEF TypeOK, Entries, Downloading, Fetching
<1>3. OnlyVerifiedKept' /\ EverPublished' /\ OnlyISOsOffered'
  BY DEF OnlyVerifiedKept, EverPublished, OnlyISOsOffered, TypeOK, Entries
<1>4. TempsRemoved'
  BY <1>1 DEF TempsRemoved, TypeOK, Entries, Fetching
<1>5. WantsPublished'
  BY DEF WantsPublished, TypeOK, Looking, Fetching
<1>6. VerifiedTemps'
  BY <1>1 DEF VerifiedTemps, TypeOK, Entries
<1>7. StaleTargets'
  BY <1>1 DEF StaleTargets, TypeOK, Entries
<1> QED
  BY <1>2, <1>3, <1>4, <1>5, <1>6, <1>7

(* A step of p that moves it and writes its temporary file only.           *)
LEMMA TempOnly ==
  ASSUME IInv, NEW p \in Invocations,
         pc' \in [Invocations -> PC], \A q \in Invocations \ {p} : pc'[q] = pc[q],
         files' \in [Entries -> Data \cup {Absent}], \A e \in Entries \ {p} : files'[e] = files[e],
         touched' = touched \ {p} \/ (touched' = touched /\ pc'[p] # "verified"),
         UNCHANGED <<sums, dir, own, ever, raced>>,
         files'[p] # Absent => pc'[p] \in Fetching \cup {"killed"},
         pc'[p] \in {"fetched"} \cup Looking \cup Fetching => want[p] \in ever[name[p]],
         pc'[p] = "verified" => files'[p] = want[p],
         pc'[p] # "stale"
  PROVE  IInv'
<1> USE DEF IInv, own
<1>1. p \notin Names /\ name[p] \in Names
  BY DEF TypeOK
<1>2. TypeOK'
  BY DEF TypeOK, Entries, PC
<1>3. OnlyVerifiedKept' /\ EverPublished' /\ OnlyISOsOffered'
  BY <1>1 DEF OnlyVerifiedKept, EverPublished, OnlyISOsOffered, TypeOK, Entries
<1>4. TempsRemoved'
  BY DEF TempsRemoved, TypeOK, Entries
<1>5. WantsPublished'
  BY DEF WantsPublished, TypeOK
<1>6. VerifiedTemps'
  BY DEF VerifiedTemps, TypeOK, Entries
<1>7. StaleTargets'
  BY <1>1 DEF StaleTargets, TypeOK, Entries
<1> QED
  BY <1>2, <1>3, <1>4, <1>5, <1>6, <1>7

LEMMA RenameInv ==
  ASSUME IInv, NEW p \in Invocations, Rename(p)
  PROVE  IInv'
<1> USE DEF IInv, Rename, Goto, Temp, Replaced
<1>1. name[p] \in Names /\ name[p] \notin Invocations /\ p \notin Names
  BY DEF TypeOK
<1>2. files' = [files EXCEPT ![name[p]] = files[p], ![p] = Absent]
  OBVIOUS
<1>3. /\ files'[name[p]] = files[p] /\ files'[p] = Absent
      /\ \A e \in Entries : e # p /\ e # name[p] => files'[e] = files[e]
  BY <1>1, <1>2 DEF TypeOK, Entries
<1>4. TypeOK'
  <2>1. files' \in [Entries -> Data \cup {Absent}]
    BY <1>1, <1>2 DEF TypeOK, Entries
  <2>2. touched' \in SUBSET Entries
    BY <1>1 DEF TypeOK, Entries
  <2>3. raced' \in [Invocations -> BOOLEAN]
    BY DEF TypeOK
  <2> QED
    BY <1>1, <2>1, <2>2, <2>3 DEF TypeOK, Entries
<1>5. OnlyVerifiedKept'
  <2> SUFFICES ASSUME NEW n \in Names, files'[n] # Absent, n \notin touched'
               PROVE  files'[n] \in ever[n]
    BY DEF OnlyVerifiedKept
  <2>1. CASE n = name[p]
    <3>1. p \notin touched
      BY <2>1
    <3>2. files[p] = want[p] /\ want[p] \in ever[name[p]]
      BY <3>1 DEF VerifiedTemps, WantsPublished, Fetching
    <3> QED
      BY <1>3, <2>1, <3>2
  <2>2. CASE n # name[p]
    BY <1>1, <1>3, <2>2 DEF OnlyVerifiedKept, Entries
  <2> QED
    BY <2>1, <2>2
<1>6. TempsRemoved'
  BY <1>1, <1>3 DEF TempsRemoved, TypeOK, Entries
<1>7. OnlyISOsOffered' /\ EverPublished'
  BY <1>1 DEF OnlyISOsOffered, EverPublished
<1>8. WantsPublished'
  BY DEF WantsPublished, TypeOK, Looking, Fetching
<1>9. VerifiedTemps'
  BY <1>1, <1>3 DEF VerifiedTemps, TypeOK, Entries
<1>10. StaleTargets'
  <2> SUFFICES ASSUME NEW q \in Invocations, pc'[q] = "stale", ~raced'[q]
               PROVE  want'[q] # Absent /\ files'[name'[q]] # want'[q]
    BY DEF StaleTargets
  <2>1. pc[q] = "stale" /\ ~raced[q] /\ name[q] # name[p] /\ name[q] \in Names
    BY DEF TypeOK, Looking
  <2> QED
    BY <1>1, <1>3, <2>1 DEF StaleTargets, Entries
<1> QED
  BY <1>4, <1>5, <1>6, <1>7, <1>8, <1>9, <1>10

LEMMA UserWritesInv ==
  ASSUME IInv, NEW e \in Entries, NEW c \in Contents, UserWrites(e, c)
  PROVE  IInv'
<1> USE DEF IInv, UserWrites, own
<1>1. files' = [files EXCEPT ![e] = c] /\ touched' = touched \cup {e}
  OBVIOUS
<1>2. TypeOK'
  <2>1. files' \in [Entries -> Data \cup {Absent}]
    BY <1>1 DEF TypeOK, Data
  <2>2. raced' \in [Invocations -> BOOLEAN]
    BY DEF TypeOK, Replaced
  <2> QED
    BY <1>1, <2>1, <2>2 DEF TypeOK
<1>3. OnlyVerifiedKept' /\ OnlyISOsOffered' /\ EverPublished' /\ WantsPublished'
  BY <1>1 DEF OnlyVerifiedKept, OnlyISOsOffered, EverPublished, WantsPublished, TypeOK, Entries
<1>4. TempsRemoved' /\ VerifiedTemps'
  BY <1>1 DEF TempsRemoved, VerifiedTemps, TypeOK, Entries
<1>5. StaleTargets'
  <2> SUFFICES ASSUME NEW q \in Invocations, pc[q] = "stale", ~raced'[q]
               PROVE  want[q] # Absent /\ files'[name[q]] # want[q]
    BY DEF StaleTargets
  <2>1. ~raced[q] /\ name[q] # e /\ name[q] \in Names
    BY DEF TypeOK, Replaced, Looking, Entries
  <2> QED
    BY <1>1, <2>1 DEF StaleTargets, TypeOK, Entries
<1> QED
  BY <1>2, <1>3, <1>4, <1>5

LEMMA RepublishInv ==
  ASSUME IInv, NEW n \in Names, NEW b \in Bodies, Republish(n, b)
  PROVE  IInv'
<1> USE DEF IInv, Republish, own
<1> DEFINE P == Published(b, n)
<1>1. P \subseteq Contents
  BY PublishedType
<1>2. /\ sums' = [sums EXCEPT ![n] = b] /\ ever' = [ever EXCEPT ![n] = ever[n] \cup P]
  OBVIOUS
<1>3. EverPublished'
  BY <1>2 DEF EverPublished, TypeOK
<1> HIDE DEF P
<1>4. TypeOK'
  BY <1>1, <1>2 DEF TypeOK
<1>5. \A m \in Names : ever[m] \subseteq ever'[m]
  BY <1>2 DEF TypeOK
<1>6. OnlyVerifiedKept'
  BY <1>5 DEF OnlyVerifiedKept
<1>7. WantsPublished'
  BY <1>5 DEF WantsPublished, TypeOK
<1>8. TempsRemoved' /\ OnlyISOsOffered' /\ VerifiedTemps' /\ StaleTargets'
  BY DEF TempsRemoved, OnlyISOsOffered, VerifiedTemps, StaleTargets
<1> QED
  BY <1>3, <1>4, <1>6, <1>7, <1>8

LEMMA CleanupInv == IInv /\ Cleanup => IInv'
<1> SUFFICES ASSUME IInv, Cleanup PROVE IInv'
  OBVIOUS
<1> USE DEF IInv, Cleanup, own
<1>1. TypeOK'
  BY DEF TypeOK
<1>2. OnlyVerifiedKept' /\ OnlyISOsOffered' /\ EverPublished' /\ WantsPublished'
  BY DEF OnlyVerifiedKept, OnlyISOsOffered, EverPublished, WantsPublished, Entries
<1>3. TempsRemoved' /\ VerifiedTemps'
  BY DEF TempsRemoved, VerifiedTemps, Entries
<1>4. StaleTargets'
  BY DEF StaleTargets, TypeOK, Entries
<1> QED
  BY <1>1, <1>2, <1>3, <1>4

LEMMA StepInv ==
  ASSUME IInv, NEW p \in Invocations, Step(p)
  PROVE  IInv'
<1>1. pc \in [Invocations -> PC] /\ name[p] \in Names /\ Contents \subseteq Data
  BY DEF IInv, TypeOK, PC, Data
<1> USE DEF PC, Downloading, Looking, Fetching
<1>2. CASE List(p)
  <2>1. ListDownloaded \subseteq Names
    BY DEF ListDownloaded, HasISOSuffix
  <2>2. files[p] = Absent
    BY <1>2 DEF IInv, TempsRemoved, List, Goto
  <2> QED
    BY <1>1, <1>2, <2>1, <2>2, Kept, MoveOnly DEF List, Goto, hist
<1>3. CASE Choose(p)
  <2>1. files[p] = Absent
    BY <1>3 DEF IInv, TempsRemoved, Choose, Goto
  <2>2. PICK e \in listing[p] :
          /\ pc' = [pc EXCEPT ![p] = "chosen"] /\ path' = [path EXCEPT ![p] = e]
          /\ UNCHANGED <<sums, files, dir, name, want, listing, ever, touched, raced>>
    BY <1>3 DEF Choose, Goto, hist
  <2>3. path' \in [Invocations -> Names]
    BY <2>2, Kept
  <2> QED
    BY <1>1, <2>1, <2>2, <2>3, Kept, MoveOnly
<1>4. ASSUME NEW n \in Names, Pick(p, n) PROVE IInv'
  <2>1. /\ files[p] = Absent /\ pc' = [pc EXCEPT ![p] = "picked"] /\ name' = [name EXCEPT ![p] = n]
        /\ dir' = TRUE /\ UNCHANGED <<sums, files, want, listing, path, ever, touched, raced>>
    BY <1>4 DEF IInv, TempsRemoved, Pick, hist
  <2>2. TypeOK' /\ OnlyVerifiedKept' /\ EverPublished' /\ OnlyISOsOffered'
    BY <1>4, <2>1 DEF IInv, TypeOK, OnlyVerifiedKept, EverPublished, OnlyISOsOffered
  <2>3. TempsRemoved' /\ WantsPublished' /\ VerifiedTemps' /\ StaleTargets'
    BY <2>1 DEF IInv, TypeOK, TempsRemoved, WantsPublished, VerifiedTemps, StaleTargets
  <2> QED
    BY <2>2, <2>3 DEF IInv
<1>5. CASE FetchChecksum(p)
  <2>1. files[p] = Absent
    BY <1>5 DEF IInv, TempsRemoved, FetchChecksum, Goto
  <2>2. PICK d \in ParseSHA256Sum(sums[name[p]], name[p]) :
          /\ pc' = [pc EXCEPT ![p] = "fetched"] /\ want' = [want EXCEPT ![p] = d]
          /\ UNCHANGED <<sums, files, dir, name, listing, path, ever, touched, raced>>
    BY <1>5 DEF FetchChecksum, Goto, hist
  <2>3. d \in ever[name[p]] /\ d \in Contents
    BY <1>1, ParsedIsPublished DEF IInv, EverPublished, TypeOK
  <2>4. want' \in [Invocations -> Contents \cup {Absent}] /\ want'[p] = d
        /\ \A q \in Invocations \ {p} : want'[q] = want[q]
    BY <2>2, <2>3, Kept
  <2> QED
    BY <1>1, <2>1, <2>2, <2>3, <2>4, Kept, MoveOnly
<1>6. CASE Stat(p)
  <2>1. files[p] = Absent /\ want[p] \in ever[name[p]]
    BY <1>6 DEF IInv, TempsRemoved, WantsPublished, Stat, Goto
  <2>2. PICK to \in {"getting", "checking"} :
          /\ pc' = [pc EXCEPT ![p] = to] /\ raced' = [raced EXCEPT ![p] = FALSE]
          /\ UNCHANGED <<sums, files, dir, own, ever, touched>>
    BY <1>6 DEF Stat, Goto
  <2>3. raced' \in [Invocations -> BOOLEAN] /\ \A q \in Invocations \ {p} : raced'[q] = raced[q]
    BY <2>2, Kept
  <2> QED
    BY <1>1, <2>1, <2>2, <2>3, Kept, MoveOnly DEF own
<1>7. CASE Cached(p)
  <2>1. files[p] = Absent
    BY <1>7 DEF IInv, TempsRemoved, Cached, Goto
  <2>2. path' \in [Invocations -> Names]
    BY <1>1, <1>7, Kept DEF Cached
  <2> QED
    BY <1>1, <1>7, <2>1, <2>2, Kept, MoveOnly DEF Cached, Goto, hist
<1>8. CASE NotCached(p)
  <2>1. files[p] = Absent /\ want[p] \in ever[name[p]]
    BY <1>8 DEF IInv, TempsRemoved, WantsPublished, NotCached, Goto
  <2>2. want[p] # Absent /\ files[name[p]] # want[p]
    BY <1>1, <1>8, <2>1 DEF NotCached, Verifies, Target, IInv, TypeOK
  <2> QED
    BY <1>1, <1>8, <2>1, <2>2, Kept, MoveOnly DEF NotCached, Goto, own, hist
<1>f. files \in [Entries -> Data \cup {Absent}] /\ p \in Entries /\ Partial \in Data
  BY DEF IInv, TypeOK, Entries, Data
<1>9. CASE Get(p)
  <2>1. /\ pc' = [pc EXCEPT ![p] = "copying"] /\ files' = [files EXCEPT ![p] = Partial]
        /\ UNCHANGED <<sums, dir, own, ever, touched, raced>> /\ want[p] \in ever[name[p]]
    BY <1>9 DEF Get, Goto, IInv, WantsPublished, hist
  <2>2. /\ pc' \in [Invocations -> PC] /\ pc'[p] = "copying"
        /\ \A q \in Invocations \ {p} : pc'[q] = pc[q]
    BY <1>1, <2>1
  <2>3. /\ files' \in [Entries -> Data \cup {Absent}]
        /\ \A e \in Entries \ {p} : files'[e] = files[e]
    BY <1>f, <2>1
  <2> QED
    BY <2>1, <2>2, <2>3, TempOnly
<1>10. CASE Copy(p)
  <2>1. PICK c \in Data :
          /\ pc' = [pc EXCEPT ![p] = "copied"]
          /\ files' = IF files[p] = Absent THEN files ELSE [files EXCEPT ![p] = c]
          /\ touched' = touched \ {p} /\ UNCHANGED <<sums, dir, own, ever, raced>>
    BY <1>10 DEF Copy, Goto, Temp
  <2>2. want[p] \in ever[name[p]]
    BY <1>10 DEF Copy, Goto, IInv, WantsPublished
  <2>3. /\ pc' \in [Invocations -> PC] /\ pc'[p] = "copied"
        /\ \A q \in Invocations \ {p} : pc'[q] = pc[q]
    BY <1>1, <2>1
  <2>4. /\ files' \in [Entries -> Data \cup {Absent}]
        /\ \A e \in Entries \ {p} : files'[e] = files[e]
    BY <1>f, <2>1
  <2> QED
    BY <2>1, <2>2, <2>3, <2>4, TempOnly
<1>11. CASE VerifyTemp(p)
  <2>1. /\ pc' = [pc EXCEPT ![p] = "verified"] /\ files[p] = want[p] /\ want[p] \in ever[name[p]]
        /\ UNCHANGED <<sums, files, dir, own, ever, raced>> /\ touched' = touched \ {p}
    BY <1>11 DEF VerifyTemp, Goto, Verifies, Temp, IInv, WantsPublished
  <2>2. /\ pc' \in [Invocations -> PC] /\ pc'[p] = "verified"
        /\ \A q \in Invocations \ {p} : pc'[q] = pc[q]
    BY <1>1, <2>1
  <2> QED
    BY <1>f, <2>1, <2>2, TempOnly
<1>12. CASE Returns(p)
  <2>1. /\ pc' = [pc EXCEPT ![p] = "ended"] /\ files' = [files EXCEPT ![p] = Absent]
        /\ UNCHANGED <<sums, dir, own, ever, raced>> /\ touched' = touched \ {p}
    BY <1>12 DEF Returns
  <2>2. /\ pc' \in [Invocations -> PC] /\ pc'[p] = "ended"
        /\ \A q \in Invocations \ {p} : pc'[q] = pc[q]
    BY <1>1, <2>1
  <2>3. /\ files' \in [Entries -> Data \cup {Absent}] /\ files'[p] = Absent
        /\ \A e \in Entries \ {p} : files'[e] = files[e]
    BY <1>f, <2>1
  <2> QED
    BY <2>1, <2>2, <2>3, TempOnly
<1>13. CASE Kill(p)
  <2>1. pc' = [pc EXCEPT ![p] = "killed"] /\ UNCHANGED <<sums, files, dir, own, hist>>
    BY <1>13 DEF Kill
  <2> QED
    BY <1>1, <2>1, Kept, MoveOnly DEF own, hist
<1> QED
  BY <1>2, <1>3, <1>4, <1>5, <1>6, <1>7, <1>8, <1>9, <1>10, <1>11, <1>12, <1>13,
     RemoveCachedInv, RenameInv DEF Step

LEMMA InvCorrect == Spec => []IInv
<1>1. IInv /\ [Next]_vars => IInv'
  <2>1. ASSUME IInv, UNCHANGED vars PROVE IInv'
    BY <2>1 DEF vars, own, hist, IInv, TypeOK, OnlyVerifiedKept, TempsRemoved, OnlyISOsOffered,
       EverPublished, WantsPublished, VerifiedTemps, StaleTargets
  <2> QED
    BY <2>1, StepInv, RepublishInv, UserWritesInv, CleanupInv DEF Next
<1> QED
  BY <1>1, InitInv, PTL DEF Spec

-----------------------------------------------------------------------------
(* Every variable keeps its type.                                          *)
THEOREM TypeCorrect == Spec => []TypeOK
<1>1. IInv => TypeOK
  BY DEF IInv
<1> QED
  BY <1>1, InvCorrect, PTL

(* What bears an ISO's name is a file its release published for it, unless *)
(* the user wrote it, whichever downloads overlap, fail or are killed.     *)
THEOREM OnlyVerifiedCorrect == Spec => []OnlyVerifiedKept
<1>1. IInv => OnlyVerifiedKept
  BY DEF IInv
<1> QED
  BY <1>1, InvCorrect, PTL

(* What a start settled on stays such a file, or goes.                     *)
THEOREM ChosenCorrect == Spec => []ChosenIsVerified
<1>1. IInv => ChosenIsVerified
  BY DEF IInv, OnlyISOsOffered, OnlyVerifiedKept, ChosenIsVerified
<1> QED
  BY <1>1, InvCorrect, PTL

(* Only a killed download leaves its temporary file.                       *)
THEOREM TempsCorrect == Spec => []TempsRemoved
<1>1. IInv => TempsRemoved
  BY DEF IInv
<1> QED
  BY <1>1, InvCorrect, PTL

(* An ISO that is what the release publishes is removed only by cleanup,   *)
(* or by a download that looked or asked too early.                        *)
THEOREM VerifiedISOCorrect == Spec => VerifiedISOKept
<1> DEFINE A ==
      \A n \in Names :
       files[n] \in ParseSHA256Sum(sums[n], n) /\ files'[n] = Absent =>
         \/ ~dir'
         \/ \E p \in Invocations :
              pc[p] # pc'[p] /\ name[p] = n /\ (raced[p] \/ want[p] # files[n])
<1>1. IInv /\ [Next]_vars => [A]_vars
  <2> SUFFICES ASSUME IInv, Next, NEW n \in Names,
                      files[n] \in ParseSHA256Sum(sums[n], n), files'[n] = Absent, dir'
               PROVE  \E p \in Invocations :
                        pc[p] # pc'[p] /\ name[p] = n /\ (raced[p] \/ want[p] # files[n])
    BY DEF vars
  <2>1. files[n] # Absent /\ n \notin Invocations /\ n \in Entries
    BY ParsedIsPublished DEF IInv, EverPublished, TypeOK, Entries
  <2>2. files' # files
    BY <2>1
  <2>3. ~Cleanup /\ ~(\E m \in Names, b \in Bodies : Republish(m, b))
    BY <2>2 DEF Cleanup, Republish
  <2>4. ASSUME NEW e \in Entries, NEW c \in Contents, UserWrites(e, c) PROVE FALSE
    BY <2>1, <2>4 DEF UserWrites, IInv, TypeOK
  <2>5. PICK p \in Invocations : Step(p)
    BY <2>3, <2>4 DEF Next
  <2>6. CASE RemoveCached(p)
    <3>1. name[p] = n
      BY <2>1, <2>6 DEF RemoveCached, IInv, TypeOK, Entries
    <3>2. pc[p] = "stale" /\ pc'[p] = "getting"
      BY <2>6 DEF RemoveCached, Goto, IInv, TypeOK
    <3>3. raced[p] \/ want[p] # files[n]
      BY <3>1, <3>2 DEF IInv, StaleTargets
    <3> QED
      BY <3>1, <3>2, <3>3
  <2>7. CASE Rename(p)
    <3>1. files' = [files EXCEPT ![name[p]] = files[p], ![p] = Absent] /\ files[p] # Absent
      BY <2>7 DEF Rename, Temp
    <3> QED
      BY <2>1, <3>1 DEF IInv, TypeOK, Entries
  <2>8. CASE Get(p) \/ Copy(p) \/ Returns(p)
    <3>1. PICK d \in Data \cup {Absent} : files' = [files EXCEPT ![p] = d]
      BY <2>2, <2>8 DEF Get, Copy, Returns, Data
    <3> QED
      BY <2>1, <3>1 DEF IInv, TypeOK, Entries
  <2> QED
    BY <2>2, <2>5, <2>6, <2>7, <2>8 DEF Step, List, Choose, Pick, FetchChecksum, Stat, Cached,
       NotCached, VerifyTemp, Kill
<1> QED
  BY <1>1, InvCorrect, PTL DEF Spec, VerifiedISOKept
=============================================================================
