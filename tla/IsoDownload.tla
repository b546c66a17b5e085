---------------------------- MODULE IsoDownload ----------------------------
(***************************************************************************)
(* The downloads directory (internal/iso): an ISO is fetched beside its    *)
(* target, checked against the digest the release publishes and only then  *)
(* renamed; the listing that a start chooses from believes whatever bears  *)
(* an ISO's name.  Several invocations use the directory at once, without  *)
(* a lock, and a user and cleanup change it under them.                    *)
(*                                                                         *)
(* A digest is the content it is of.                                       *)
(***************************************************************************)
EXTENDS Naturals, Sequences

CONSTANTS
  Invocations,  \* downloads, and starts that choose or download an ISO
  Names,        \* ISOs of the release, by file name
  Others,       \* names of other files
  Contents,     \* whole files
  Partial,      \* a file cut short
  Absent,       \* no file, no digest
  Unusable,     \* a column that is no digest
  NoName,       \* a line of one column
  Bodies        \* what a .sha256 asset may hold

Line   == [digest : Contents \cup {Unusable}, name : Names \cup Others \cup {NoName}]
NoBody == <<>>

ASSUME ContentAssumption ==
  /\ Partial \notin Contents /\ Absent \notin Contents \cup {Partial} /\ Unusable \notin Contents
  /\ \A b \in Bodies : b \in Seq(Line)
ASSUME NameAssumption ==
  Names \cap Invocations = {} /\ Names # {} /\ (Names \cup {NoName}) \cap Others = {}

(* Directory entries: the target of an ISO, and the .part-* file of an     *)
(* invocation, whose name nobody else has.                                 *)
Entries == Names \cup Invocations

Data == Contents \cup {Partial}

-----------------------------------------------------------------------------
(* The digest of an ISO                                                    *)

FirstLine(b, n) == {b[i].digest : i \in DOMAIN b \cap {1}}

OfThis(line, n) == line.digest # Unusable /\ line.name \in {n, NoName}

(* parseSHA256Sum: the first usable line of one column or of this name; no *)
(* asset and a body without such a line are an error.                      *)
ParseSHA256Sum(b, n) ==
  {b[i].digest : i \in {j \in DOMAIN b : OfThis(b[j], n) /\ \A k \in 1..(j - 1) : ~OfThis(b[k], n)}}

(* What the asset says of the ISO, in any line.                            *)
Published(b, n) == {b[i].digest : i \in {j \in DOMAIN b : OfThis(b[j], n)}}

-----------------------------------------------------------------------------
VARIABLES
  sums,     \* the .sha256 asset of each ISO
  files,    \* the directory
  dir,      \* the directory is there
  pc,       \* where each invocation is
  name,     \* the ISO it downloads
  want,     \* the digest it fetched for that
  listing,  \* the files it offers the user
  path,     \* the file it settled on
  ever,     \* history: the digests an ISO's asset has held
  touched,  \* history: the entries whose content is the user's
  raced     \* history: its target was replaced since it looked at it

own  == <<name, want, listing, path>>
hist == <<ever, touched, raced>>
vars == <<sums, files, dir, pc, own, hist>>

Looking     == {"checking", "stale"}
Fetching    == {"getting", "copying", "copied", "verified"}
Downloading == {"picked", "fetched"} \cup Looking \cup Fetching

Goto(p, from, to) == pc[p] = from /\ pc' = [pc EXCEPT ![p] = to]

Target(p) == files[name[p]]
Temp(p)   == files[p]

(* Whoever looks at the target n sees another file from here on.           *)
Replaced(n) == raced' = [p \in Invocations |-> raced[p] \/ (pc[p] \in Looking /\ name[p] = n)]

Init ==
  /\ sums \in [Names -> Bodies \cup {NoBody}]
  /\ files = [e \in Entries |-> Absent]
  /\ dir = FALSE
  /\ pc = [p \in Invocations |-> "idle"]
  /\ name \in [Invocations -> {CHOOSE n \in Names : TRUE}]
  /\ want = [p \in Invocations |-> Absent]
  /\ listing = [p \in Invocations |-> {}]
  /\ path \in [Invocations -> {CHOOSE n \in Names : TRUE}]
  /\ ever = [n \in Names |-> Published(sums[n], n)]
  /\ touched = {}
  /\ raced = [p \in Invocations |-> FALSE]

-----------------------------------------------------------------------------
(* Choosing                                                                *)

HasISOSuffix(e) == e \in Names

ListDownloaded == {e \in Entries : files[e] # Absent /\ HasISOSuffix(e)}

List(p) ==
  /\ Goto(p, "idle", "listed")
  /\ listing' = [listing EXCEPT ![p] = ListDownloaded]
  /\ UNCHANGED <<sums, files, dir, name, want, path, hist>>

Choose(p) ==
  \E e \in listing[p] :
    /\ Goto(p, "listed", "chosen")
    /\ path' = [path EXCEPT ![p] = e]
    /\ UNCHANGED <<sums, files, dir, name, want, listing, hist>>

(* The prompts of interactivePicker; the directory is made meanwhile.      *)
Pick(p, n) ==
  /\ pc[p] \in {"idle", "listed"}
  /\ pc' = [pc EXCEPT ![p] = "picked"]
  /\ name' = [name EXCEPT ![p] = n]
  /\ dir' = TRUE
  /\ UNCHANGED <<sums, files, want, listing, path, hist>>

-----------------------------------------------------------------------------
(* Downloading                                                             *)

FetchChecksum(p) ==
  \E d \in ParseSHA256Sum(sums[name[p]], name[p]) :
    /\ Goto(p, "picked", "fetched")
    /\ want' = [want EXCEPT ![p] = d]
    /\ UNCHANGED <<sums, files, dir, name, listing, path, hist>>

Stat(p) ==
  /\ Goto(p, "fetched", IF Target(p) = Absent THEN "getting" ELSE "checking")
  /\ raced' = [raced EXCEPT ![p] = FALSE]
  /\ UNCHANGED <<sums, files, dir, own, ever, touched>>

(* verifyFileSHA256; a file that is gone is an error as a mismatch is.     *)
Verifies(data, digest) == data = digest

Cached(p) ==
  /\ Verifies(Target(p), want[p])
  /\ Goto(p, "checking", "chosen")
  /\ path' = [path EXCEPT ![p] = name[p]]
  /\ UNCHANGED <<sums, files, dir, name, want, listing, hist>>

AlwaysStale(p) ==
  /\ Goto(p, "checking", "stale")
  /\ UNCHANGED <<sums, files, dir, own, hist>>

NotCached(p) ==
  /\ ~Verifies(Target(p), want[p])
  /\ Goto(p, "checking", "stale")
  /\ UNCHANGED <<sums, files, dir, own, hist>>

(* Whatever has the name by now goes.                                      *)
RemoveCached(p) ==
  /\ Target(p) # Absent
  /\ Goto(p, "stale", "getting")
  /\ files' = [files EXCEPT ![name[p]] = Absent]
  /\ touched' = touched \ {name[p]}
  /\ UNCHANGED <<sums, dir, own, ever, raced>>

Get(p) ==
  /\ dir
  /\ Goto(p, "getting", "copying")
  /\ files' = [files EXCEPT ![p] = Partial]
  /\ UNCHANGED <<sums, dir, own, hist>>

(* What arrives may be anything, and be cut short unnoticed if no length   *)
(* was announced.  A temporary file that cleanup unlinked stays unlinked.  *)
Copy(p) ==
  \E c \in Data :
    /\ Goto(p, "copying", "copied")
    /\ files' = IF Temp(p) = Absent THEN files ELSE [files EXCEPT ![p] = c]
    /\ touched' = touched \ {p}
    /\ UNCHANGED <<sums, dir, own, ever, raced>>

RenameUnverified(p) ==
  /\ Goto(p, "copied", "verified")
  /\ UNCHANGED <<sums, files, dir, own, hist>>

VerifyTemp(p) ==
  /\ Verifies(Temp(p), want[p])
  /\ Goto(p, "copied", "verified")
  /\ touched' = touched \ {p}
  /\ UNCHANGED <<sums, files, dir, own, ever, raced>>

Rename(p) ==
  /\ Temp(p) # Absent
  /\ Goto(p, "verified", "chosen")
  /\ files' = [files EXCEPT ![name[p]] = Temp(p), ![p] = Absent]
  /\ path' = [path EXCEPT ![p] = name[p]]
  /\ touched' = (touched \ {name[p], p}) \cup (IF p \in touched THEN {name[p]} ELSE {})
  /\ Replaced(name[p])
  /\ UNCHANGED <<sums, dir, name, want, listing, ever>>

KeepTemp(p) ==
  /\ pc[p] \in {"idle", "listed", "chosen"} \cup Downloading
  /\ pc' = [pc EXCEPT ![p] = "ended"]
  /\ UNCHANGED <<sums, files, dir, own, hist>>

(* A checksum that is missing, an answer that is not 200, a copy that      *)
(* breaks off, a file that does not verify or has gone: the deferred       *)
(* Remove.  Or the command is over.                                        *)
Returns(p) ==
  /\ pc[p] \in {"idle", "listed", "chosen"} \cup Downloading
  /\ pc' = [pc EXCEPT ![p] = "ended"]
  /\ files' = [files EXCEPT ![p] = Absent]
  /\ touched' = touched \ {p}
  /\ UNCHANGED <<sums, dir, own, ever, raced>>

-----------------------------------------------------------------------------
(* The others                                                              *)

Kill(p) ==
  /\ pc[p] \in Downloading
  /\ pc' = [pc EXCEPT ![p] = "killed"]
  /\ UNCHANGED <<sums, files, dir, own, hist>>

(* The release is edited.                                                  *)
Republish(n, b) ==
  /\ sums' = [sums EXCEPT ![n] = b]
  /\ ever' = [ever EXCEPT ![n] = @ \cup Published(b, n)]
  /\ UNCHANGED <<files, dir, pc, own, touched, raced>>

(* The user damages a file or brings one.                                  *)
UserWrites(e, c) ==
  /\ dir /\ (e \in Invocations => files[e] # Absent)
  /\ files' = [files EXCEPT ![e] = c]
  /\ touched' = touched \cup {e}
  /\ (IF e \in Names THEN Replaced(e) ELSE UNCHANGED raced)
  /\ UNCHANGED <<sums, dir, pc, own, ever>>

(* cleanup's RemoveAll.                                                    *)
Cleanup ==
  /\ dir
  /\ dir' = FALSE
  /\ files' = [e \in Entries |-> Absent]
  /\ touched' = {}
  /\ UNCHANGED <<sums, pc, own, ever, raced>>

-----------------------------------------------------------------------------
WaitsForHeaders(p) == pc[p] \in {"picked", "getting"}

(* The two clients' timeouts, 30 seconds and 30 minutes; the latter is for *)
(* the body as well.                                                       *)
Waits(p) == pc[p] \in {"picked", "getting", "copying"}

(* What the next step needs is not so.                                     *)
Refused(p) ==
  \/ pc[p] = "stale" /\ Target(p) = Absent
  \/ pc[p] = "copied" /\ ~Verifies(Temp(p), want[p])
  \/ pc[p] = "verified" /\ Temp(p) = Absent

Local(p) ==
  \/ Stat(p) \/ Cached(p) \/ NotCached(p) \/ RemoveCached(p) \/ VerifyTemp(p) \/ Rename(p)
  \/ Refused(p) /\ Returns(p)

Step(p) ==
  \/ List(p) \/ Choose(p) \/ \E n \in Names : Pick(p, n)
  \/ FetchChecksum(p) \/ Get(p) \/ Copy(p)
  \/ Stat(p) \/ Cached(p) \/ NotCached(p) \/ RemoveCached(p) \/ VerifyTemp(p) \/ Rename(p)
  \/ Returns(p) \/ Kill(p)

Next ==
  \/ \E p \in Invocations : Step(p)
  \/ \E n \in Names, b \in Bodies : Republish(n, b)
  \/ \E e \in Entries, c \in Contents : UserWrites(e, c)
  \/ Cleanup

(* The server may be silent for ever; the timers are not.                  *)
Fairness ==
  \A p \in Invocations : WF_vars(Local(p)) /\ WF_vars(Waits(p) /\ Returns(p))

Spec == Init /\ [][Next]_vars /\ Fairness

-----------------------------------------------------------------------------
(* Properties                                                              *)

TypeOK ==
  /\ sums \in [Names -> Bodies \cup {NoBody}]
  /\ files \in [Entries -> Data \cup {Absent}]
  /\ dir \in BOOLEAN
  /\ pc \in [Invocations -> {"idle", "listed", "chosen", "ended", "killed"} \cup Downloading]
  /\ name \in [Invocations -> Names]
  /\ want \in [Invocations -> Contents \cup {Absent}]
  /\ listing \in [Invocations -> SUBSET Entries]
  /\ path \in [Invocations -> Entries]
  /\ ever \in [Names -> SUBSET Contents]
  /\ touched \in SUBSET Entries
  /\ raced \in [Invocations -> BOOLEAN]

(* What bears an ISO's name is a file the release published for that very  *)
(* ISO, unless the user wrote it: nothing cut short, nothing of another    *)
(* ISO, whichever downloads of it overlapped or were killed.               *)
OnlyVerifiedKept ==
  \A n \in Names : files[n] # Absent /\ n \notin touched => files[n] \in ever[n]

(* What a start settled on is such a file at any later time, when QEMU     *)
(* opens it, or is gone.                                                   *)
ChosenIsVerified ==
  \A p \in Invocations :
    pc[p] = "chosen" /\ files[path[p]] # Absent /\ path[p] \notin touched =>
      path[p] \in Names /\ files[path[p]] \in ever[path[p]]

(* A download leaves its temporary file behind only when it is killed.     *)
TempsRemoved ==
  \A p \in Invocations : files[p] # Absent => pc[p] \in Fetching \cup {"killed"}

(* An ISO that is what the release publishes is removed, other than by     *)
(* cleanup, only by a download that looked at the file before it, or that  *)
(* fetched the digest before the release changed it.                       *)
VerifiedISOKept ==
  [][\A n \in Names :
       files[n] \in ParseSHA256Sum(sums[n], n) /\ files'[n] = Absent =>
         \/ ~dir'
         \/ \E p \in Invocations :
              pc[p] # pc'[p] /\ name[p] = n /\ (raced[p] \/ want[p] # files[n])]_vars

(* No download waits for a silent server for ever.                         *)
DownloadEnds ==
  \A p \in Invocations : pc[p] \in Downloading ~> pc[p] \notin Downloading
=============================================================================
