----------------------------- MODULE Provision ------------------------------
(***************************************************************************)
(* dbrun provision, and the wait of a start.                               *)
(*                                                                         *)
(* A Windows machine is made from an installer that is downloaded, an      *)
(* appliance from an image that a person downloads and whose disks are     *)
(* unpacked, checked and converted.  Each of these takes minutes and may   *)
(* be killed or fail half way, and the next run decides from the files     *)
(* that it finds what is left to do.  When the machine is up, the command  *)
(* asks until it answers or the time is over, and so does the start of a   *)
(* container, which has to keep answering for a while.                     *)
(*                                                                         *)
(* One process runs one command after another.  How a start gets its       *)
(* container up is the subject of module Servers, and one step here.       *)
(***************************************************************************)
EXTENDS Naturals, FiniteSets

CONSTANTS
    DiskCount,      \* how many disks the appliance has
    Settle,         \* how long a container has to keep answering
    Timeout,        \* how long a command waits
    Probe,          \* bound: how long one check may take
    MaxCommands     \* bound: how many commands are run

ASSUME ProvisionAssumption ==
    /\ {DiskCount, Settle, Timeout, Probe, MaxCommands} \subseteq Nat
    /\ Settle + Probe <= Timeout

VARIABLES
    kind,        \* "windows", "appliance" or "container"
    image,       \* what the person downloaded: "none", "damaged" or "good"
    installer,   \* the files of the installer: as "final", and as "part"
    unpacked,    \* per disk, the file in the import directory
    parts,       \* per disk, the file that a conversion writes
    disks,       \* per disk, the file that the machine boots
    box,         \* the container of the machine: "absent", "stopped" or "running"
    pc,          \* where the process is
    left,        \* the disks that it still has to unpack or convert
    settle,      \* how long the server that is waited for has to keep answering
    now,         \* the time since the wait began
    since,       \* since when the server answers, as waitReady notes it
    checks,      \* the checks of the wait: when, and whether it answered
    verdict,     \* what the wait came to
    litter,      \* the import directory was left: a process died or the removal failed
    count        \* how many commands were begun

files == <<image, installer, unpacked, parts, disks>>
clock == <<settle, now, since, checks, verdict>>
vars  == <<kind, image, installer, unpacked, parts, disks, box, pc, left, settle, now,
           since, checks, verdict, litter, count>>

---------------------------------------------------------------------------
(* Files. *)

Disks   == 1 .. DiskCount
First   == CHOOSE d \in left : \A e \in left : d <= e
NoFiles == [d \in Disks |-> "none"]
Never   == Timeout + Probe + 2

\* imported: every disk has a file under its own name.
Imported == \A d \in Disks : disks[d] # "none"

\* Whether the container exists.  An inspect that fails says that it does not.
Exists == {box # "absent", FALSE}

Goto(l) == pc' = l /\ UNCHANGED left
Ends    == Goto("idle")

\* A machine that runs writes to its disks.
Booted == [d \in Disks |-> IF disks[d] = "whole" THEN "used" ELSE disks[d]]
Boots  == /\ box' = "running"
          /\ disks' = IF kind = "appliance" THEN Booted ELSE disks

---------------------------------------------------------------------------
(* The installer of a Windows machine. *)

\* fetchInstaller: a file that is not empty is the installer.
Fetch ==
    /\ pc = "fetch"
    /\ Goto(IF installer.final # "none" THEN "oem" ELSE "download")
    /\ UNCHANGED <<kind, files, box, clock, litter, count>>

\* Mutant: the file is created under its own name.
DownloadOpenInPlace ==
    /\ pc = "download"
    /\ \/ Goto("copy") /\ installer' = [final |-> "part", part |-> "part"]
       \/ Ends /\ UNCHANGED installer
    /\ UNCHANGED <<kind, image, unpacked, parts, disks, box, clock, litter, count>>

\* The service answers, and the file beside the target is created.
DownloadOpen ==
    /\ pc = "download"
    /\ \/ Goto("copy") /\ installer' = [installer EXCEPT !.part = "part"]
       \/ Ends /\ UNCHANGED installer
    /\ UNCHANGED <<kind, image, unpacked, parts, disks, box, clock, litter, count>>

DownloadCopy ==
    /\ pc = "copy"
    /\ \/ Goto("rename") /\ installer' = [installer EXCEPT !.part = "whole"]
       \/ Ends /\ UNCHANGED installer
    /\ UNCHANGED <<kind, image, unpacked, parts, disks, box, clock, litter, count>>

DownloadRename ==
    /\ pc = "rename"
    /\ \/ Goto("oem") /\ installer' = [final |-> installer.part, part |-> "none"]
       \/ Ends /\ UNCHANGED installer
    /\ UNCHANGED <<kind, image, unpacked, parts, disks, box, clock, litter, count>>

WriteOEM ==
    /\ pc = "oem"
    /\ Goto("create") \/ Ends
    /\ UNCHANGED <<kind, files, box, clock, litter, count>>

---------------------------------------------------------------------------
(* The disks of an appliance. *)

\* Mutant: a machine that is not there is imported, whatever its disks.
ImportApplianceAgain ==
    /\ pc = "import"
    /\ \E there \in Exists :
         IF there THEN Goto("create")
         ELSE IF image = "none" THEN Ends ELSE Goto("mkdir")
    /\ UNCHANGED <<kind, files, box, clock, litter, count>>

\* Only a machine that is not there and has not all its disks is imported.
ImportAppliance ==
    /\ pc = "import"
    /\ \E there \in Exists :
         IF there \/ Imported THEN Goto("create")
         ELSE IF image = "none" THEN Ends ELSE Goto("mkdir")
    /\ UNCHANGED <<kind, files, box, clock, litter, count>>

\* The directories are made.  From the first on, what was unpacked is removed
\* however the import ends.
ImportDisks ==
    /\ pc = "mkdir"
    /\ \/ pc' = "unpack" /\ left' = Disks
       \/ Goto("cleanup")
       \/ Ends
    /\ UNCHANGED <<kind, files, box, clock, litter, count>>

\* One disk of the image is written out.
UnpackMember ==
    /\ pc = "unpack"
    /\ \E d \in left :
         \/ /\ unpacked' = [unpacked EXCEPT
                               ![d] = IF image = "good" THEN "whole" ELSE "bad"]
            /\ left' = left \ {d} /\ UNCHANGED pc
         \/ unpacked' = [unpacked EXCEPT ![d] = "part"] /\ Goto("cleanup")
    /\ UNCHANGED <<kind, image, installer, parts, disks, box, clock, litter, count>>

\* The digest is that of the whole image, so it is known only when all is unpacked.
UnpackDigest ==
    /\ pc = "unpack" /\ left = {}
    /\ IF image = "good" THEN pc' = "convert" /\ left' = Disks ELSE Goto("cleanup")
    /\ UNCHANGED <<kind, files, box, clock, litter, count>>

\* Mutant: after a conversion that fails the image is unpacked again.
ConvertAgain ==
    /\ pc = "convert"
    /\ \/ parts' = [parts EXCEPT ![First] = unpacked[First]] /\ Goto("place")
       \/ /\ parts' = [parts EXCEPT ![First] = "part"]
          /\ pc' = "unpack" /\ left' = Disks
    /\ UNCHANGED <<kind, image, installer, unpacked, disks, box, clock, litter, count>>

\* qemu-img writes one disk after the other, beside its own name.
Convert ==
    /\ pc = "convert"
    /\ \/ parts' = [parts EXCEPT ![First] = unpacked[First]] /\ Goto("place")
       \/ parts' = [parts EXCEPT ![First] = "part"] /\ Goto("cleanup")
    /\ UNCHANGED <<kind, image, installer, unpacked, disks, box, clock, litter, count>>

\* And it is renamed when it is whole.
ConvertRename ==
    /\ pc = "place"
    /\ \/ /\ disks' = [disks EXCEPT ![First] = parts[First]]
          /\ parts' = [parts EXCEPT ![First] = "none"]
          /\ left' = left \ {First}
          /\ pc' = IF left' = {} THEN "tidy" ELSE "convert"
       \/ Goto("cleanup") /\ UNCHANGED <<parts, disks>>
    /\ UNCHANGED <<kind, image, installer, unpacked, box, clock, litter, count>>

\* The deferred removal of what was unpacked.  What it could not remove stays,
\* and its error is not read.
RemoveWork ==
    /\ pc \in {"cleanup", "tidy"}
    /\ \E gone \in SUBSET Disks :
          unpacked' = [d \in Disks |-> IF d \in gone THEN "none" ELSE unpacked[d]]
    /\ litter' = (unpacked' # NoFiles)
    /\ Goto(IF pc = "tidy" THEN "create" ELSE "idle")
    /\ UNCHANGED <<kind, image, installer, parts, disks, box, clock, count>>

---------------------------------------------------------------------------
(* The machine, and the wait for it. *)

\* The wait begins, for a server that has to settle for that long.
Await(for) ==
    /\ settle' = for /\ now' = 0 /\ since' = Never /\ checks' = {} /\ verdict' = "none"
    /\ Goto("check")

\* createMachine: a machine that exists is started, and another is created.  The
\* name of one that exists and was not seen is refused.
CreateMachine ==
    /\ pc = "create"
    /\ \E there \in Exists :
         \/ /\ there \/ box = "absent"
            /\ Boots /\ Await(0)
         \/ /\ box' \in {box, IF there \/ box # "absent" THEN box ELSE "stopped"}
            /\ Ends /\ UNCHANGED <<disks, clock>>
    /\ UNCHANGED <<kind, image, installer, unpacked, parts, litter, count>>

\* With --watch nothing is waited for.
Watch ==
    /\ pc = "check" /\ kind # "container" /\ now = 0 /\ checks = {}
    /\ Ends
    /\ UNCHANGED <<kind, files, box, clock, litter, count>>

\* doStart: a server that is up is not waited out again, and a machine that is not
\* there is not made.
Start ==
    /\ pc = "start"
    /\ \/ box = "running" /\ Await(0) /\ UNCHANGED <<box, disks>>
       \/ /\ box = "stopped" \/ (box = "absent" /\ kind = "container")
          /\ Boots /\ Await(IF kind = "container" THEN Settle ELSE 0)
       \/ Ends /\ UNCHANGED <<box, disks, clock>>
    /\ UNCHANGED <<kind, image, installer, unpacked, parts, litter, count>>

\* What a check at time t makes of the wait, after since has been set.
Judged(t) ==
    IF t > Timeout
    THEN verdict' = (IF since' = Never THEN "never" ELSE "unsettled") /\ Ends
    ELSE Goto("sleep") /\ UNCHANGED verdict

\* Mutant: a failure does not start the settle again.
CheckForgiving ==
    /\ pc = "check"
    /\ \E t \in now .. now + Probe, ok \in {FALSE, box = "running"} :
         /\ now' = t /\ checks' = checks \cup {<<t, ok>>}
         /\ \/ ~ok /\ UNCHANGED since /\ Judged(t)
            \/ /\ ok /\ (settle = 0 \/ (since # Never /\ t - since >= settle))
               /\ verdict' = "ready" /\ Ends /\ UNCHANGED since
            \/ /\ ok /\ settle > 0 /\ (since = Never \/ t - since < settle)
               /\ since' = (IF since = Never THEN t ELSE since)
               /\ Judged(t)
    /\ UNCHANGED <<kind, files, box, settle, litter, count>>

\* waitReady and waitForAnswer: one check, which takes its time.  A server with a
\* settle is ready when it has answered for that long and not failed in between,
\* and the time is looked at after the check.
Check ==
    /\ pc = "check"
    /\ \E t \in now .. now + Probe, ok \in {FALSE, box = "running"} :
         /\ now' = t /\ checks' = checks \cup {<<t, ok>>}
         /\ \/ ~ok /\ since' = Never /\ Judged(t)
            \/ /\ ok /\ (settle = 0 \/ (since # Never /\ t - since >= settle))
               /\ verdict' = "ready" /\ Ends /\ UNCHANGED since
            \/ /\ ok /\ settle > 0 /\ (since = Never \/ t - since < settle)
               /\ since' = (IF since = Never THEN t ELSE since)
               /\ Judged(t)
    /\ UNCHANGED <<kind, files, box, settle, litter, count>>

\* The pause between two checks, which Ctrl-C ends.
Pause ==
    /\ pc = "sleep"
    /\ \/ now' = now + 1 /\ Goto("check")
       \/ Ends /\ UNCHANGED now
    /\ UNCHANGED <<kind, files, box, settle, since, checks, verdict, litter, count>>

\* doRemove of a machine removes its container and leaves its disks.
Remove ==
    /\ pc = "remove"
    /\ box' \in {box, "absent"}
    /\ Ends
    /\ UNCHANGED <<kind, files, clock, litter, count>>

---------------------------------------------------------------------------
(* The program. *)

Commands == {"provision", "start", "remove"}

Begin(c) ==
    /\ pc = "idle" /\ count < MaxCommands
    /\ count' = count + 1
    /\ Goto(CASE c = "provision" /\ kind = "windows"   -> "fetch"
              [] c = "provision" /\ kind = "appliance" -> "import"
              [] c = "provision" /\ kind = "container" -> "idle"
              [] OTHER -> c)
    /\ UNCHANGED <<kind, files, box, clock, litter>>

\* A person puts an image where provision looks for it.
Fetched ==
    /\ pc = "idle" /\ kind = "appliance"
    /\ image' \in {"damaged", "good"} \ {image}
    /\ UNCHANGED <<kind, installer, unpacked, parts, disks, box, pc, left, clock, litter>>
    /\ UNCHANGED count

\* The server stops by itself.
Exit ==
    /\ box = "running" /\ box' = "stopped"
    /\ UNCHANGED <<kind, files, pc, left, clock, litter, count>>

\* The process is killed.
Crash ==
    /\ pc # "idle" /\ Ends
    /\ litter' = (litter \/ unpacked # NoFiles)
    /\ UNCHANGED <<kind, files, box, clock, count>>

Init ==
    /\ kind \in {"windows", "appliance", "container"}
    /\ image = "none" /\ installer = [final |-> "none", part |-> "none"]
    /\ unpacked = NoFiles /\ parts = NoFiles /\ disks = NoFiles
    /\ box = "absent" /\ pc = "idle" /\ left = {}
    /\ settle = 0 /\ now = 0 /\ since = Never /\ checks = {} /\ verdict = "none"
    /\ litter = FALSE /\ count = 0

Step ==
    \/ Fetch \/ DownloadOpen \/ DownloadCopy \/ DownloadRename \/ WriteOEM
    \/ ImportAppliance \/ ImportDisks \/ UnpackMember \/ UnpackDigest
    \/ Convert \/ ConvertRename \/ RemoveWork
    \/ CreateMachine \/ Watch \/ Start \/ Check \/ Pause \/ Remove

Next ==
    \/ \E c \in Commands : Begin(c)
    \/ Step \/ Fetched \/ Exit \/ Crash

Spec == Init /\ [][Next]_vars /\ WF_vars(Step)

---------------------------------------------------------------------------
(* Properties. *)

Contents == {"none", "part", "bad", "whole", "used"}

Labels == {"idle", "fetch", "download", "copy", "rename", "oem", "import", "mkdir", "unpack",
           "convert", "place", "cleanup", "tidy", "create", "check", "sleep", "start", "remove"}

\* Every variable keeps its type, and the clock of a wait its bound.
TypeOK ==
    /\ kind \in {"windows", "appliance", "container"}
    /\ image \in {"none", "damaged", "good"} /\ box \in {"absent", "stopped", "running"}
    /\ unpacked \in [Disks -> Contents]
    /\ parts \in [Disks -> Contents]
    /\ disks \in [Disks -> Contents]
    /\ installer \in [final : Contents, part : Contents]
    /\ pc \in Labels /\ left \subseteq Disks
    /\ settle \in {0, Settle} /\ now \in 0 .. (Never - 1) /\ since \in (0 .. now) \cup {Never}
    /\ checks \subseteq (0 .. now) \X BOOLEAN
    /\ verdict \in {"none", "ready", "never", "unsettled"}
    /\ litter \in BOOLEAN /\ count \in 0 .. MaxCommands

\* "An interrupted download does not look like a finished one on the next run", nor
\* a conversion: a file under its own name is whole, whatever fails and whenever a
\* process is killed.
FinishedMeansWhole ==
    /\ installer.final \in {"none", "whole"}
    /\ \A d \in Disks : disks[d] \in {"none", "whole", "used"}

\* "A machine that exists is never recreated here, because its disk is the hour of
\* work or the import that made it": nor is a disk that a machine has run from ever
\* written again, with its container removed or an inspect that fails.
DisksAreKept == [][\A d \in Disks : disks[d] = "used" => disks'[d] = "used"]_vars

\* The unpacked disks "go whether this works or not": no command that comes to its
\* end leaves them but those that could not be removed.
WorkIsRemoved == pc = "idle" /\ ~litter => unpacked = NoFiles

\* A server is called ready when it has answered at every check for as long as it
\* has to settle.
ReadyMeansSettled ==
    verdict = "ready" =>
      \E c \in checks :
        /\ c[2] /\ now - c[1] >= settle
        /\ \A d \in checks : d[1] >= c[1] => d[2]

\* And it is given up when the time is over and not before, and never one that has
\* answered every check.
GivesUpInTime ==
    verdict \in {"never", "unsettled"} => now > Timeout /\ \E c \in checks : ~c[2]

\* What a wait comes to is so, wherever its checks and its clock fall (waitReady and
\* waitForAnswer).
WaitIsRight == ReadyMeansSettled /\ GivesUpInTime

\* Every command comes to its end.
EveryProvisionEnds == pc # "idle" ~> pc = "idle"
=============================================================================
