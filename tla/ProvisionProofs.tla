--------------------------- MODULE ProvisionProofs ---------------------------
(***************************************************************************)
(* What provisioning may rely on in the files it finds, and what a wait    *)
(* comes to, for every number of disks, every settle, timeout and length   *)
(* of a check, and every number of commands.                               *)
(***************************************************************************)
EXTENDS Provision, TLAPS, WellFoundedInduction

\* The first of the disks that are left is one of them.
LEMMA FirstIn ==
    ASSUME left \subseteq Disks, left # {}
    PROVE  First \in left
<1>1. left \subseteq Nat
  BY ProvisionAssumption DEF Disks
<1>2. PICK n \in left : \A m \in left : ~(<<m, n>> \in OpToRel(<, Nat))
  BY <1>1, WFMin, NatLessThanWellFounded
<1>3. \A m \in left : n <= m
  <2> SUFFICES ASSUME NEW m \in left PROVE n <= m
    OBVIOUS
  <2>1. <<m, n>> \in Nat \X Nat /\ <<m, n>>[1] = m /\ <<m, n>>[2] = n
    BY <1>1
  <2>2. ~(m < n)
    BY <1>2, <2>1, Zenon DEF OpToRel
  <2> QED BY <1>1, <2>2
<1> QED BY <1>3 DEF First

LEMMA Bounds ==
    /\ DiskCount \in Nat /\ Settle \in Nat /\ Timeout \in Nat /\ Probe \in Nat
    /\ MaxCommands \in Nat /\ Settle + Probe <= Timeout
    /\ Never = Timeout + Probe + 2 /\ Never \in Nat
BY ProvisionAssumption DEF Never

---------------------------------------------------------------------------
(* The wait. *)

\* One more check, at or after the others.
LEMMA ChecksGrow ==
    ASSUME NEW m \in Nat, NEW t \in Nat, m <= t, NEW S, S \subseteq (0 .. m) \X BOOLEAN,
           NEW ok \in BOOLEAN
    PROVE  S \cup {<<t, ok>>} \subseteq (0 .. t) \X BOOLEAN
<1> SUFFICES ASSUME NEW c \in S \cup {<<t, ok>>} PROVE c \in (0 .. t) \X BOOLEAN
  OBVIOUS
<1>1. CASE c = <<t, ok>>
  BY <1>1
<1>2. CASE c \in S
  <2>1. PICK i \in 0 .. m, b \in BOOLEAN : c = <<i, b>>
    BY <1>2
  <2>2. i \in 0 .. t
    BY <2>1
  <2> QED BY <2>1, <2>2
<1> QED BY <1>1, <1>2

\* What holds between two checks.  The failure that a verdict needs is among the
\* checks, or the server has answered since the first of them, which was soon.
Waiting ==
    pc \in {"check", "sleep"} =>
      /\ verdict = "none"
      /\ now <= Timeout + 1 /\ (pc = "sleep" => now <= Timeout)
      /\ \A c \in checks : pc = "check" => c[1] < now
      /\ checks = {} => pc = "check" /\ now = 0 /\ since = Never
      /\ since # Never => <<since, TRUE>> \in checks /\ \A c \in checks : c[1] >= since => c[2]
      /\ settle > 0 /\ checks # {} /\ (\A c \in checks : c[2]) => since <= Probe

ClockOK ==
    /\ settle \in {0, Settle} /\ now \in 0 .. (Never - 1) /\ since \in (0 .. now) \cup {Never}
    /\ checks \subseteq (0 .. now) \X BOOLEAN
    /\ verdict \in {"none", "ready", "never", "unsettled"}

WInv == ClockOK /\ Waiting /\ WaitIsRight

\* A wait that begins has made no check.
LEMMA WaitBegins ==
    ASSUME NEW for \in {0, Settle}, Await(for), pc \in Labels
    PROVE  WInv'
<1>1. /\ settle' = for /\ now' = 0 /\ since' = Never /\ checks' = {} /\ verdict' = "none"
      /\ pc' = "check"
  BY DEF Await, Goto
<1>2. ClockOK'
  BY <1>1, Bounds DEF ClockOK, Never
<1>3. Waiting'
  BY <1>1, Bounds DEF Waiting, Never
<1> QED BY <1>1, <1>2, <1>3 DEF WInv, WaitIsRight, ReadyMeansSettled, GivesUpInTime

\* What does not touch the clock, and does not come to a check, keeps the wait.
LEMMA WaitStays ==
    ASSUME WInv, UNCHANGED clock, pc' = pc \/ pc' \notin {"check", "sleep"}
    PROVE  WInv'
<1>1. ClockOK'
  BY DEF WInv, ClockOK, clock, Never
<1>2. Waiting'
  BY DEF WInv, Waiting, clock, Never
<1>3. WaitIsRight'
  BY DEF WInv, WaitIsRight, ReadyMeansSettled, GivesUpInTime, clock
<1> QED BY <1>1, <1>2, <1>3 DEF WInv

\* A check that fails.
LEMMA CheckFails ==
    ASSUME WInv, pc = "check", NEW t \in now .. (now + Probe),
           now' = t, checks' = checks \cup {<<t, FALSE>>}, since' = Never,
           Judged(t), UNCHANGED settle
    PROVE  WInv'
<1>1. /\ now \in Nat /\ t \in Nat /\ now <= t /\ t <= now + Probe /\ now <= Timeout + 1
      /\ verdict = "none" /\ checks \subseteq (0 .. now) \X BOOLEAN
  BY Bounds DEF WInv, ClockOK, Waiting
<1>2. t < Never
  BY <1>1, Bounds
<1>3. \/ t > Timeout /\ verdict' = "never" /\ pc' = "idle"
      \/ t <= Timeout /\ verdict' = "none" /\ pc' = "sleep"
  BY <1>1, Bounds DEF Judged, Ends, Goto
<1>4. <<t, FALSE>> \in checks' /\ <<t, FALSE>>[2] = FALSE
  OBVIOUS
<1>5. \E c \in checks' : ~c[2]
  BY <1>4
<1>6. checks' \subseteq (0 .. now') \X BOOLEAN
  BY <1>1, ChecksGrow, FALSE \in BOOLEAN, Zenon
<1>7. ClockOK'
  <2>1. now' \in 0 .. (Never - 1) /\ since' \in (0 .. now') \cup {Never}
    BY <1>1, <1>2, Bounds
  <2>2. settle' \in {0, Settle} /\ verdict' \in {"none", "ready", "never", "unsettled"}
    BY <1>3 DEF WInv, ClockOK
  <2> QED BY <1>6, <2>1, <2>2, Zenon DEF ClockOK, Never
<1>8. Waiting'
  <2>1. pc' \in {"check", "sleep"} => pc' = "sleep" /\ verdict' = "none" /\ now' <= Timeout
    BY <1>1, <1>3
  <2>2. pc' # "check" /\ checks' # {} /\ now' \in Nat /\ since' = Never
    BY <1>1, <1>3, <1>4
  <2>3. now' <= Timeout => now' <= Timeout + 1
    BY <2>2, Bounds
  <2> QED BY <1>5, <2>1, <2>2, <2>3, Zenon DEF Waiting, Never
<1>9. WaitIsRight'
  BY <1>1, <1>3, <1>5 DEF WaitIsRight, ReadyMeansSettled, GivesUpInTime
<1> QED BY <1>7, <1>8, <1>9 DEF WInv

\* A check that is answered, by a server that has settled.
LEMMA CheckReady ==
    ASSUME WInv, pc = "check", NEW t \in now .. (now + Probe),
           now' = t, checks' = checks \cup {<<t, TRUE>>}, since' = since,
           settle = 0 \/ (since # Never /\ t - since >= settle),
           verdict' = "ready", pc' = "idle", UNCHANGED settle
    PROVE  WInv'
<1>1. /\ now \in Nat /\ t \in Nat /\ now <= t /\ t <= now + Probe /\ now <= Timeout + 1
      /\ checks \subseteq (0 .. now) \X BOOLEAN /\ since \in (0 .. now) \cup {Never}
      /\ \A c \in checks : c[1] < now
      /\ since # Never => <<since, TRUE>> \in checks /\ \A c \in checks : c[1] >= since => c[2]
  BY Bounds DEF WInv, ClockOK, Waiting
<1>2. t < Never
  BY <1>1, Bounds
<1>3. checks' \subseteq (0 .. now') \X BOOLEAN
  BY <1>1, ChecksGrow, TRUE \in BOOLEAN
<1>4. ClockOK'
  <2>1. now' \in 0 .. (Never - 1) /\ since' \in (0 .. now') \cup {Never}
    BY <1>1, <1>2, Bounds
  <2>2. settle' \in {0, Settle} /\ verdict' \in {"none", "ready", "never", "unsettled"}
    BY DEF WInv, ClockOK
  <2> QED BY <1>3, <2>1, <2>2, Zenon DEF ClockOK, Never
<1>5. Waiting'
  BY DEF Waiting
<1>6. \A d \in checks' : d = <<t, TRUE>> \/ d \in checks
  OBVIOUS
<1>7. <<t, TRUE>>[1] = t /\ <<t, TRUE>>[2] = TRUE /\ <<t, TRUE>> \in checks'
  OBVIOUS
<1>8. \A c \in checks : c[1] \in Nat /\ c[1] <= now
  BY <1>1
<1>9. ReadyMeansSettled'
  <2>1. CASE settle = 0
    <3>1. \A d \in checks' : d[1] >= t => d[2]
      <4>1. \A d \in checks : ~(d[1] >= t)
        BY <1>1, <1>8
      <4> QED BY <1>6, <1>7, <4>1, Zenon
    <3>2. now' - <<t, TRUE>>[1] >= settle'
      BY <1>1, <1>7, <2>1
    <3> QED BY <1>7, <3>1, <3>2 DEF ReadyMeansSettled
  <2>2. CASE since # Never /\ t - since >= settle
    <3>1. <<since, TRUE>>[1] = since /\ <<since, TRUE>>[2] = TRUE /\ <<since, TRUE>> \in checks'
      BY <1>1, <2>2
    <3>2. \A d \in checks' : d[1] >= since => d[2]
      BY <1>1, <1>6, <1>7, <2>2
    <3> QED BY <2>2, <3>1, <3>2 DEF ReadyMeansSettled
  <2> QED BY <2>1, <2>2
<1>10. GivesUpInTime'
  BY DEF GivesUpInTime
<1> QED BY <1>4, <1>5, <1>9, <1>10 DEF WInv, WaitIsRight

\* A check that is answered, by a server that has to go on answering.
LEMMA CheckSettles ==
    ASSUME WInv, pc = "check", NEW t \in now .. (now + Probe),
           now' = t, checks' = checks \cup {<<t, TRUE>>},
           settle > 0, since = Never \/ t - since < settle,
           since' = IF since = Never THEN t ELSE since,
           Judged(t), UNCHANGED settle
    PROVE  WInv'
<1>1. /\ now \in Nat /\ t \in Nat /\ now <= t /\ t <= now + Probe /\ now <= Timeout + 1
      /\ checks \subseteq (0 .. now) \X BOOLEAN /\ since \in (0 .. now) \cup {Never}
      /\ \A c \in checks : c[1] < now
      /\ verdict = "none"
      /\ checks = {} => now = 0 /\ since = Never
      /\ since # Never => <<since, TRUE>> \in checks /\ \A c \in checks : c[1] >= since => c[2]
      /\ checks # {} /\ (\A c \in checks : c[2]) => since <= Probe
  BY Bounds DEF WInv, ClockOK, Waiting
<1>2. t < Never
  BY <1>1, Bounds
<1>3. checks' \subseteq (0 .. now') \X BOOLEAN
  BY <1>1, ChecksGrow, TRUE \in BOOLEAN
<1>4. since' \in 0 .. t /\ since' # Never
  BY <1>1, <1>2, Bounds
<1>5. \/ t > Timeout /\ verdict' = "unsettled" /\ pc' = "idle"
      \/ t <= Timeout /\ verdict' = "none" /\ pc' = "sleep"
  BY <1>1, <1>4, Bounds DEF Judged, Ends, Goto
<1>6. \A d \in checks' : d = <<t, TRUE>> \/ d \in checks
  OBVIOUS
<1>7. <<t, TRUE>>[1] = t /\ <<t, TRUE>>[2] = TRUE /\ <<t, TRUE>> \in checks'
  OBVIOUS
<1>8. \A c \in checks : c[1] \in Nat /\ c[1] <= now
  BY <1>1
<1>9. ClockOK'
  <2>1. now' \in 0 .. (Never - 1) /\ since' \in (0 .. now') \cup {Never}
    BY <1>1, <1>2, <1>4, Bounds
  <2>2. settle' \in {0, Settle} /\ verdict' \in {"none", "ready", "never", "unsettled"}
    BY <1>5 DEF WInv, ClockOK
  <2> QED BY <1>3, <2>1, <2>2, Zenon DEF ClockOK, Never
<1>10. (\A c \in checks' : c[2]) => since' <= Probe
  <2> SUFFICES ASSUME \A c \in checks' : c[2] PROVE since' <= Probe
    OBVIOUS
  <2>1. CASE checks = {}
    BY <1>1, <2>1, Bounds
  <2>2. CASE checks # {}
    <3>1. since <= Probe
      BY <1>1, <2>2
    <3>2. since # Never
      BY <3>1, Bounds
    <3> QED BY <3>1, <3>2
  <2> QED BY <2>1, <2>2
<1>11. <<since', TRUE>> \in checks' /\ \A c \in checks' : c[1] >= since' => c[2]
  <2>1. CASE since = Never
    <3>1. since' = t
      BY <2>1
    <3>2. \A c \in checks' : c[1] >= t => c[2]
      <4>1. \A c \in checks : ~(c[1] >= t)
        BY <1>1, <1>8
      <4> QED BY <1>6, <1>7, <4>1, Zenon
    <3> QED BY <1>7, <3>1, <3>2
  <2>2. CASE since # Never
    <3>1. since' = since
      BY <2>2
    <3>2. \A c \in checks' : c[1] >= since => c[2]
      BY <1>1, <1>6, <1>7, <2>2
    <3> QED BY <1>1, <2>2, <3>1, <3>2
  <2> QED BY <2>1, <2>2
<1>12. Waiting'
  <2>1. pc' \in {"check", "sleep"} => pc' = "sleep" /\ verdict' = "none" /\ now' <= Timeout
    BY <1>1, <1>5
  <2>2. pc' # "check" /\ checks' # {} /\ now' \in Nat
    BY <1>1, <1>5, <1>7
  <2>3. now' <= Timeout => now' <= Timeout + 1
    BY <2>2, Bounds
  <2> QED BY <1>10, <1>11, <2>1, <2>2, <2>3, Zenon DEF Waiting
<1>13. t > Timeout => \E c \in checks' : ~c[2]
  <2> SUFFICES ASSUME t > Timeout, \A c \in checks' : c[2] PROVE FALSE
    OBVIOUS
  <2>1. since' <= Probe
    BY <1>10
  <2>2. settle = Settle
    BY Bounds DEF WInv, ClockOK
  <2>3. CASE since = Never
    BY <1>1, <2>1, <2>3, Bounds
  <2>4. CASE since # Never
    BY <1>1, <2>1, <2>2, <2>4, Bounds
  <2> QED BY <2>3, <2>4
<1>14. WaitIsRight'
  BY <1>1, <1>5, <1>13 DEF WaitIsRight, ReadyMeansSettled, GivesUpInTime
<1> QED BY <1>9, <1>12, <1>14 DEF WInv

LEMMA CheckKeeps ==
    ASSUME WInv, Check PROVE WInv'
<1>1. PICK t \in now .. (now + Probe), ok \in {FALSE, box = "running"} :
         /\ now' = t /\ checks' = checks \cup {<<t, ok>>}
         /\ \/ ~ok /\ since' = Never /\ Judged(t)
            \/ /\ ok /\ (settle = 0 \/ (since # Never /\ t - since >= settle))
               /\ verdict' = "ready" /\ Ends /\ UNCHANGED since
            \/ /\ ok /\ settle > 0 /\ (since = Never \/ t - since < settle)
               /\ since' = (IF since = Never THEN t ELSE since)
               /\ Judged(t)
  BY DEF Check
<1>2. pc = "check" /\ UNCHANGED settle /\ ok \in BOOLEAN
  BY DEF Check
<1>3. CASE ~ok /\ since' = Never /\ Judged(t)
  <2>1. checks' = checks \cup {<<t, FALSE>>}
    BY <1>1, <1>2, <1>3
  <2> QED BY <1>1, <1>2, <1>3, <2>1, CheckFails
<1>4. CASE /\ ok /\ (settle = 0 \/ (since # Never /\ t - since >= settle))
           /\ verdict' = "ready" /\ Ends /\ UNCHANGED since
  <2>1. checks' = checks \cup {<<t, TRUE>>} /\ pc' = "idle"
    BY <1>1, <1>2, <1>4 DEF Ends, Goto
  <2> QED BY <1>1, <1>2, <1>4, <2>1, CheckReady
<1>5. CASE /\ ok /\ settle > 0 /\ (since = Never \/ t - since < settle)
           /\ since' = (IF since = Never THEN t ELSE since)
           /\ Judged(t)
  <2>1. checks' = checks \cup {<<t, TRUE>>}
    BY <1>1, <1>2, <1>5
  <2> QED BY <1>1, <1>2, <1>5, <2>1, CheckSettles
<1> QED BY <1>1, <1>3, <1>4, <1>5
---------------------------------------------------------------------------
(* The files. *)

FilesOK ==
    /\ kind \in {"windows", "appliance", "container"}
    /\ image \in {"none", "damaged", "good"} /\ box \in {"absent", "stopped", "running"}
    /\ unpacked \in [Disks -> Contents]
    /\ parts \in [Disks -> Contents]
    /\ disks \in [Disks -> Contents]
    /\ pc \in Labels /\ left \subseteq Disks
    /\ litter \in BOOLEAN

InstallerOK ==
    /\ installer \in [final : Contents, part : Contents]
    /\ installer.final \in {"none", "whole"}
    /\ pc = "rename" => installer.part = "whole"

Fetching == pc \in {"fetch", "download", "copy", "rename", "oem"}
Importing == pc \in {"mkdir", "unpack", "convert", "place"}
Converting == pc \in {"convert", "place"}

\* A machine of an appliance is only made with every disk in its place, and disks
\* are only written while no machine has run from any.
DisksOK ==
    /\ \A d \in Disks : disks[d] \in {"none", "whole", "used"}
    /\ kind = "appliance" /\ (box # "absent" \/ pc \in {"create", "tidy"}) => Imported
    /\ (\E d \in Disks : disks[d] = "used") => Imported
    /\ Fetching => kind = "windows"
    /\ Importing => Disks # {} /\ \A d \in Disks : disks[d] # "used"
    /\ Converting => \A d \in Disks \ left : disks[d] # "none"

\* What is converted has been unpacked from an image that is good.
WorkOK ==
    /\ pc = "unpack" /\ image = "good" => \A d \in Disks \ left : unpacked[d] = "whole"
    /\ Converting => left # {} /\ \A d \in left : unpacked[d] = "whole"
    /\ pc = "place" => parts[First] = "whole"

\* What was unpacked goes.
Cleaned ==
    ~litter /\ pc \notin {"unpack", "convert", "place", "cleanup", "tidy"} => unpacked = NoFiles

FInv == FilesOK /\ InstallerOK /\ DisksOK /\ WorkOK /\ Cleaned

\* A step that leaves the files, and does not enter the import.
LEMMA FilesStay ==
    ASSUME FInv, UNCHANGED <<kind, files, box, left, litter>>, pc' \in Labels,
           \/ pc' = pc
           \/ pc' \notin {"rename", "mkdir", "unpack", "convert", "place", "cleanup", "tidy",
                          "create"}
              /\ pc \notin {"unpack", "convert", "place", "cleanup", "tidy"}
              /\ (Fetching' => kind = "windows")
    PROVE  FInv'
<1> USE DEF FInv, files
<1>1. FilesOK'
  BY DEF FilesOK, Disks
<1>2. InstallerOK'
  BY DEF InstallerOK, Contents
<1>3. DisksOK'
  <2>1. Imported' <=> Imported
    BY DEF Imported, Disks
  <2> QED BY <2>1 DEF DisksOK, Fetching, Importing, Converting, Disks
<1>4. WorkOK'
  <2>1. First' = First
    BY DEF First
  <2> QED BY <2>1 DEF WorkOK, Converting, Disks
<1>5. Cleaned'
  BY DEF Cleaned, NoFiles, Disks
<1> QED BY <1>1, <1>2, <1>3, <1>4, <1>5

\* A machine that boots keeps what the disks promise.
LEMMA Booting ==
    ASSUME FInv, Boots, UNCHANGED <<kind, image, installer, unpacked, parts, left, litter>>,
           pc' \in {"check", "idle"}, ~Importing, pc \notin {"cleanup", "tidy"},
           kind = "appliance" => Imported
    PROVE  FInv' /\ \A d \in Disks : disks[d] = "used" => disks'[d] = "used"
<1> USE DEF FInv
<1>1. /\ disks' \in [Disks -> Contents] /\ box' = "running"
      /\ \A d \in Disks : disks'[d] = disks[d]
                          \/ (kind = "appliance" /\ disks[d] = "whole" /\ disks'[d] = "used")
  BY DEF Boots, Booted, FilesOK, Contents
<1>2. FilesOK'
  BY <1>1 DEF FilesOK, Labels, Disks
<1>3. InstallerOK'
  BY DEF InstallerOK, Contents
<1>4. DisksOK'
  <2>1. Imported => Imported'
    BY <1>1 DEF Imported, Disks
  <2>2. (\E d \in Disks : disks'[d] = "used") => Imported
    BY <1>1 DEF DisksOK
  <2> QED BY <1>1, <2>1, <2>2 DEF DisksOK, Fetching, Importing, Converting, Disks
<1>5. WorkOK' /\ Cleaned'
  BY DEF WorkOK, Converting, Cleaned, NoFiles, Disks, Importing
<1> QED BY <1>1, <1>2, <1>3, <1>4, <1>5

Kept == \A d \in Disks : disks[d] = "used" => disks'[d] = "used"

\* What one step does leaves what the next one relies on.
LEMMA FilesStep ==
    ASSUME FInv, Step
    PROVE  FInv' /\ Kept
<1>0. /\ FilesOK /\ InstallerOK /\ DisksOK /\ WorkOK /\ Cleaned
      /\ pc \in Labels /\ left \subseteq Disks /\ installer \in [final : Contents, part : Contents]
  BY DEF FInv, FilesOK, InstallerOK
<1>1. ASSUME NEW l, Goto(l) PROVE pc' = l /\ left' = left
  BY <1>1 DEF Goto
<1>2. Ends => pc' = "idle" /\ left' = left
  BY DEF Ends, Goto
<1>3. ASSUME UNCHANGED disks PROVE Kept
  BY <1>3 DEF Kept
<1>4. ASSUME UNCHANGED <<kind, files, box, left, litter>>, pc' \in Labels,
             pc' \notin {"rename", "mkdir", "unpack", "convert", "place", "cleanup", "tidy", "create"},
             pc \notin {"unpack", "convert", "place", "cleanup", "tidy"},
             Fetching' => kind = "windows"
      PROVE  FInv' /\ Kept
  BY <1>3, <1>4, FilesStay DEF files
\* A step of the installer touches nothing else.
<1>5. ASSUME UNCHANGED <<kind, image, unpacked, parts, disks, box, left, litter>>, pc' \in Labels,
             pc' \in {"copy", "rename", "oem", "idle"},
             pc \in {"download", "copy", "rename"}, InstallerOK'
      PROVE  FInv' /\ Kept
  <2>1. FilesOK'
    BY <1>0, <1>5 DEF FilesOK, Disks
  <2>2. DisksOK'
    <3>1. Imported' <=> Imported
      BY <1>5 DEF Imported, Disks
    <3> QED BY <1>0, <1>5, <3>1 DEF DisksOK, Fetching, Importing, Converting, Disks
  <2>3. WorkOK' /\ Cleaned'
    BY <1>0, <1>5 DEF WorkOK, Converting, Cleaned, NoFiles, Disks
  <2> QED BY <1>3, <1>5, <2>1, <2>2, <2>3 DEF FInv
<1>6. CASE Fetch
  <2>1. pc' \in {"oem", "download"} /\ left' = left /\ kind = "windows"
    BY <1>0, <1>1, <1>6 DEF Fetch, DisksOK, Fetching
  <2> QED BY <1>4, <1>6, <2>1 DEF Fetch, Labels
<1>7. CASE DownloadOpen
  <2>1. InstallerOK' /\ pc' \in {"copy", "idle"} /\ left' = left
    <3>1. installer' = installer \/ installer' = [installer EXCEPT !.part = "part"]
      BY <1>7 DEF DownloadOpen
    <3>2. pc' \in {"copy", "idle"} /\ left' = left
      BY <1>1, <1>2, <1>7 DEF DownloadOpen
    <3> QED BY <1>0, <3>1, <3>2 DEF InstallerOK, Contents
  <2> QED BY <1>5, <1>7, <2>1 DEF DownloadOpen, Labels
<1>8. CASE DownloadCopy
  <2>1. InstallerOK' /\ pc' \in {"rename", "idle"} /\ left' = left
    <3>1. \/ pc' = "rename" /\ left' = left /\ installer' = [installer EXCEPT !.part = "whole"]
          \/ pc' = "idle" /\ left' = left /\ installer' = installer
      BY <1>1, <1>2, <1>8 DEF DownloadCopy
    <3> QED BY <1>0, <3>1 DEF InstallerOK, Contents
  <2> QED BY <1>5, <1>8, <2>1 DEF DownloadCopy, Labels
<1>9. CASE DownloadRename
  <2>1. InstallerOK' /\ pc' \in {"oem", "idle"} /\ left' = left
    <3>1. \/ /\ pc' = "oem" /\ left' = left
             /\ installer' = [final |-> installer.part, part |-> "none"]
          \/ pc' = "idle" /\ left' = left /\ installer' = installer
      BY <1>1, <1>2, <1>9 DEF DownloadRename
    <3>2. pc = "rename"
      BY <1>9 DEF DownloadRename
    <3> QED BY <1>0, <3>1, <3>2 DEF InstallerOK, Contents
  <2> QED BY <1>5, <1>9, <2>1 DEF DownloadRename, Labels
\* A step that leaves the machine, its disks and the import.
<1>10. ASSUME UNCHANGED <<kind, files, box, left, litter>>, pc' \in Labels,
              pc' # "rename", pc' \in {"create", "mkdir"} => DisksOK',
              pc' \notin {"unpack", "convert", "place", "cleanup", "tidy"},
              ~Fetching',
              pc \notin {"unpack", "convert", "place", "cleanup", "tidy"}
       PROVE  FInv' /\ Kept
  <2>1. FilesOK' /\ InstallerOK'
    BY <1>0, <1>10 DEF FilesOK, InstallerOK, files, Disks, Contents
  <2>2. DisksOK'
    <3>1. Imported' <=> Imported
      BY <1>10 DEF Imported, files, Disks
    <3> QED BY <1>0, <1>10, <3>1 DEF DisksOK, Fetching, Importing, Converting, files, Disks
  <2>3. WorkOK' /\ Cleaned'
    BY <1>0, <1>10 DEF WorkOK, Converting, Cleaned, NoFiles, files, Disks
  <2> QED BY <1>3, <1>10, <2>1, <2>2, <2>3 DEF FInv, files
<1>12. CASE WriteOEM
  <2>1. pc' \in {"create", "idle"} /\ left' = left
    BY <1>1, <1>2, <1>12 DEF WriteOEM
  <2>2. kind = "windows" /\ pc = "oem" /\ UNCHANGED <<kind, files, box, litter>>
    BY <1>0, <1>12 DEF WriteOEM, DisksOK, Fetching
  <2>3. Imported' <=> Imported
    BY <2>2 DEF Imported, files, Disks
  <2>4. DisksOK'
    BY <1>0, <2>1, <2>2, <2>3 DEF DisksOK, Fetching, Importing, Converting, files, Disks
  <2> QED BY <1>10, <2>1, <2>2, <2>4 DEF Labels, Fetching
<1>13. CASE ImportAppliance
  <2>1. /\ pc = "import" /\ UNCHANGED <<kind, files, box, litter>> /\ left' = left
        /\ \/ pc' = "create" /\ (box # "absent" \/ Imported)
           \/ pc' = "idle"
           \/ pc' = "mkdir" /\ ~Imported
    <3>1. PICK there \in Exists :
             IF there \/ Imported THEN Goto("create")
             ELSE IF image = "none" THEN Ends ELSE Goto("mkdir")
      BY <1>13 DEF ImportAppliance
    <3>2. there => box # "absent"
      BY <3>1, Zenon DEF Exists
    <3>3. there \in BOOLEAN
      BY <3>1, Zenon DEF Exists
    <3>4. CASE there \/ Imported
      BY <1>1, <1>13, <3>1, <3>2, <3>4 DEF ImportAppliance
    <3>5. CASE ~(there \/ Imported)
      BY <1>1, <1>2, <1>13, <3>1, <3>5 DEF ImportAppliance
    <3> QED BY <3>4, <3>5
  <2>2. Imported' <=> Imported
    BY <2>1 DEF Imported, files, Disks
  <2>4. ~Imported => Disks # {} /\ \A d \in Disks : disks[d] # "used"
    BY <1>0 DEF DisksOK, Imported
  <2>5. DisksOK'
    BY <1>0, <2>1, <2>2, <2>4 DEF DisksOK, Fetching, Importing, Converting, files, Disks
  <2> QED BY <1>10, <2>1, <2>5 DEF Labels, Fetching
<1>14. CASE ImportDisks
  <2>1. /\ pc = "mkdir" /\ UNCHANGED <<kind, files, box, litter>>
        /\ \/ pc' = "unpack" /\ left' = Disks
           \/ pc' \in {"cleanup", "idle"} /\ left' = left
    BY <1>1, <1>2, <1>14 DEF ImportDisks
  <2>2. Imported' <=> Imported
    BY <2>1 DEF Imported, files, Disks
  <2>3. FilesOK' /\ InstallerOK'
    BY <1>0, <2>1 DEF FilesOK, InstallerOK, files, Contents, Labels
  <2>4. DisksOK'
    BY <1>0, <2>1, <2>2 DEF DisksOK, Fetching, Importing, Converting, files, Disks
  <2>5. WorkOK' /\ Cleaned'
    BY <1>0, <2>1 DEF WorkOK, Converting, Cleaned, NoFiles, files, Disks
  <2> QED BY <1>3, <2>1, <2>3, <2>4, <2>5 DEF FInv, files
<1>15. CASE UnpackMember
  <2>1. PICK d \in left :
          \/ /\ unpacked' = [unpacked EXCEPT ![d] = IF image = "good" THEN "whole" ELSE "bad"]
             /\ left' = left \ {d} /\ pc' = "unpack"
          \/ unpacked' = [unpacked EXCEPT ![d] = "part"] /\ pc' = "cleanup" /\ left' = left
    BY <1>1, <1>15 DEF UnpackMember
  <2>2. pc = "unpack" /\ UNCHANGED <<kind, image, installer, parts, disks, box, litter>>
    BY <1>15 DEF UnpackMember
  <2>3. Imported' <=> Imported
    BY <2>2 DEF Imported, Disks
  <2>4. FilesOK' /\ InstallerOK'
    BY <1>0, <2>1, <2>2 DEF FilesOK, InstallerOK, Contents, Labels
  <2>5. DisksOK'
    BY <1>0, <2>1, <2>2, <2>3 DEF DisksOK, Fetching, Importing, Converting
  <2>6. WorkOK'
    BY <1>0, <2>1, <2>2 DEF WorkOK, Converting, FilesOK
  <2>7. Cleaned'
    BY <2>1 DEF Cleaned
  <2> QED BY <1>3, <2>2, <2>4, <2>5, <2>6, <2>7 DEF FInv
<1>16. CASE UnpackDigest
  <2>1. /\ pc = "unpack" /\ left = {} /\ UNCHANGED <<kind, files, box, litter>>
        /\ \/ image = "good" /\ pc' = "convert" /\ left' = Disks
           \/ pc' = "cleanup" /\ left' = left
    BY <1>1, <1>16 DEF UnpackDigest
  <2>2. Imported' <=> Imported
    BY <2>1 DEF Imported, files, Disks
  <2>3. FilesOK' /\ InstallerOK'
    BY <1>0, <2>1 DEF FilesOK, InstallerOK, files, Disks, Contents, Labels
  <2>4. DisksOK'
    BY <1>0, <2>1, <2>2 DEF DisksOK, Fetching, Importing, Converting, files, Disks
  <2>5. WorkOK' /\ Cleaned'
    BY <1>0, <2>1 DEF WorkOK, DisksOK, Importing, Converting, Cleaned, NoFiles, files, Disks
  <2> QED BY <1>3, <2>1, <2>3, <2>4, <2>5 DEF FInv, files
<1>17. ASSUME Converting PROVE First \in left /\ First \in Disks /\ unpacked[First] = "whole"
  <2>1. First \in left
    BY <1>0, <1>17, FirstIn DEF WorkOK
  <2> QED BY <1>0, <1>17, <2>1 DEF WorkOK
<1>18. CASE Convert
  <2>1. /\ pc = "convert" /\ left' = left
        /\ UNCHANGED <<kind, image, installer, unpacked, disks, box, litter>>
        /\ \/ parts' = [parts EXCEPT ![First] = unpacked[First]] /\ pc' = "place"
           \/ parts' = [parts EXCEPT ![First] = "part"] /\ pc' = "cleanup"
    BY <1>1, <1>18 DEF Convert
  <2>2. First \in Disks /\ unpacked[First] = "whole" /\ First' = First
    BY <1>17, <2>1 DEF Converting, First
  <2>3. Imported' <=> Imported
    BY <2>1 DEF Imported, Disks
  <2>4. FilesOK' /\ InstallerOK'
    BY <1>0, <2>1, <2>2 DEF FilesOK, InstallerOK, Contents, Labels
  <2>5. DisksOK'
    BY <1>0, <2>1, <2>3 DEF DisksOK, Fetching, Importing, Converting
  <2>6. parts'[First] = "whole" \/ pc' = "cleanup"
    BY <1>0, <2>1, <2>2 DEF FilesOK
  <2>7. WorkOK' /\ Cleaned'
    BY <1>0, <2>1, <2>2, <2>6 DEF WorkOK, Converting, Cleaned
  <2> QED BY <1>3, <2>1, <2>4, <2>5, <2>7 DEF FInv
<1>19. CASE ConvertRename
  <2>1. /\ pc = "place" /\ UNCHANGED <<kind, image, installer, unpacked, box, litter>>
        /\ \/ /\ disks' = [disks EXCEPT ![First] = parts[First]]
              /\ parts' = [parts EXCEPT ![First] = "none"]
              /\ left' = left \ {First}
              /\ pc' = IF left' = {} THEN "tidy" ELSE "convert"
           \/ pc' = "cleanup" /\ left' = left /\ UNCHANGED <<parts, disks>>
    BY <1>1, <1>19 DEF ConvertRename
  <2>2. First \in Disks /\ First \in left /\ parts[First] = "whole"
    BY <1>0, <1>17, <2>1 DEF Converting, WorkOK
  <2>3. \/ disks' = [disks EXCEPT ![First] = "whole"] /\ left' = left \ {First}
           /\ pc' \in {"tidy", "convert"} /\ (left' = {} <=> pc' = "tidy")
        \/ disks' = disks /\ pc' = "cleanup" /\ left' = left
    BY <2>1, <2>2
  <2>4. FilesOK' /\ InstallerOK'
    <3>1. parts' \in [Disks -> Contents] /\ disks' \in [Disks -> Contents]
      BY <1>0, <2>1, <2>3 DEF FilesOK, Contents
    <3> QED BY <1>0, <2>1, <2>3, <3>1 DEF FilesOK, InstallerOK, Contents, Labels
  <2>5. Kept
    BY <1>0, <2>1, <2>3 DEF Kept, DisksOK, Importing
  <2>6. disks' \in [Disks -> Contents] /\ Importing /\ Converting /\ disks \in [Disks -> Contents]
    BY <1>0, <2>1, <2>4 DEF FilesOK, Importing, Converting
  <2>7. /\ \A d \in Disks : disks'[d] \in {"none", "whole"}
        /\ pc' # "cleanup" => \A d \in Disks \ left' : disks'[d] # "none"
        /\ Disks # {}
    BY <1>0, <2>3, <2>6 DEF DisksOK
  <2>8. Imported => Imported'
    BY <2>2, <2>3, <2>6 DEF Imported
  <2>9. pc' = "tidy" => Imported'
    BY <2>3, <2>7 DEF Imported
  <2>10. DisksOK'
    BY <1>0, <2>1, <2>3, <2>7, <2>8, <2>9 DEF DisksOK, Fetching, Importing, Converting
  <2>11. WorkOK' /\ Cleaned'
    BY <1>0, <2>1, <2>3 DEF WorkOK, Converting, Cleaned
  <2> QED BY <2>4, <2>5, <2>10, <2>11 DEF FInv
<1>20. CASE RemoveWork
  <2>1. /\ pc \in {"cleanup", "tidy"} /\ litter' = (unpacked' # NoFiles) /\ left' = left
        /\ unpacked' \in [Disks -> Contents]
        /\ pc' = IF pc = "tidy" THEN "create" ELSE "idle"
        /\ UNCHANGED <<kind, image, installer, parts, disks, box>>
    <3>1. PICK gone \in SUBSET Disks :
            unpacked' = [d \in Disks |-> IF d \in gone THEN "none" ELSE unpacked[d]]
      BY <1>20 DEF RemoveWork
    <3>2. unpacked' \in [Disks -> Contents]
      BY <1>0, <3>1 DEF FilesOK, Contents
    <3> QED BY <1>1, <1>20, <3>2 DEF RemoveWork
  <2>2. Imported' <=> Imported
    BY <2>1 DEF Imported, Disks
  <2>3. FilesOK' /\ InstallerOK'
    BY <1>0, <2>1 DEF FilesOK, InstallerOK, Contents, Labels, NoFiles
  <2>4. DisksOK'
    BY <1>0, <2>1, <2>2 DEF DisksOK, Fetching, Importing, Converting
  <2>5. WorkOK' /\ Cleaned'
    BY <2>1 DEF WorkOK, Converting, Cleaned, NoFiles
  <2> QED BY <1>3, <2>1, <2>3, <2>4, <2>5 DEF FInv
\* A machine that is gone, or there without running.
<1>21. ASSUME UNCHANGED <<kind, files, left, litter>>, pc' = "idle",
              pc \in {"create", "start", "remove"}, box' \in {"absent", "stopped", "running"},
              box' # box /\ box' # "absent" /\ kind = "appliance" => Imported
       PROVE  FInv' /\ Kept
  <2>1. Imported' <=> Imported
    BY <1>21 DEF Imported, files, Disks
  <2>2. FilesOK' /\ InstallerOK'
    BY <1>0, <1>21 DEF FilesOK, InstallerOK, files, Disks, Contents, Labels
  <2>3. DisksOK'
    BY <1>0, <1>21, <2>1 DEF DisksOK, Fetching, Importing, Converting, files, Disks
  <2>4. WorkOK' /\ Cleaned'
    BY <1>0, <1>21 DEF WorkOK, Converting, Cleaned, NoFiles, files, Disks
  <2> QED BY <1>3, <1>21, <2>2, <2>3, <2>4 DEF FInv, files
<1>22. CASE CreateMachine
  <2>1. pc = "create" /\ UNCHANGED <<kind, image, installer, unpacked, parts, litter>>
    BY <1>22 DEF CreateMachine
  <2>2. kind = "appliance" => Imported
    BY <1>0, <2>1 DEF DisksOK
  <2>3. CASE Boots /\ Await(0)
    <3>1. pc' = "check" /\ left' = left
      BY <2>3 DEF Await, Goto
    <3> QED BY <2>1, <2>2, <2>3, <3>1, Booting DEF Importing, Kept
  <2>4. CASE box' \in {box, "stopped"} /\ Ends /\ UNCHANGED <<disks, clock>>
    <3>1. box \in {"absent", "stopped", "running"}
      BY <1>0 DEF FilesOK
    <3> QED BY <1>2, <1>21, <2>1, <2>2, <2>4, <3>1 DEF files
  <2> QED BY <1>22, <2>3, <2>4 DEF CreateMachine
<1>23. CASE Watch
  BY <1>1, <1>2, <1>4, <1>23 DEF Watch, Labels, Fetching
<1>24. CASE Start
  <2>1. pc = "start" /\ UNCHANGED <<kind, image, installer, unpacked, parts, litter>>
    BY <1>24 DEF Start
  <2>2. ASSUME NEW for, Await(for) PROVE pc' = "check" /\ left' = left
    BY <2>2 DEF Await, Goto
  <2>3. CASE box = "running" /\ Await(0) /\ UNCHANGED <<box, disks>>
    BY <1>4, <2>1, <2>2, <2>3 DEF files, Labels, Fetching
  <2>4. CASE /\ box = "stopped" \/ (box = "absent" /\ kind = "container")
             /\ Boots /\ Await(IF kind = "container" THEN Settle ELSE 0)
    <3>1. pc' = "check" /\ left' = left
      BY <2>2, <2>4
    <3>2. kind = "appliance" => Imported
      BY <1>0, <2>4 DEF DisksOK
    <3> QED BY <2>1, <2>4, <3>1, <3>2, Booting DEF Importing, Kept
  <2>5. CASE Ends /\ UNCHANGED <<box, disks, clock>>
    BY <1>2, <1>4, <2>1, <2>5 DEF files, Labels, Fetching
  <2> QED BY <1>24, <2>3, <2>4, <2>5 DEF Start
<1>25. CASE Check
  <2>1. pc' \in {"idle", "sleep"} /\ left' = left
    BY <1>1, <1>2, <1>25 DEF Check, Judged
  <2> QED BY <1>4, <1>25, <2>1 DEF Check, Labels, Fetching
<1>26. CASE Pause
  <2>1. pc' \in {"idle", "check"} /\ left' = left
    BY <1>1, <1>2, <1>26 DEF Pause
  <2> QED BY <1>4, <1>26, <2>1 DEF Pause, Labels, Fetching
<1>27. CASE Remove
  <2>1. box \in {"absent", "stopped", "running"}
    BY <1>0 DEF FilesOK
  <2> QED BY <1>2, <1>21, <1>27, <2>1 DEF Remove, files
<1> QED BY <1>6, <1>7, <1>8, <1>9, <1>12, <1>13, <1>14, <1>15, <1>16, <1>18, <1>19, <1>20,
           <1>22, <1>23, <1>24, <1>25, <1>26, <1>27 DEF Step

---------------------------------------------------------------------------
(* What they come to. *)

IInv == FInv /\ WInv

LEMMA ProvisionInit == Init => IInv /\ TypeOK
<1> SUFFICES ASSUME Init PROVE IInv /\ TypeOK
  OBVIOUS
<1>1. /\ NoFiles \in [Disks -> Contents] /\ (\A d \in Disks : NoFiles[d] = "none")
  BY DEF NoFiles, Contents
<1>2. FilesOK /\ InstallerOK
  BY <1>1 DEF Init, FilesOK, InstallerOK, Labels, Contents
<1>3. DisksOK
  <2>1. \A d \in Disks : disks[d] = "none"
    BY <1>1 DEF Init
  <2> QED BY <2>1 DEF Init, DisksOK, Fetching, Importing, Converting
<1>4. WorkOK /\ Cleaned
  BY DEF Init, WorkOK, Converting, Cleaned
<1>5. WInv
  <2>1. ClockOK
    BY Bounds DEF Init, ClockOK, Never
  <2> QED BY <2>1 DEF Init, WInv, Waiting, WaitIsRight, ReadyMeansSettled, GivesUpInTime
<1>6. TypeOK
  BY <1>2, <1>5, Bounds DEF Init, TypeOK, FilesOK, InstallerOK, WInv, ClockOK
<1> QED BY <1>2, <1>3, <1>4, <1>5, <1>6 DEF IInv, FInv

LEMMA WaitStep ==
    ASSUME WInv, pc \in Labels, Step
    PROVE  WInv'
<1>1. ASSUME NEW l, Goto(l) PROVE pc' = l
  BY <1>1 DEF Goto
<1>2. Ends => pc' = "idle"
  BY DEF Ends, Goto
<1> USE WaitStays
<1>3. CASE Fetch
  BY <1>1, <1>3 DEF Fetch
<1>4. CASE DownloadOpen
  BY <1>1, <1>2, <1>4 DEF DownloadOpen
<1>5. CASE DownloadCopy
  BY <1>1, <1>2, <1>5 DEF DownloadCopy
<1>6. CASE DownloadRename
  BY <1>1, <1>2, <1>6 DEF DownloadRename
<1>7. CASE WriteOEM
  BY <1>1, <1>2, <1>7 DEF WriteOEM
<1>8. CASE ImportAppliance
  BY <1>1, <1>2, <1>8 DEF ImportAppliance
<1>9. CASE ImportDisks
  BY <1>1, <1>2, <1>9 DEF ImportDisks
<1>10. CASE UnpackMember
  BY <1>1, <1>2, <1>10 DEF UnpackMember
<1>11. CASE UnpackDigest
  BY <1>1, <1>2, <1>11 DEF UnpackDigest
<1>12. CASE Convert
  BY <1>1, <1>2, <1>12 DEF Convert
<1>13. CASE ConvertRename
  BY <1>1, <1>2, <1>13 DEF ConvertRename
<1>14. CASE RemoveWork
  BY <1>1, <1>2, <1>14 DEF RemoveWork
<1>15. CASE CreateMachine
  <2>1. CASE Await(0)
    BY <2>1, WaitBegins
  <2>2. CASE Ends /\ UNCHANGED clock
    BY <1>2, <2>2
  <2> QED BY <1>15, <2>1, <2>2 DEF CreateMachine
<1>16. CASE Watch
  BY <1>1, <1>2, <1>16 DEF Watch
<1>17. CASE Start
  <2>1. ASSUME NEW for \in {0, Settle}, Await(for) PROVE WInv'
    BY <2>1, WaitBegins
  <2>2. CASE Ends /\ UNCHANGED clock
    BY <1>2, <2>2
  <2> QED BY <1>17, <2>1, <2>2 DEF Start
<1>18. CASE Check
  BY <1>18, CheckKeeps
<1>19. CASE Pause
  <2>1. CASE now' = now + 1 /\ Goto("check")
    <3>1. /\ pc = "sleep" /\ pc' = "check" /\ now \in Nat /\ now <= Timeout /\ verdict = "none"
          /\ now' = now + 1 /\ UNCHANGED <<settle, since, checks, verdict>>
          /\ checks # {} /\ checks \subseteq (0 .. now) \X BOOLEAN
          /\ since \in (0 .. now) \cup {Never}
          /\ since # Never => <<since, TRUE>> \in checks /\ \A c \in checks : c[1] >= since => c[2]
          /\ settle > 0 /\ (\A c \in checks : c[2]) => since <= Probe
      BY <1>1, <1>19, <2>1, Bounds DEF Pause, WInv, ClockOK, Waiting
    <3>2. \A c \in checks : c[1] < now'
      BY <3>1
    <3>3. now' \in 0 .. (Never - 1) /\ since \in (0 .. now') \cup {Never} /\ now' <= Timeout + 1
      BY <3>1, Bounds
    <3>4. checks' \subseteq (0 .. now') \X BOOLEAN
      <4>1. 0 .. now \subseteq 0 .. now'
        BY <3>1
      <4> QED BY <3>1, <4>1
    <3>5. ClockOK'
      <4>1. settle' \in {0, Settle}
        BY <3>1 DEF WInv, ClockOK
      <4> QED BY <3>1, <3>3, <3>4, <4>1, Zenon DEF ClockOK, Never
    <3>6. Waiting'
      <4>1. pc' # "sleep" /\ now' <= Timeout + 1 /\ checks' = checks /\ since' = since
        BY <3>1, <3>3
      <4> QED BY <3>1, <3>2, <4>1, Zenon DEF Waiting, Never
    <3>7. WaitIsRight'
      BY <3>1 DEF WaitIsRight, ReadyMeansSettled, GivesUpInTime
    <3> QED BY <3>5, <3>6, <3>7 DEF WInv
  <2>2. CASE Ends /\ UNCHANGED now
    BY <1>2, <1>19, <2>2 DEF Pause, clock
  <2> QED BY <1>19, <2>1, <2>2 DEF Pause
<1>20. CASE Remove
  BY <1>2, <1>20 DEF Remove
<1> QED BY <1>3, <1>4, <1>5, <1>6, <1>7, <1>8, <1>9, <1>10, <1>11, <1>12, <1>13, <1>14, <1>15,
           <1>16, <1>17, <1>18, <1>19, <1>20 DEF Step

\* And what goes on around the process leaves it too.
LEMMA AroundStep ==
    ASSUME IInv, (\E c \in Commands : Begin(c)) \/ Fetched \/ Exit \/ Crash
    PROVE  IInv' /\ Kept
<1>0. /\ FInv /\ WInv /\ FilesOK /\ InstallerOK /\ DisksOK /\ WorkOK /\ Cleaned
      /\ pc \in Labels
  BY DEF IInv, FInv, FilesOK
<1>1. CASE \E c \in Commands : Begin(c)
  <2>1. PICK c \in Commands : Begin(c)
    BY <1>1
  <2>2. /\ pc = "idle" /\ UNCHANGED <<kind, files, box, clock, litter>> /\ left' = left
        /\ pc' \in {"fetch", "import", "idle", "provision", "start", "remove"}
        /\ pc' = "fetch" => kind = "windows"
        /\ pc' # "provision"
    <3>1. kind \in {"windows", "appliance", "container"} /\ c \in {"provision", "start", "remove"}
      BY <1>0, <2>1 DEF FilesOK, Commands
    <3> QED BY <2>1, <3>1 DEF Begin, Goto
  <2>3. FInv' /\ WInv'
    BY <1>0, <2>2, FilesStay, WaitStays DEF Labels, Fetching
  <2>4. Kept
    BY <2>2 DEF Kept, files
  <2> QED BY <2>3, <2>4 DEF IInv
<1>2. CASE Fetched
  <2>1. /\ pc = "idle" /\ image' \in {"damaged", "good"}
        /\ UNCHANGED <<kind, installer, unpacked, parts, disks, box, pc, left, clock, litter>>
    BY <1>2 DEF Fetched
  <2>2. Imported' <=> Imported
    BY <2>1 DEF Imported, Disks
  <2>3. FilesOK' /\ InstallerOK' /\ DisksOK' /\ WorkOK' /\ Cleaned'
    BY <1>0, <2>1, <2>2 DEF FilesOK, InstallerOK, Contents, DisksOK, Fetching, Importing, Converting,
       WorkOK, Cleaned, NoFiles
  <2>4. WInv'
    BY <1>0, <2>1, WaitStays
  <2>5. Kept
    BY <2>1 DEF Kept
  <2> QED BY <2>3, <2>4, <2>5 DEF IInv, FInv
<1>3. CASE Exit
  <2>1. /\ box = "running" /\ box' = "stopped"
        /\ UNCHANGED <<kind, files, pc, left, clock, litter>>
    BY <1>3 DEF Exit
  <2>2. Imported' <=> Imported
    BY <2>1 DEF Imported, files, Disks
  <2>3. First' = First
    BY <2>1 DEF First
  <2>4. FilesOK' /\ InstallerOK'
    BY <1>0, <2>1 DEF FilesOK, InstallerOK, Contents, files
  <2>5. DisksOK'
    BY <1>0, <2>1, <2>2 DEF DisksOK, Fetching, Importing, Converting, files
  <2>6. WorkOK' /\ Cleaned'
    BY <1>0, <2>1, <2>3 DEF Converting, WorkOK, Cleaned, NoFiles, files
  <2>7. WInv'
    BY <1>0, <2>1, WaitStays
  <2>8. Kept
    BY <2>1 DEF Kept, files
  <2> QED BY <2>4, <2>5, <2>6, <2>7, <2>8 DEF IInv, FInv
<1>4. CASE Crash
  <2>1. /\ pc' = "idle" /\ left' = left /\ litter' = (litter \/ unpacked # NoFiles)
        /\ UNCHANGED <<kind, files, box, clock>>
    BY <1>4 DEF Crash, Ends, Goto
  <2>2. Imported' <=> Imported
    BY <2>1 DEF Imported, files, Disks
  <2>3. FilesOK' /\ InstallerOK'
    BY <1>0, <2>1 DEF FilesOK, InstallerOK, Contents, files, Labels
  <2>4. DisksOK'
    BY <1>0, <2>1, <2>2 DEF DisksOK, Fetching, Importing, Converting, files
  <2>5. WorkOK' /\ Cleaned'
    BY <2>1 DEF Converting, WorkOK, Cleaned, NoFiles, files
  <2>6. WInv'
    BY <1>0, <2>1, WaitStays
  <2>7. Kept
    BY <2>1 DEF Kept, files
  <2> QED BY <2>3, <2>4, <2>5, <2>6, <2>7 DEF IInv, FInv
<1> QED BY <1>1, <1>2, <1>3, <1>4

LEMMA ProvisionStep == IInv /\ [Next]_vars => IInv' /\ Kept
<1> SUFFICES ASSUME IInv, [Next]_vars PROVE IInv' /\ Kept
  OBVIOUS
<1>1. FInv /\ WInv /\ pc \in Labels
  BY DEF IInv, FInv, FilesOK
<1>2. CASE Step
  BY <1>1, <1>2, FilesStep, WaitStep DEF IInv
<1>3. CASE (\E c \in Commands : Begin(c)) \/ Fetched \/ Exit \/ Crash
  BY <1>3, AroundStep
<1>4. CASE UNCHANGED vars
  <2>1. UNCHANGED <<kind, files, box, left, litter, pc, clock>>
    BY <1>4 DEF vars, files, clock
  <2>2. FInv' /\ WInv'
    BY <1>1, <2>1, FilesStay, WaitStays
  <2> QED BY <2>1, <2>2 DEF IInv, Kept, files
<1> QED BY <1>2, <1>3, <1>4 DEF Next

LEMMA ProvisionAlways == Spec => []IInv
<1>1. IInv /\ [Next]_vars => IInv'
  BY ProvisionStep
<1>2. Init => IInv
  BY ProvisionInit
<1> QED BY <1>1, <1>2, PTL DEF Spec

\* A file under its own name is whole, whatever fails and whenever a process is
\* killed (download, unpack and the conversion of importAppliance).
THEOREM FinishedCorrect == Spec => []FinishedMeansWhole
<1>1. IInv => FinishedMeansWhole
  BY DEF IInv, FInv, InstallerOK, DisksOK, FinishedMeansWhole
<1> QED BY ProvisionAlways, <1>1, PTL

\* A disk that a machine has run from is never written again (importAppliance).
THEOREM DisksCorrect == Spec => DisksAreKept
<1>1. IInv /\ [Next]_vars => [Kept]_vars
  BY ProvisionStep
<1> HIDE DEF Kept
<1>2. Spec => [][Kept]_vars
  BY ProvisionAlways, <1>1, PTL DEF Spec
<1> QED BY <1>2 DEF Kept, DisksAreKept

\* What was unpacked is gone when a command has come to its end, unless it could
\* not be removed (importDisks).
THEOREM WorkCorrect == Spec => []WorkIsRemoved
<1>1. IInv => WorkIsRemoved
  BY DEF IInv, FInv, Cleaned, WorkIsRemoved
<1> QED BY ProvisionAlways, <1>1, PTL

\* A wait ends with what the checks say (waitReady and waitForAnswer), for every
\* settle that fits in its timeout with one check.
THEOREM WaitCorrect == Spec => []WaitIsRight
<1>1. IInv => WaitIsRight
  BY DEF IInv, WInv
<1> QED BY ProvisionAlways, <1>1, PTL

\* Every variable keeps its type.
THEOREM TypeCorrect == Spec => []TypeOK
<1> DEFINE More == count \in 0 .. MaxCommands
<1>1. Init => More
  BY Bounds DEF Init
<1>2. More /\ [Next]_vars => More'
  <2> SUFFICES ASSUME More, [Next]_vars PROVE More'
    OBVIOUS
  <2>1. ASSUME NEW c \in Commands, Begin(c) PROVE More'
    BY <2>1, Bounds DEF Begin
  <2>2. CASE UNCHANGED count
    BY <2>2
  <2>3. Step => UNCHANGED count
    BY DEF Step, Fetch, DownloadOpen, DownloadCopy, DownloadRename, WriteOEM, ImportAppliance,
       ImportDisks, UnpackMember, UnpackDigest, Convert, ConvertRename, RemoveWork,
       CreateMachine, Watch, Start, Check, Pause, Remove
  <2>4. Fetched \/ Exit \/ Crash \/ UNCHANGED vars => UNCHANGED count
    BY DEF Fetched, Exit, Crash, vars
  <2> QED BY <2>1, <2>2, <2>3, <2>4 DEF Next
<1>3. IInv /\ More => TypeOK
  BY DEF IInv, FInv, FilesOK, InstallerOK, WInv, ClockOK, TypeOK
<1> HIDE DEF More
<1>4. Spec => []More
  BY <1>1, <1>2, PTL DEF Spec
<1> QED BY ProvisionAlways, <1>3, <1>4, PTL
=============================================================================
