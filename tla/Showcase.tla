------------------------------ MODULE Showcase ------------------------------
(***************************************************************************)
(* The loop that keeps the showcase of applications up to date             *)
(* (ShowcaseSettingsUpdater): every 90 seconds it fetches the settings,    *)
(* publishes them for the home page (ShowcaseSettingsOptions) and brings   *)
(* the folder of logos into line with them.                                *)
(*                                                                         *)
(* The folder outlives the process, the settings do not.  Any step may     *)
(* fail; most failures end the round, and the next one starts anew.  Of    *)
(* the settings only the names of the links' logos matter here.            *)
(*                                                                         *)
(* The code tells names apart by their letters' case and Windows does not: *)
(* FileOf is the file a name stands for.  NamesAreFiles says that no two   *)
(* names of the showcase share a file: an assumption about what the        *)
(* administrator enters, under which the properties below hold.            *)
(***************************************************************************)
EXTENDS Naturals, FiniteSets

CONSTANTS
    Images,      \* names of logos
    FileOf,      \* the file a name stands for
    Blank,       \* the name of a link that has no logo of its own
    MaxChanges,  \* bound: how often the administrator changes the showcase
    MaxFaults    \* bound: failures and recycles

ASSUME ShowcaseAssumption ==
    /\ Blank \notin Images
    /\ FileOf \in [Images -> Images]
    /\ MaxChanges \in Nat
    /\ MaxFaults \in Nat

NamesAreFiles == \A i, j \in Images : FileOf[i] = FileOf[j] => i = j

VARIABLES
    cloud,    \* API: the logos of the links
    current,  \* ShowcaseSettingsOptions: those of the published links
    files,    \* the folder: what is under each name
    step,     \* where the loop is
    settings, \* the settings of this round
    missing,  \* missingFiles, those still to come
    extra,    \* extraFiles, those still there
    writing,  \* the file being written
    changes, faults, \* counters of the bounds
    sound,    \* history: nothing has failed in this round
    broken    \* history: files whose writing was broken off

round == <<step, settings, missing, extra, writing, sound>>
vars == <<cloud, current, files, round, changes, faults, broken>>

-----------------------------------------------------------------------------
Names == Images \union {Blank}

TypeOK ==
    /\ cloud \subseteq Names
    /\ current \subseteq Names
    /\ files \in [Images -> {"absent", "partial", "complete"}]
    /\ step \in {"fetch", "publish", "list", "logos", "write", "wait"}
    /\ settings \subseteq Names
    /\ missing \subseteq Names
    /\ extra \subseteq Images
    /\ writing \subseteq Images
    /\ changes \in 0 .. MaxChanges
    /\ faults \in 0 .. MaxFaults
    /\ sound \in BOOLEAN
    /\ broken \subseteq Images

(* The names in the folder, and the one a logo's file has there, if any.   *)
Local == {i \in Images : files[i] # "absent"}

Stored(i) == {j \in Local : FileOf[j] = FileOf[i]}

Init ==
    /\ cloud \in SUBSET Names
    /\ current = {}
    /\ files = [i \in Images |-> "absent"]
    /\ step = "fetch"
    /\ settings = {} /\ missing = {} /\ extra = {} /\ writing = {}
    /\ changes = 0 /\ faults = 0
    /\ sound = TRUE
    /\ broken = {}

-----------------------------------------------------------------------------
(* The administrator publishes another showcase.                           *)
ChangeShowcase(s) ==
    /\ changes < MaxChanges
    /\ cloud' = s
    /\ changes' = changes + 1
    /\ UNCHANGED <<current, files, round, faults, broken>>

(* A fault ends the round: catch (Exception), and Delay.  What the round   *)
(* still had to do is forgotten.                                           *)
Abandon ==
    /\ faults < MaxFaults
    /\ faults' = faults + 1
    /\ step' = "wait"
    /\ missing' = {} /\ extra' = {} /\ writing' = {}
    /\ sound' = FALSE
    /\ UNCHANGED <<cloud, current, files, settings, changes>>

-----------------------------------------------------------------------------
(***************************************************************************)
(* Loop.                                                                   *)
(***************************************************************************)

(* GetShowcaseSettingsAsync.                                               *)
Fetch ==
    /\ step = "fetch"
    /\ settings' = cloud
    /\ step' = "publish"
    /\ UNCHANGED <<cloud, current, files, missing, extra, writing, changes, faults,
                   sound, broken>>

FetchFails ==
    /\ step = "fetch"
    /\ Abandon
    /\ UNCHANGED broken

(* Variant: only the first settings are published. *)
PublishOnce ==
    /\ step = "publish"
    /\ current' = IF current = {} THEN settings ELSE current
    /\ step' = "list"
    /\ UNCHANGED <<cloud, files, settings, missing, extra, writing, changes, faults,
                   sound, broken>>

(* Update: the home page shows the new links before their logos are there. *)
Publish ==
    /\ step = "publish"
    /\ current' = settings
    /\ step' = "list"
    /\ UNCHANGED <<cloud, files, settings, missing, extra, writing, changes, faults,
                   sound, broken>>

-----------------------------------------------------------------------------
(***************************************************************************)
(* UpdateLogos.                                                            *)
(***************************************************************************)

(* Variant: what is not missing is taken to be extra. *)
ListFilesConfused ==
    /\ step = "list"
    /\ missing' = settings \ Local
    /\ extra' = Local \ (settings \ Local)
    /\ step' = "logos"
    /\ UNCHANGED <<cloud, current, files, settings, writing, changes, faults, sound, broken>>

(* GetFiles, compared with the settings by name only, letter by letter: a  *)
(* file whose writing was broken off counts as there, and one whose name   *)
(* has other letters (mail.png, Mail.png) does not.                        *)
ListFiles ==
    /\ step = "list"
    /\ missing' = settings \ Local
    /\ extra' = Local \ settings
    /\ step' = "logos"
    /\ UNCHANGED <<cloud, current, files, settings, writing, changes, faults, sound, broken>>

ListFails ==
    /\ step = "list"
    /\ Abandon
    /\ UNCHANGED broken

(* GetShowcaseLogoAsync has sent data and WriteAllBytes creates the file,  *)
(* or overwrites the one that is there, under the name it has there.       *)
LoadLogo(i) ==
    /\ step = "logos"
    /\ i \in missing \ {Blank}
    /\ missing' = missing \ {i}
    /\ writing' = IF Stored(i) = {} THEN {i} ELSE Stored(i)
    /\ files' = [j \in Images |-> IF j \in writing' THEN "partial" ELSE files[j]]
    /\ step' = "write"
    /\ UNCHANGED <<cloud, current, settings, extra, changes, faults, sound, broken>>

FinishLogo ==
    /\ step = "write"
    /\ files' = [i \in Images |-> IF i \in writing THEN "complete" ELSE files[i]]
    /\ writing' = {}
    /\ step' = "logos"
    /\ UNCHANGED <<cloud, current, settings, missing, extra, changes, faults, sound, broken>>

(* The file cannot be written to its end: what is there stays.             *)
WriteFails ==
    /\ step = "write"
    /\ Abandon
    /\ broken' = broken \union writing

(* The API has no logo under this name (no data, or HttpRequestException   *)
(* for a status that is not a success): the next one.  For the name of a   *)
(* link without a logo this is the usual answer, otherwise a fault.        *)
SkipLogo(i) ==
    /\ step = "logos"
    /\ i \in missing
    /\ missing' = missing \ {i}
    /\ \/ i = Blank /\ UNCHANGED <<faults, sound>>
       \/ /\ i # Blank
          /\ faults < MaxFaults
          /\ faults' = faults + 1
          /\ sound' = FALSE
    /\ UNCHANGED <<cloud, current, files, step, settings, extra, writing, changes, broken>>

(* The API refuses the portal or cannot be reached, or it has sent data    *)
(* for the blank name, under which nothing can be written.                 *)
LogosFail ==
    /\ step = "logos"
    /\ missing # {}
    /\ Abandon
    /\ UNCHANGED broken

(* Variant: the file is taken off the list and stays. *)
DeleteFileNot(i) ==
    /\ step = "logos"
    /\ missing = {}
    /\ i \in extra
    /\ extra' = extra \ {i}
    /\ UNCHANGED <<cloud, current, files, step, settings, missing, writing, changes,
                   faults, sound, broken>>

(* Delete, once all logos have been tried.                                 *)
DeleteFile(i) ==
    /\ step = "logos"
    /\ missing = {}
    /\ i \in extra
    /\ extra' = extra \ {i}
    /\ files' = [files EXCEPT ![i] = "absent"]
    /\ broken' = broken \ {i}
    /\ UNCHANGED <<cloud, current, step, settings, missing, writing, changes, faults, sound>>

DeleteFails ==
    /\ step = "logos"
    /\ missing = {}
    /\ extra # {}
    /\ Abandon
    /\ UNCHANGED broken

EndRound ==
    /\ step = "logos"
    /\ missing = {}
    /\ extra = {}
    /\ step' = "wait"
    /\ UNCHANGED <<cloud, current, files, settings, missing, extra, writing, changes,
                   faults, sound, broken>>

(* Variant: the catch is outside the loop, which a failure ends. *)
NextRoundIfSound ==
    /\ step = "wait"
    /\ step' = IF sound THEN "fetch" ELSE "wait"
    /\ UNCHANGED <<cloud, current, files, settings, missing, extra, writing, changes,
                   faults, sound, broken>>

(* Delay is over.                                                          *)
NextRound ==
    /\ step = "wait"
    /\ step' = "fetch"
    /\ sound' = TRUE
    /\ UNCHANGED <<cloud, current, files, settings, missing, extra, writing, changes,
                   faults, broken>>

(* The process is recycled and starts a new loop; the folder stays.        *)
Recycle ==
    /\ faults < MaxFaults
    /\ faults' = faults + 1
    /\ current' = {}
    /\ step' = "fetch"
    /\ settings' = {} /\ missing' = {} /\ extra' = {} /\ writing' = {}
    /\ sound' = TRUE
    /\ broken' = broken \union writing
    /\ UNCHANGED <<cloud, files, changes>>

Loop ==
    \/ Fetch \/ Publish \/ ListFiles \/ FinishLogo \/ EndRound \/ NextRound
    \/ \E i \in Images : LoadLogo(i) \/ DeleteFile(i)
    \/ SkipLogo(Blank)

Next ==
    \/ Loop
    \/ \E s \in SUBSET Names : ChangeShowcase(s)
    \/ FetchFails \/ ListFails \/ WriteFails \/ LogosFail \/ DeleteFails
    \/ \E i \in Images : SkipLogo(i)
    \/ Recycle

Spec == Init /\ [][Next]_vars

(* The loop runs as long as the process does, and the API answers it.      *)
FairSpec == Spec /\ WF_vars(Loop)

-----------------------------------------------------------------------------
(***************************************************************************)
(* Properties.                                                             *)
(***************************************************************************)

(* The file of a logo that a published link shows is never deleted, if     *)
(* names are files: settings are published before the files of the old    *)
(* ones are, and whichever round broke off in between, deletions belong to *)
(* what is published now (ShowcaseSettingsUpdater.UpdateLogos).            *)
PublishedLogosKept ==
    [][\A i \in current \ {Blank} : Stored(i) # {} => Stored(i)' # {}]_vars

(* After a round without failures the folder holds the logos of the        *)
(* published links and nothing else; a logo is whole unless its writing    *)
(* was broken off in this round or before: such a file is taken for the    *)
(* logo for as long as the showcase names it.                              *)
SoundRoundsAgree ==
    step = "wait" /\ sound =>
        /\ current = settings
        /\ Local = settings \ {Blank}
        /\ \A i \in Local : files[i] = "complete" \/ i \in broken

(* What a round knows at each step: which files are there, up to the ones  *)
(* that it still has to load and to delete.                                *)
RoundInv ==
    /\ step \in {"list", "logos", "write"} => current = settings
    /\ step \in {"logos", "write"} /\ sound =>
           Local \union (missing \ {Blank}) = (settings \ {Blank}) \union extra
    /\ missing \subseteq settings
    /\ extra \intersect settings = {}
    /\ step \notin {"logos", "write"} => missing = {} /\ extra = {}
    /\ step = "write" <=> writing # {}
    /\ \A i \in Images : files[i] = "partial" => i \in broken \union writing
    /\ \A i \in writing : files[i] = "partial"

IInv == TypeOK /\ RoundInv /\ SoundRoundsAgree

(* Once the administrator and the faults leave it alone, the portal shows  *)
(* the showcase of the cloud, and the folder has its logos: whatever has   *)
(* gone wrong before is made up for by later rounds.                       *)
Converges == <>[](current = cloud /\ Local = cloud \ {Blank})
=============================================================================
